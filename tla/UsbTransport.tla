---------------------------- MODULE UsbTransport ----------------------------
(***************************************************************************)
(* LedgerDeviceUSB (src/libkpl/src/ledger_device_usb.cpp) for messages of  *)
(* any number of packets, with the numbers of their headers as intmem.h    *)
(* stores and loads them.                                                  *)
(*                                                                         *)
(* hidapi and the SDK of the device are modelled from how they are used: a *)
(* write is received by the device at once or fails; packets from the      *)
(* device wait in a queue of the host, emptied when the device is opened.  *)
(* The device puts commands together by the numbers of their packets,      *)
(* starts over when one does not fit, and drops packets while it has a     *)
(* command to answer.                                                      *)
(*                                                                         *)
(* A byte of a message is its message and its place in it.                 *)
(***************************************************************************)
EXTENDS Integers, Sequences, SequencesExt, FiniteSetsExt

CONSTANTS
  Base,          \* number of values of a byte (256)
  LittleEndian,  \* of the host
  FirstRoom,     \* bytes of a message in its first packet (57)
  NextRoom,      \* ... and in each other one (59)
  Commands,
  CommandLen,    \* the length of each
  ReplySizes,    \* lengths of replies, status word included
  BufSizes,      \* sizes of the buffers of LedgerAnswer
  StraySeqs,     \* numbers in packets of other protocols of the device
  MaxFaults,     \* bounds: writes that fail while the device is there,
  MaxPending     \* packets on their way when an exchange starts

ASSUME UsbAssumption ==
  /\ Base \in Nat /\ Base > 1 /\ LittleEndian \in BOOLEAN
  /\ FirstRoom \in Nat \ {0} /\ NextRoom \in Nat \ {0}
  /\ CommandLen \in [Commands -> Nat \ {0}]
  /\ ReplySizes \subseteq 2..(Base * Base - 1) /\ BufSizes \subseteq Nat
  /\ \A c \in Commands, n \in ReplySizes : [to |-> c, is |-> n] \notin Commands
  /\ StraySeqs \subseteq 0..(Base * Base - 1) /\ MaxFaults \in Nat

VARIABLES
  handle,   \* HIDDev_: "null", "open", or "dead" when its device was reset
  phase,    \* where exchange is: "idle", "send", "first" or "rest" of read
  command,  \* Data of the exchange, or of the last one
  size,     \* Out.bufSize() before the exchange
  timed,    \* TimeoutMS > 0
  pos,      \* bytes of Data sent
  seqNum,   \* SeqNum or SeqRef
  inLen,    \* InLen
  out,      \* bytes in Out
  res,      \* the last result
  queue,    \* packets the host has not read
  asm,      \* the command that the device puts together
  taken,    \* the command that the device carries out, or no bytes
  replying, \* packets the device has still to send
  faults,   \* writes that failed, since the device was last at rest
  failed    \* history: an exchange has failed since then

host == <<handle, phase, command, size, timed, pos, seqNum, inLen, out, res>>
device == <<asm, taken, replying>>
vars == <<host, device, queue, faults, failed>>

SW == 2
Max16 == Base * Base - 1

(* intmem.h, for 16 bits; a number in memory is a pair of bytes *)
Memory(v) == IF LittleEndian THEN <<v % Base, v \div Base>> ELSE <<v \div Base, v % Base>>
loadu(b) == IF LittleEndian THEN b[1] + Base * b[2] ELSE Base * b[1] + b[2]
storeu(v) == Memory(v)
bswap(v) == (v % Base) * Base + v \div Base
bswap_be(v) == IF LittleEndian THEN bswap(v) ELSE v

\* Mutant: the number is stored as the host has it.
storeu_host(v) == storeu(v)

storeu_be(v) == storeu(bswap_be(v))
loadu_be(b) == bswap_be(loadu(b))

\* As the device reads and writes numbers.
BigEndian(v) == <<v \div Base, v % Base>>
Number(b) == b[1] * Base + b[2]

\* A reply is the command it answers and its own length.
LenOf(m) == IF m \in Commands THEN CommandLen[m] ELSE m.is
Bytes(m) == [i \in 1..LenOf(m) |-> [of |-> m, place |-> i]]
Packet(seq, len, data) == [ours |-> TRUE, seq |-> seq, len |-> len, data |-> data]
NoLen == <<0, 0>>

\* A reply as the device cuts it: the number of packets, and the packets.
Count(reply) == 1 + (Max({0, reply.is - FirstRoom}) + NextRoom - 1) \div NextRoom
Packets(reply) ==
  LET upto(k) == Min({reply.is, FirstRoom + (k - 1) * NextRoom})
  IN [k \in 1..Count(reply) |->
        IF k = 1
          THEN Packet(BigEndian(0), BigEndian(reply.is), SubSeq(Bytes(reply), 1, upto(1)))
          ELSE Packet(BigEndian(k - 1), NoLen, SubSeq(Bytes(reply), upto(k - 1) + 1, upto(k)))]

NoAsm == [next |-> 0, left |-> 0, bytes |-> <<>>]
AtRest == asm = NoAsm /\ taken = <<>> /\ replying = <<>>
-----------------------------------------------------------------------------
(* The host *)

\* exchange returns, and its parameters and local variables are gone.
Return(r) ==
  /\ phase' = "idle" /\ res' = r
  /\ pos' = 0 /\ seqNum' = 0 /\ inLen' = 0 /\ timed' = FALSE
  /\ failed' = (failed \/ r # "SUCCESS")

\* Mutant: the old handle is used again.
KeepHandle == queue

\* close and hid_open_path: the queue of the old handle is gone.
NewHandle == <<>>

\* What the device is doing goes on.
connect ==
  /\ phase = "idle"
  /\ handle' \in {"open", "null"}
  /\ queue' = NewHandle /\ res' = "none" /\ out' = <<>>
  /\ failed' = (failed /\ ~AtRest)
  /\ faults' = IF AtRest THEN 0 ELSE faults
  /\ UNCHANGED <<phase, command, size, timed, pos, seqNum, inLen, device>>

\* exchange, with the checks that send makes first.
exchange(c, n, t) ==
  /\ phase = "idle"
  /\ Len(queue) + Len(replying) <= MaxPending
  /\ command' = c /\ size' = n
  /\ out' = <<>>
  /\ \/ handle = "null" /\ Return("TRANSPORT_GENERIC_ERROR")
     \/ handle # "null" /\ CommandLen[c] > Max16 /\ Return("LIB_BAD_LENGTH")
     \/ /\ handle # "null" /\ CommandLen[c] <= Max16
        /\ phase' = "send" /\ res' = "none" /\ timed' = t
        /\ UNCHANGED <<pos, seqNum, inLen, failed>>
  /\ UNCHANGED <<handle, device, queue, faults>>

NextNumber == (seqNum + 1) % (Max16 + 1)

\* The packet that send has in Buf.
Room == IF seqNum = 0 THEN FirstRoom ELSE NextRoom

\* Mutant: Data is not moved on.
SameChunk == SubSeq(Bytes(command), 1, Min({LenOf(command) - pos, Room}))

Chunk == SubSeq(Bytes(command), pos + 1, Min({LenOf(command), pos + Room}))
PacketToSend ==
  Packet(storeu_be(seqNum), IF pos = 0 THEN storeu_be(LenOf(command)) ELSE NoLen, Chunk)

\* The SDK of the device.
Assemble(p) ==
  LET total == IF asm.next = 0 THEN Number(p.len) ELSE asm.left
      data == SubSeq(p.data, 1, Min({total, Len(p.data)}))
      left == total - Len(data)
      bytes == asm.bytes \o data
  IN \/ /\ taken # <<>> \/ replying # <<>>
        /\ UNCHANGED <<asm, taken>>
     \/ /\ taken = <<>> /\ replying = <<>>
        /\ \/ /\ Number(p.seq) # asm.next
              /\ asm' = NoAsm /\ UNCHANGED taken
           \/ /\ Number(p.seq) = asm.next /\ left = 0
              /\ asm' = NoAsm /\ taken' = bytes
           \/ /\ Number(p.seq) = asm.next /\ left > 0
              /\ asm' = [next |-> asm.next + 1, left |-> left, bytes |-> bytes]
              /\ UNCHANGED taken

\* After a packet that counts as written: the next one, or read.
Advance ==
  LET sent == pos + Len(Chunk)
  IN /\ \/ /\ sent < LenOf(command)
           /\ pos' = sent /\ seqNum' = NextNumber
           /\ UNCHANGED phase
        \/ /\ sent = LenOf(command)
           /\ phase' = "first"
           /\ pos' = 0 /\ seqNum' = 0
     /\ UNCHANGED <<timed, inLen, res, failed>>

sendPacket ==
  /\ phase = "send" /\ handle = "open"
  /\ Assemble(PacketToSend)
  /\ Advance
  /\ UNCHANGED <<handle, command, size, out, queue, replying, faults>>

Fault ==
  /\ handle = "open" => faults < MaxFaults
  /\ faults' = IF handle = "open" THEN faults + 1 ELSE faults

\* hid_write fails: its -1 is no less than PktLen when both are unsigned.
writeFails ==
  /\ phase = "send"
  /\ Fault
  /\ Advance
  /\ UNCHANGED <<handle, command, size, out, queue, device>>

\* hid_write writes part of a packet.
writeShort ==
  /\ phase = "send" /\ handle = "open"
  /\ Fault
  /\ Return("TRANSPORT_GENERIC_ERROR")
  /\ UNCHANGED <<handle, command, size, out, queue, device>>

\* The bytes copied from a packet, and what is done when all have come: exchange
\* resizes Out, APDUStream::exchange looks at its size.
Copy(p, room, want) ==
  LET data == SubSeq(p.data, 1, Min({want, room, Len(p.data)}))
      left == want - Min({want, room})
  IN /\ out' = out \o data
     /\ \/ /\ left > 0
           /\ inLen' = left /\ seqNum' = NextNumber /\ phase' = "rest"
           /\ UNCHANGED <<pos, timed, res, failed>>
        \/ /\ left = 0
           /\ Return(IF Len(out') >= SW THEN "SUCCESS" ELSE "PROTOCOL_BAD_LENGTH")

\* read refuses the buffer; the reply is left to come.
refuseBuffer ==
  /\ phase = "first" /\ size > Max16
  /\ Return("LIB_BAD_LENGTH")
  /\ UNCHANGED <<handle, command, size, out, device, queue, faults>>

TakePacket ==
  /\ queue # <<>>
  /\ queue' = Tail(queue)
  /\ UNCHANGED <<handle, command, size, device, faults>>

\* Mutant: the buffer is not looked at.
AnyLength(len) == FALSE

TooLong(len) == len > size

readFirst ==
  /\ phase = "first" /\ size <= Max16
  /\ TakePacket
  /\ LET p == Head(queue)
         len == loadu_be(p.len)
     IN \/ /\ ~p.ours
           /\ Return("TRANSPORT_USB_BAD_PACKET")
           /\ UNCHANGED out
        \/ /\ p.ours /\ loadu_be(p.seq) # 0
           /\ Return("TRANSPORT_USB_BAD_SEQ")
           /\ UNCHANGED out
        \/ /\ p.ours /\ loadu_be(p.seq) = 0 /\ TooLong(len)
           /\ Return("PROTOCOL_BAD_LENGTH")
           /\ UNCHANGED out
        \/ /\ p.ours /\ loadu_be(p.seq) = 0 /\ ~TooLong(len)
           /\ Copy(p, FirstRoom, len)

\* Mutant: nothing at all of a later packet is looked at.
AnyPacket(p) == TRUE

\* Neither the channel nor the tag of a later packet is looked at.
InSequence(p) == loadu_be(p.seq) = seqNum

readRest ==
  /\ phase = "rest"
  /\ TakePacket
  /\ LET p == Head(queue)
     IN \/ /\ ~InSequence(p)
           /\ Return("TRANSPORT_USB_BAD_SEQ")
           /\ UNCHANGED out
        \/ /\ InSequence(p)
           /\ Copy(p, NextRoom, inLen)

\* hid_read_timeout has waited too long, or fails.
readNothing ==
  /\ phase \in {"first", "rest"} /\ size <= Max16
  /\ timed \/ (handle = "dead" /\ queue = <<>>)
  /\ Return("TRANSPORT_TIMEOUT")
  /\ UNCHANGED <<handle, command, size, out, device, queue, faults>>
-----------------------------------------------------------------------------
(* The device *)

Answer(n) ==
  /\ taken # <<>>
  /\ replying' = Packets([to |-> taken[1].of, is |-> n])
  /\ taken' = <<>>
  /\ UNCHANGED <<host, asm, queue, faults, failed>>

\* A packet reaches the host, if it has the device open.
Transmit ==
  /\ replying # <<>>
  /\ replying' = Tail(replying)
  /\ queue' = IF handle = "open" THEN Append(queue, Head(replying)) ELSE queue
  /\ UNCHANGED <<host, asm, taken, faults, failed>>

\* A packet of another protocol, for another program.
Stray ==
  /\ handle = "open"
  /\ Len(queue) + Len(replying) <= MaxPending
  /\ \E n \in StraySeqs :
       queue' = Append(queue, [ours |-> FALSE, seq |-> BigEndian(n), len |-> NoLen, data |-> <<>>])
  /\ UNCHANGED <<host, device, faults, failed>>

\* The device is reset.  Some backends of hidapi still return what it had sent.
DeviceGone ==
  /\ handle' = IF handle = "open" THEN "dead" ELSE handle
  /\ asm' = NoAsm /\ taken' = <<>> /\ replying' = <<>>
  /\ queue' \in {queue, <<>>}
  /\ UNCHANGED <<phase, command, size, timed, pos, seqNum, inLen, out, res, faults, failed>>

Init ==
  /\ handle = "null" /\ phase = "idle"
  /\ command \in Commands /\ size \in BufSizes /\ timed = FALSE
  /\ pos = 0 /\ seqNum = 0 /\ inLen = 0 /\ out = <<>> /\ res = "none"
  /\ queue = <<>> /\ asm = NoAsm /\ taken = <<>> /\ replying = <<>>
  /\ faults = 0 /\ failed = FALSE

Read == refuseBuffer \/ readFirst \/ readRest \/ readNothing
Send == sendPacket \/ writeFails \/ writeShort

Next ==
  \/ connect
  \/ \E c \in Commands, n \in BufSizes, t \in BOOLEAN : exchange(c, n, t)
  \/ Send \/ Read
  \/ \E n \in ReplySizes : Answer(n)
  \/ Transmit \/ Stray \/ DeviceGone

Spec == Init /\ [][Next]_vars

\* The host goes on with an exchange, the device answers what it has received.
FairSpec ==
  /\ Spec
  /\ WF_vars(Send) /\ WF_vars(Read)
  /\ WF_vars(\E n \in ReplySizes : Answer(n)) /\ WF_vars(Transmit)
-----------------------------------------------------------------------------
(* Properties *)

TypeOK ==
  /\ handle \in {"null", "open", "dead"} /\ phase \in {"idle", "send", "first", "rest"}
  /\ command \in Commands /\ size \in BufSizes
  /\ timed \in BOOLEAN /\ failed \in BOOLEAN
  /\ pos \in 0..LenOf(command) /\ seqNum \in 0..Max16 /\ inLen \in 0..size
  /\ Len(out) <= size
  /\ \A p \in Range(queue \o replying) :
       Number(p.seq) \in 0..Max16 /\ Number(p.len) \in 0..Max16
  /\ asm.next \in 0..Max16 /\ asm.left \in 0..Max16
  /\ faults \in 0..MaxFaults

\* The device carries out nothing but commands exactly as an exchange was given
\* them, although a packet that could not be written counts as written and the
\* device sees numbers only: the next packets do not fit, and it starts over.
CommandWhole == taken # <<>> => taken = Bytes(taken[1].of)

\* The replies of which no packet is lost: their packets stand side by side in
\* the queue, the one that read has begun with at its head.
Ends(p, reply) == p.ours /\ Last(p.data) = [of |-> reply, place |-> reply.is]
Starts(p) == p.ours /\ Head(p.data).place = 1
Unread ==
  LET whole[q \in {queue \o replying}] ==
        LET Complete(reply, last) == last \in DOMAIN q /\ Ends(q[last], reply)
            At(i) == LET reply == Head(q[i].data).of
                     IN IF Complete(reply, i + Count(reply) - 1) THEN <<reply>> ELSE <<>>
            begun == Head(out).of
        IN (IF phase = "rest" /\ Complete(begun, Count(begun) - seqNum) THEN <<begun>> ELSE <<>>)
             \o FlattenSeq([i \in DOMAIN q |-> IF Starts(q[i]) THEN At(i) ELSE <<>>])
  IN whole[queue \o replying]

T == INSTANCE Transport WITH
       Replies <- ReplySizes,
       framed <- TRUE,
       busy <- phase # "idle",
       commands <- IF phase = "send" /\ handle = "open"
                      /\ asm.bytes = SubSeq(Bytes(command), 1, pos)
                     THEN <<command>> ELSE <<>>,
       owed <- IF taken = <<>> THEN <<>> ELSE <<taken[1].of>>,
       replies <- Unread,
       answer <-
         CASE res = "none" -> [res |-> "none"]
           [] res = "SUCCESS" ->
                IF out = Bytes(out[1].of)
                  THEN [res |-> "success", reply |-> out[1].of]
                  ELSE [res |-> "garbled"]
           [] OTHER -> [res |-> "failure"]

\* However messages are cut into packets, whatever writes fail, reads time out
\* and packets are left over from exchanges that failed: an exchange returns one
\* whole reply, the oldest one, or fails.
ImplementsTransport == T!Spec

OwnAnswer == T!OwnAnswer

\* Without a timeout every exchange returns, unless one before has failed, or a
\* packet of its command could not be written, which goes unnoticed.
ExchangeReturns ==
  (phase # "idle" /\ ~failed /\ faults = 0) ~> (phase = "idle" \/ faults > 0)
-----------------------------------------------------------------------------
(* The inductive invariants that UsbTransportProofs rests on *)

Results == {"none", "SUCCESS", "TRANSPORT_GENERIC_ERROR", "LIB_BAD_LENGTH", "PROTOCOL_BAD_LENGTH",
            "TRANSPORT_USB_BAD_PACKET", "TRANSPORT_USB_BAD_SEQ", "TRANSPORT_TIMEOUT"}
Pair == (0..(Base - 1)) \X (0..(Base - 1))
ReplyMessages == [to : Commands, is : ReplySizes]
Messages == Commands \cup ReplyMessages
MessageByte == [of : Messages, place : Nat]
AnyPackets == [ours : BOOLEAN, seq : Pair, len : Pair, data : Seq(MessageByte)]

TypeInv ==
  /\ handle \in {"null", "open", "dead"} /\ phase \in {"idle", "send", "first", "rest"}
  /\ command \in Commands /\ size \in BufSizes /\ timed \in BOOLEAN /\ res \in Results
  /\ pos \in Nat /\ seqNum \in 0..Max16 /\ inLen \in 0..size
  /\ out \in Seq(MessageByte)
  /\ queue \in Seq(AnyPackets) /\ replying \in Seq(AnyPackets)
  /\ \A i \in DOMAIN queue : queue[i].ours \/ Number(queue[i].seq) \in StraySeqs
  /\ \A i \in DOMAIN replying : replying[i].ours
  /\ taken \in Seq(MessageByte) /\ \A i \in DOMAIN taken : taken[i].of \in Commands
  /\ asm \in [next : Nat, left : Nat, bytes : Seq(MessageByte)]
  /\ \A i \in DOMAIN asm.bytes : asm.bytes[i].of \in Commands
  /\ faults \in 0..MaxFaults /\ failed \in BOOLEAN

\* Where exchange is in its command, and how much room is left for the reply.
ProgressInv ==
  /\ phase = "send" =>
       /\ CommandLen[command] <= Max16 /\ pos < CommandLen[command]
       /\ pos = (IF seqNum = 0 THEN 0 ELSE FirstRoom + (seqNum - 1) * NextRoom)
  /\ phase # "send" => pos = 0
  /\ phase \in {"idle", "first"} => seqNum = 0
  /\ phase \in {"send", "first"} => out = <<>>
  /\ IF phase = "rest" THEN Len(out) + inLen <= size ELSE inLen = 0
  /\ Len(out) <= size /\ (res = "SUCCESS" => Len(out) >= SW)
  /\ phase # "idle" => handle # "null" /\ res = "none"
  /\ handle = "dead" => asm = NoAsm

\* What the device is putting together is the beginning of a command: that of the
\* exchange, if its next packet is the one that the device waits for.
AsmInv ==
  asm # NoAsm =>
    /\ taken = <<>> /\ replying = <<>>
    /\ asm.next > 0 /\ asm.left > 0 /\ asm.next + asm.left <= Max16

Beginning(c, n) == SubSeq(Bytes(c), 1, n)
InStep ==
  /\ asm.next = seqNum /\ seqNum > 0
  /\ asm.left = CommandLen[command] - pos /\ asm.bytes = Beginning(command, pos)
OutOfStep == seqNum = 0 \/ seqNum > asm.next

\* If it is not that of the exchange, a write has failed, and no other one can.
WholeInv ==
  /\ asm # NoAsm =>
       /\ \E c \in Commands : /\ asm.left < CommandLen[c]
                             /\ asm.bytes = Beginning(c, CommandLen[c] - asm.left)
       /\ \/ phase = "send" /\ InStep
          \/ faults > 0 /\ (phase = "send" => OutOfStep)
  /\ CommandWhole

Ours(s) == {i \in DOMAIN s : s[i].ours}

\* The packets of a reply that are still to be read are the only ones, and in order.
Rest(reply) == {Packets(reply)[k] : k \in (seqNum + 1)..Count(reply)}
InOrder(s) == \A i, j \in Ours(s) : i < j => Number(s[i].seq) < Number(s[j].seq)
ReplyUnderWay(reply) ==
  /\ taken = <<>> /\ asm = NoAsm
  /\ \A i \in Ours(queue) : queue[i] \in Rest(reply)
  /\ \A i \in DOMAIN replying : replying[i] \in Rest(reply)
  /\ InOrder(queue) /\ InOrder(replying)
  /\ \A i \in Ours(queue), j \in DOMAIN replying : Number(queue[i].seq) < Number(replying[j].seq)
  /\ \A i \in DOMAIN out : out[i].of = reply
  /\ phase = "rest" =>
       seqNum > 0 /\ inLen > 0 /\ inLen = reply.is - FirstRoom - (seqNum - 1) * NextRoom

\* Until an exchange fails, its command or its reply is all there is.
AloneInv ==
  ~failed =>
    /\ phase \in {"idle", "send"} => taken = <<>> /\ replying = <<>> /\ Ours(queue) = {}
    /\ phase = "idle" => asm = NoAsm
    /\ phase = "send" /\ asm # NoAsm => InStep \/ seqNum > asm.next
    /\ \A i \in DOMAIN asm.bytes : asm.bytes[i].of = command
    /\ \A i \in DOMAIN taken : taken[i].of = command
    /\ phase \in {"first", "rest"} =>
         \/ phase = "first" /\ replying = <<>> /\ Ours(queue) = {}
         \/ \E n \in ReplySizes : ReplyUnderWay([to |-> command, is |-> n])
    /\ res = "SUCCESS" => \A i \in DOMAIN out : out[i].of.to = command
=============================================================================
