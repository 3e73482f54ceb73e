---------------------------- MODULE TcpTransport ----------------------------
(***************************************************************************)
(* LedgerDeviceTCP (src/libkpl/src/ledger_device_tcp.cpp), with the check  *)
(* that APDUStream::exchange makes of what it returns.  A command or reply *)
(* is sent as its length and its bytes; the length of a reply leaves out   *)
(* the two bytes of its status word.                                       *)
(*                                                                         *)
(* TCP delivers bytes in order and in pieces of any size.  The proxy at    *)
(* the other end answers commands one after the other, or closes.  A byte  *)
(* of a reply is a record: its value, its reply, and its place in it; the  *)
(* code sees the value only.                                               *)
(***************************************************************************)
EXTENDS Integers, Sequences, SequencesExt, FiniteSetsExt

CONSTANTS
  Base,       \* number of values of a byte (256)
  LenBytes,   \* bytes of a length (4, of a uint32_t; or fewer)
  Commands,
  Oversized,  \* those whose length is no uint32_t
  Torn,       \* what the proxy receives after part of a command was sent
  Replies,    \* sequences of byte values, status word included
  BufSizes,   \* sizes of the buffers of LedgerAnswer
  MaxPending  \* bound: bytes on their way when an exchange starts

SW == 2

\* Base to the power of k; uint32_t arithmetic is modulo 2^32, here Modulus.
Power(k) == <<1, Base, Base * Base, Base * Base * Base, Base * Base * Base * Base>>[k + 1]
Modulus == Power(LenBytes)

\* The length of a reply is sent as a uint32_t.
ASSUME TcpAssumption ==
  /\ Base \in Nat /\ Base > 1 /\ LenBytes \in 1..4
  /\ Oversized \subseteq Commands /\ Torn \notin Commands
  /\ \A r \in Replies :
       /\ r \in Seq(0..(Base - 1))
       /\ SW <= Len(r) /\ Len(r) < Modulus + SW
  /\ BufSizes \subseteq {n \in Nat : n >= SW}

VARIABLES
  fd,       \* FD_: "closed", "open", or "eof" when the peer has closed
  commands, \* sent, and not received by the proxy
  owed,     \* received by the proxy, and not answered
  sent,     \* bytes the proxy has sent and this host has not received
  arrived,  \* bytes in the receive buffer of the socket
  phase,    \* where exchange is: "idle", "send", "length" or "bytes"
  command,  \* Data of the exchange, or of the last one
  size,     \* Out.bufSize()
  timed,    \* whether its TimeoutMS is not 0
  recvLen,  \* RecvLen
  result,   \* the result of the last exchange, and the bytes in Out
  failed,   \* history: some exchange of this connection has failed
  lost      \* history: the directions in which part of a message went by, so
            \* that its other end does not know where messages begin

vars == <<fd, commands, owed, sent, arrived, phase, command, size, timed, recvLen,
          result, failed, lost>>
stream == <<commands, owed, sent, arrived>>

\* ntohl and htonl, of as many bytes as a length has.
Place(bytes, k) == IF k < LenBytes THEN bytes[LenBytes - k].v ELSE 0
LengthOf(bytes) ==
  Place(bytes, 0) + Base * (Place(bytes, 1) + Base * (Place(bytes, 2) + Base * Place(bytes, 3)))
Digits(n) == [i \in 1..LenBytes |-> (n \div Power(LenBytes - i)) % Base]

\* A reply [to, is] as it is sent; its length has no place.
Message(reply) ==
  LET n == Len(reply.is) - SW
  IN [i \in 1..LenBytes |-> [v |-> Digits(n)[i], of |-> reply, place |-> 0]]
       \o [i \in DOMAIN reply.is |-> [v |-> reply.is[i], of |-> reply, place |-> i]]
-----------------------------------------------------------------------------
(* The host *)

\* exchange returns, and APDUStream::exchange looks at the size.
Return(res, bytes) ==
  /\ result' = [res |-> res, bytes |-> bytes]
  /\ phase' = "idle" /\ recvLen' = 0
  /\ failed' = (failed \/ res # "SUCCESS")

Unfinished == UNCHANGED <<result, failed>>

\* Mutant: APDUStream::exchange trusts the transport.
AnySize(bytes) == Return("SUCCESS", bytes)

CheckSize(bytes) ==
  Return(IF Len(bytes) >= SW THEN "SUCCESS" ELSE "PROTOCOL_BAD_LENGTH", bytes)

\* Mutant: the socket that is open is used on.
KeepSocket(bytes) == bytes

NewSocket(bytes) == <<>>

\* connect closes an open socket first; nothing of it can be read any more.
connect ==
  /\ phase = "idle"
  /\ fd' \in {"open", "closed"}
  /\ commands' = NewSocket(commands) /\ owed' = NewSocket(owed)
  /\ sent' = NewSocket(sent) /\ arrived' = NewSocket(arrived)
  /\ result' = [res |-> "none", bytes |-> <<>>]
  /\ failed' = FALSE /\ lost' = {}
  /\ UNCHANGED <<phase, command, size, timed, recvLen>>

\* A closed socket cannot be sent to; send asserts that it is none, in the
\* builds that have asserts.
exchange(c, n, t) ==
  /\ phase = "idle"
  /\ Len(sent \o arrived) + Len(commands \o owed) * (LenBytes + SW) <= MaxPending
  /\ command' = c /\ size' = n /\ timed' = t
  /\ \/ c \in Oversized /\ Return("LIB_BAD_LENGTH", <<>>)
     \/ c \notin Oversized /\ fd = "closed" /\ Return("TRANSPORT_GENERIC_ERROR", <<>>)
     \/ /\ c \notin Oversized /\ fd # "closed"
        /\ phase' = "send"
        /\ result' = [res |-> "none", bytes |-> <<>>]
        /\ UNCHANGED <<recvLen, failed>>
  /\ UNCHANGED <<fd, stream, lost>>

\* Mutant: the length of the command is sent, its bytes are not.
LengthOnly(received) == commands

\* What is sent after part of a command completes it, or is part of it.
Sent(received) ==
  IF fd = "open" /\ (received # Torn \/ commands = <<>>) THEN Append(commands, received)
  ELSE commands

\* Both calls of send; data can still be sent, or not, when the peer has closed.
sendAll ==
  /\ phase = "send"
  /\ phase' = "length"
  /\ commands' = Sent(IF "send" \in lost THEN Torn ELSE command)
  /\ UNCHANGED <<fd, owed, sent, arrived, command, size, timed, recvLen, result, failed, lost>>

\* A call of send fails, or takes part of the bytes.
sendFails ==
  /\ phase = "send"
  /\ Return("TRANSPORT_GENERIC_ERROR", <<>>)
  /\ \/ commands' = Sent(Torn) /\ lost' = lost \cup {"send"}
     \/ fd = "eof" /\ UNCHANGED <<commands, lost>>
  /\ UNCHANGED <<fd, owed, sent, arrived, command, size, timed>>

\* recv hands over what has arrived, at most n bytes; the bytes of a read that
\* gets fewer are lost.
Recv(n) == SubSeq(arrived, 1, Min({n, Len(arrived)}))
Consume(n) == arrived' = SubSeq(arrived, Len(Recv(n)) + 1, Len(arrived))
Lose == lost' = lost \cup {"read"}

\* Mutant: of an answer, what has come is taken for all of it.
LengthShort(got, n) == Len(got) < n /\ phase = "length"

Short(got, n) == Len(got) < n

\* ntohl(RecvLen) + sizeof(SWTy), of type uint32_t.
FullLength(bytes) == (LengthOf(bytes) + SW) % Modulus

\* Mutant: the buffer is not looked at.
AnyLength(len) == FALSE

TooLong(len) == len > size

readLength ==
  /\ phase = "length" /\ arrived # <<>>
  /\ Consume(LenBytes)
  /\ LET got == Recv(LenBytes)
     IN \/ /\ Short(got, LenBytes)
           /\ Return("TRANSPORT_TIMEOUT", <<>>) /\ Lose
        \/ /\ ~Short(got, LenBytes) /\ TooLong(FullLength(got))
           /\ Return("PROTOCOL_BAD_LENGTH", <<>>) /\ Lose
        \/ /\ ~Short(got, LenBytes) /\ ~TooLong(FullLength(got))
           /\ recvLen' = FullLength(got) /\ phase' = "bytes"
           /\ Unfinished /\ UNCHANGED lost
  /\ UNCHANGED <<fd, commands, owed, sent, command, size, timed>>

readBytes ==
  /\ phase = "bytes"
  /\ arrived # <<>> \/ recvLen = 0
  /\ Consume(recvLen)
  /\ LET got == Recv(recvLen)
     IN \/ Short(got, recvLen) /\ Return("TRANSPORT_TIMEOUT", <<>>) /\ Lose
        \/ ~Short(got, recvLen) /\ CheckSize(got) /\ UNCHANGED lost
  /\ UNCHANGED <<fd, commands, owed, sent, command, size, timed>>

\* recv has waited for TimeoutMS; or the peer has closed, and it returns 0 or
\* fails.  A length that was read is forgotten.
readNothing ==
  /\ phase \in {"length", "bytes"} /\ arrived = <<>>
  /\ \/ timed /\ Return("TRANSPORT_TIMEOUT", <<>>)
     \/ /\ fd = "eof" /\ sent = <<>>
        /\ Return("TRANSPORT_TIMEOUT", <<>>) \/ Return("TRANSPORT_GENERIC_ERROR", <<>>)
  /\ IF phase = "bytes" THEN Lose ELSE UNCHANGED lost
  /\ UNCHANGED <<fd, stream, command, size, timed>>
-----------------------------------------------------------------------------
(* The proxy and the network *)

\* Part of a command may be all there is.
Receive ==
  /\ commands # <<>>
  /\ commands' = Tail(commands)
  /\ \/ owed' = Append(owed, Head(commands))
     \/ Head(commands) = Torn /\ UNCHANGED owed
  /\ UNCHANGED <<fd, sent, arrived, phase, command, size, timed, recvLen, result, failed, lost>>

Serve(r) ==
  /\ owed # <<>> /\ fd = "open"
  /\ owed' = Tail(owed)
  /\ sent' = sent \o Message([to |-> Head(owed), is |-> r])
  /\ UNCHANGED <<fd, commands, arrived, phase, command, size, timed, recvLen, result, failed, lost>>

Arrive ==
  /\ sent # <<>>
  /\ \E n \in 1..Len(sent) :
       /\ arrived' = arrived \o SubSeq(sent, 1, n)
       /\ sent' = SubSeq(sent, n + 1, Len(sent))
  /\ UNCHANGED <<fd, commands, owed, phase, command, size, timed, recvLen, result, failed, lost>>

\* The proxy ends, perhaps in a reply.
PeerCloses ==
  /\ fd = "open"
  /\ fd' = "eof"
  /\ commands' = <<>> /\ owed' = <<>>
  /\ \E n \in 0..Len(sent) : sent' = SubSeq(sent, 1, n)
  /\ UNCHANGED <<arrived, phase, command, size, timed, recvLen, result, failed, lost>>

Init ==
  /\ fd = "closed"
  /\ commands = <<>> /\ owed = <<>> /\ sent = <<>> /\ arrived = <<>>
  /\ phase = "idle" /\ command \in Commands /\ size \in BufSizes
  /\ timed = FALSE /\ recvLen = 0
  /\ result = [res |-> "none", bytes |-> <<>>]
  /\ failed = FALSE /\ lost = {}

Send == sendAll \/ sendFails
Read == readLength \/ readBytes \/ readNothing

Next ==
  \/ connect
  \/ \E c \in Commands, n \in BufSizes, t \in BOOLEAN : exchange(c, n, t)
  \/ Send \/ Read
  \/ Receive \/ Arrive \/ PeerCloses
  \/ \E r \in Replies : Serve(r)

Spec == Init /\ [][Next]_vars

\* The proxy answers or closes, what was sent arrives, the host goes on.
FairSpec ==
  /\ Spec
  /\ WF_vars(Send) /\ WF_vars(Read) /\ WF_vars(Arrive)
  /\ WF_vars(Receive) /\ WF_vars(\E r \in Replies : Serve(r))
-----------------------------------------------------------------------------
(* Properties *)

Succeeded == result.res = "SUCCESS"

TypeOK ==
  /\ fd \in {"closed", "open", "eof"} /\ phase \in {"idle", "send", "length", "bytes"}
  /\ command \in Commands /\ size \in BufSizes /\ timed \in BOOLEAN
  /\ recvLen \in 0..(Modulus - 1) /\ recvLen <= size
  /\ Range(commands \o owed) \subseteq Commands \cup {Torn}
  /\ \A b \in Range(sent \o arrived \o result.bytes) :
       b.v \in 0..(Base - 1) /\ b.of.to \in Commands \cup {Torn} /\ b.of.is \in Replies
  /\ failed \in BOOLEAN /\ lost \subseteq {"send", "read"}

\* After a failure lengths may be read from the middle of replies; still, no
\* answer is shorter than a status word, although ntohl(RecvLen) + 2 can wrap
\* around to 0 or 1, and none is longer than the buffer.
AnswerFits == Succeeded => Len(result.bytes) \in SW..size

\* Between two exchanges of a connection without a failure the stream is at
\* the beginning of a reply: nothing is left over and nothing is owed.
AtBoundary ==
  (phase = "idle" /\ ~failed) => stream = <<<<>>, <<>>, <<>>, <<>>>>

Body(reply) == SubSeq(Message(reply), LenBytes + 1, LenBytes + Len(reply.is))

\* The replies that are still to be read whole, first the one whose length has
\* been read.
Unread ==
  LET whole[s \in {arrived \o sent}] ==
        LET At(i) == LET r == s[i].of
                         end == i + Len(r.is) - 1
                     IN IF s[i].place = 1 /\ end \in DOMAIN s /\ s[end].place = Len(r.is)
                          THEN <<r>> ELSE <<>>
        IN FlattenSeq([i \in DOMAIN s |-> At(i)])
  IN whole[arrived \o sent]

T == INSTANCE Transport WITH
       busy <- phase # "idle",
       commands <- IF lost # {} THEN <<>>
                   ELSE IF phase = "send" /\ fd = "open" THEN Append(commands, command)
                   ELSE commands,
       owed <- IF lost = {} THEN owed ELSE <<>>,
       replies <- IF lost = {} THEN Unread ELSE <<>>,
       framed <- lost = {},
       answer <-
         CASE result.res = "none" -> [res |-> "none"]
           [] Succeeded ->
                IF lost = {} /\ result.bytes = Body(result.bytes[1].of)
                  THEN [res |-> "success", reply |-> result.bytes[1].of]
                  ELSE [res |-> "garbled"]
           [] OTHER -> [res |-> "failure"]

\* Wherever TCP cuts the stream, an exchange returns one whole reply, the oldest
\* one, or fails; only when one has failed in the middle of a message can a later
\* one return anything else, and connect puts an end to that.
ImplementsTransport == T!Spec

OwnAnswer == T!OwnAnswer

\* On a connection without a failure every exchange returns, without any
\* timeout.  (After one, a garbage length can make it wait for bytes that
\* nobody sends.)
ExchangeReturns == (phase # "idle" /\ ~failed) ~> phase = "idle"

\* errors.cpp calls TRANSPORT_TIMEOUT a "communication timeout": with
\* TimeoutMS = 0 and the peer there, none can have run out.
TimeoutTakesTime ==
  (fd = "open" /\ result.res = "TRANSPORT_TIMEOUT") => timed
-----------------------------------------------------------------------------
(* The inductive invariant that TcpTransportProofs rests on *)

ReplyTo == [to : Commands \cup {Torn}, is : Replies]
StreamByte == [v : 0..(Base - 1), of : ReplyTo, place : Nat]

Results == {"none", "SUCCESS", "TRANSPORT_TIMEOUT", "TRANSPORT_GENERIC_ERROR",
            "PROTOCOL_BAD_LENGTH", "LIB_BAD_LENGTH"}

TypeInv ==
  /\ fd \in {"closed", "open", "eof"} /\ phase \in {"idle", "send", "length", "bytes"}
  /\ command \in Commands /\ size \in BufSizes /\ timed \in BOOLEAN
  /\ recvLen \in 0..(Modulus - 1) /\ recvLen <= size
  /\ phase # "bytes" => recvLen = 0
  /\ commands \in Seq(Commands \cup {Torn}) /\ owed \in Seq(Commands \cup {Torn})
  /\ sent \in Seq(StreamByte) /\ arrived \in Seq(StreamByte)
  /\ result \in [res : Results, bytes : Seq(StreamByte)]
  /\ failed \in BOOLEAN /\ lost \subseteq {"send", "read"}

\* The command in progress, wherever it is; or nothing, when the peer has closed.
CommandUnderWay ==
  /\ sent = <<>> /\ arrived = <<>>
  /\ \/ commands = <<>> /\ owed \in {<<>>, <<command>>}
     \/ commands = <<command>> /\ owed = <<>>

\* What is still to be read is the reply from its beginning, or from behind its
\* length, as far as it has been sent.
ReplyUnderWay(reply) ==
  /\ commands = <<>> /\ owed = <<>>
  /\ \/ phase = "length" /\ IsPrefix(arrived \o sent, Message(reply))
     \/ /\ phase = "bytes" /\ IsPrefix(arrived \o sent, Body(reply))
        /\ recvLen = Len(reply.is) \/ recvLen < SW

\* Until an exchange fails, its command or its reply is all there is.
AloneInv ==
  ~failed =>
    /\ lost = {}
    /\ phase \in {"idle", "send"} => stream = <<<<>>, <<>>, <<>>, <<>>>>
    /\ phase \in {"length", "bytes"} =>
         \/ phase = "length" /\ CommandUnderWay
         \/ \E r \in Replies : ReplyUnderWay([to |-> command, is |-> r])
    /\ Succeeded => \E r \in Replies : result.bytes = Body([to |-> command, is |-> r])
=============================================================================
