------------------------------- MODULE LibKpl -------------------------------
(***************************************************************************)
(* libkpl, the library on the host (src/libkpl/src): the KPL object, the   *)
(* exchange of one command for one reply (ledger_client.cpp), and the USB  *)
(* transport that cuts replies into 64-byte packets                        *)
(* (ledger_device_usb.cpp).  One process, one thread, one device.          *)
(*                                                                         *)
(* hidapi is modelled from how this code uses it: a queue of packets in    *)
(* each direction, emptied on the side of the host when the device is      *)
(* opened anew.  A reply may be arbitrarily late.                          *)
(***************************************************************************)
EXTENDS Integers, Sequences

CONSTANTS
  SlotArgs,    \* the slot numbers callers pass
  Keys,        \* the keys callers store
  Pubs,        \* ephemeral public keys, each generated once
  NameArgs,    \* the names callers pass that are not too long
  ShortHead, NoTail,  \* absent data of a command, as in LedgerApp
  Garbage,     \* a key decrypted with the wrong private key
  Compatible,  \* whether versions of app and library may agree, or not
  Timed,       \* whether calls pass a nonzero TimeoutMS
  MaxCommands, \* bounds: no new call while this many commands, or this many
  MaxPackets   \* packets of replies, are on their way

VARIABLES
  hid,       \* HIDDev_: "null", "open", or "dead" when its device was reset
  made,      \* fromDevice has returned a KPL object to this process
  call,      \* the call in progress, or NoCall
  partial,   \* the reply whose first packet has been read, as a sequence
  usedPubs,  \* the key pairs generated
  result,    \* what the last call returned, until the next call
  toDev,     \* commands on their way to the device
  toHost     \* packets on their way from the device

api == <<made, call, usedPubs, result>>

NoCall == [op |-> "none"]
NoOut == [has |-> FALSE]
Out(v) == [has |-> TRUE, value |-> v]
NoResult == [call |-> NoCall, res |-> "none", out |-> NoOut]
Idle == call = NoCall

(* enum Instrs and the header of a command *)
CLA == 224
Apdu(ins, p1, head, tail) ==
  [cla |-> CLA, ins |-> ins, p1 |-> p1, head |-> head, tail |-> tail]
GET_APP_CONFIGURATION == Apdu(0, 0, ShortHead, NoTail)
STORE_KEY(slot, key) == Apdu(1, slot, key, NoTail)
GET_KEY(slot, pub) == Apdu(2, slot, pub, NoTail)
GET_KEY_FROM_NAME(name, pub) == Apdu(3, 0, pub, name)
GET_VALID_KEY_SLOTS == Apdu(4, 0, ShortHead, NoTail)
ERASE_ALL_SLOTS == Apdu(5, 0, ShortHead, NoTail)

(* Sizes of replies, status word included, and of the buffers for them *)
ReplySize(reply) ==
  CASE reply.data.kind = "none" -> 2
    [] reply.data.kind = "slots" -> 3
    [] reply.data.kind = "version" -> 5
    [] reply.data.kind = "sealed" -> 66

BufSize(op) ==
  CASE op = "setKey" -> 2
    [] op \in {"getValidKeySlots", "eraseAllSlots"} -> 3
    [] op = "fromDevice" -> 5
    [] op \in {"getKey", "getKeyFromName"} -> 66

FirstPacketRoom == 57
Packet(seq, reply) == [seq |-> seq, of |-> reply]

\* Mutant: a refusal by the user is not told from success.
RefusalIsSuccess(sw) ==
  IF sw \in {<<144, 0>>, <<104, 32>>} THEN "SUCCESS" ELSE "APP_UNKNOWN_ERROR"

parseAppSW(sw) ==
  CASE sw = <<144, 0>> -> "SUCCESS"
    [] sw \in {<<109, 0>>, <<110, 0>>, <<104, 2>>} -> "PROTOCOL_BAD_PARAM"
    [] sw = <<104, 4>> -> "APP_SECURITY_ERROR"
    [] sw = <<104, 32>> -> "APP_UNAUTHORIZED_ACCESS"
    [] sw = <<104, 33>> -> "APP_EMPTY_SLOT"
    [] sw = <<104, 34>> -> "APP_INVALID_NAME"
    [] OTHER -> "APP_UNKNOWN_ERROR"
-----------------------------------------------------------------------------
(* Calls *)

Return(c, res, out) ==
  /\ result' = [call |-> c, res |-> res, out |-> out]
  /\ call' = NoCall
  /\ partial' = <<>>

\* LedgerDeviceUSB::send.  hid_write returns -1 for a dead device, which the
\* comparison with an unsigned length takes for success.
Send(c, apdu) ==
  IF hid = "null"
    THEN Return(c, "TRANSPORT_GENERIC_ERROR", NoOut) /\ UNCHANGED toDev
    ELSE /\ call' = c
         /\ toDev' = IF hid = "open" THEN Append(toDev, apdu) ELSE toDev
         /\ result' = NoResult
         /\ UNCHANGED partial

\* A call of the KPL object.
Exchange(c, apdu) ==
  /\ Idle /\ made
  /\ Len(toDev) < MaxCommands /\ Len(toHost) < MaxPackets
  /\ Send(c, apdu)
  /\ UNCHANGED <<hid, made, toHost>>

\* Mutant: one key pair serves all calls.
OldPrivKey(pub) == pub \in Pubs /\ UNCHANGED usedPubs

X25519GenPrivKey(pub) ==
  /\ pub \in Pubs \ usedPubs
  /\ usedPubs' = usedPubs \cup {pub}

setKey(slot, key) ==
  /\ Exchange([op |-> "setKey", slot |-> slot, key |-> key], STORE_KEY(slot, key))
  /\ UNCHANGED usedPubs

getKey(slot, pub) ==
  /\ X25519GenPrivKey(pub)
  /\ Exchange([op |-> "getKey", slot |-> slot, pub |-> pub], GET_KEY(slot, pub))

getKeyFromName(name, pub) ==
  /\ X25519GenPrivKey(pub)
  /\ Exchange([op |-> "getKeyFromName", name |-> name, pub |-> pub],
              GET_KEY_FROM_NAME(name, pub))

\* setKey, getKey and getKeyFromName, when they refuse the length of a buffer, and
\* getKeyFromName that of the name.
refuse(op) ==
  /\ Idle /\ made
  /\ Return([op |-> op], "LIB_BAD_LENGTH", NoOut)
  /\ UNCHANGED <<hid, made, usedPubs, toDev, toHost>>

getValidKeySlots ==
  /\ Exchange([op |-> "getValidKeySlots"], GET_VALID_KEY_SLOTS)
  /\ UNCHANGED usedPubs

eraseAllSlots ==
  /\ Exchange([op |-> "eraseAllSlots"], ERASE_ALL_SLOTS)
  /\ UNCHANGED usedPubs

\* LedgerDeviceUSB::connect of a device that answers: the old handle is closed,
\* and what it had not read is gone.
connect == hid' = "open" /\ toHost' = <<>>

\* KPL::fromDevice up to the reading of the version.
fromDevice(present) ==
  /\ Idle
  /\ Len(toDev) < MaxCommands
  /\ \/ /\ present /\ connect
        /\ call' = [op |-> "fromDevice"]
        /\ toDev' = Append(toDev, GET_APP_CONFIGURATION)
        /\ result' = NoResult
        /\ UNCHANGED partial
     \/ /\ hid' = "null"
        /\ toHost' = <<>>
        /\ Return([op |-> "fromDevice"], "TRANSPORT_CONNECTION_FAILED", NoOut)
        /\ UNCHANGED toDev
  /\ UNCHANGED <<made, usedPubs>>
-----------------------------------------------------------------------------
(* Replies *)

\* The key that decryption yields: the sender is not authenticated, a reply
\* meant for another key pair decrypts to garbage.
X25519DecryptKey(data) == IF data.pub = call.pub THEN data.key ELSE Garbage

Done(out) == Return(call, "SUCCESS", out)

\* Replies of calls that return data have one size only.
SizedAs(op, reply) == ReplySize(reply) = BufSize(op)
BadLength(op, reply) == ~SizedAs(op, reply) /\ Return(call, "PROTOCOL_BAD_LENGTH", NoOut)

ReturnNothing == call.op \in {"setKey", "eraseAllSlots"} /\ Done(NoOut)

ReturnKey(reply) ==
  /\ call.op \in {"getKey", "getKeyFromName"}
  /\ \/ BadLength(call.op, reply)
     \/ SizedAs(call.op, reply) /\ Done(Out(X25519DecryptKey(reply.data)))

ReturnSlots(reply) ==
  /\ call.op = "getValidKeySlots"
  /\ \/ BadLength(call.op, reply)
     \/ SizedAs(call.op, reply) /\ Done(Out(reply.data.slots))

fillAppVersion(reply) ==
  /\ call.op = "fromDevice"
  /\ \/ BadLength(call.op, reply)
     \/ /\ SizedAs(call.op, reply)
        /\ \/ TRUE \in Compatible /\ Done(NoOut)
           \/ FALSE \in Compatible /\ Return(call, "PROTOCOL_BAD_VERSION", NoOut)

\* The call's own parsing of a whole reply.
ReturnAnswer(reply) ==
  LET res == parseAppSW(reply.sw)
  IN \/ /\ res # "SUCCESS"
        /\ Return(call, res, NoOut)
     \/ /\ res = "SUCCESS"
        /\ ReturnNothing \/ ReturnKey(reply) \/ ReturnSlots(reply) \/ fillAppVersion(reply)

\* fromDevice hands out a KPL object when it succeeds.
KeepObject == made' = (made \/ (call.op = "fromDevice" /\ result'.res = "SUCCESS"))

TakePacket ==
  /\ ~Idle
  /\ toHost # <<>>
  /\ toHost' = Tail(toHost)
  /\ UNCHANGED <<hid, toDev, usedPubs>>

\* Mutant: the sequence number of the first packet is not looked at.
AnyPacket(p) == TRUE

IsFirst(p) == p.seq = 0

\* LedgerDeviceUSB::read, the first packet.  What the buffer has no room for
\* is refused, and its other packets are left unread.
readFirst ==
  /\ partial = <<>>
  /\ TakePacket
  /\ LET p == Head(toHost)
         size == ReplySize(p.of)
     IN \/ /\ ~IsFirst(p)
           /\ Return(call, "TRANSPORT_USB_BAD_SEQ", NoOut)
        \/ /\ IsFirst(p) /\ size > BufSize(call.op)
           /\ Return(call, "PROTOCOL_BAD_LENGTH", NoOut)
        \/ /\ IsFirst(p) /\ size <= BufSize(call.op) /\ size <= FirstPacketRoom
           /\ ReturnAnswer(p.of)
        \/ /\ IsFirst(p) /\ size <= BufSize(call.op) /\ size > FirstPacketRoom
           /\ partial' = <<p.of>>
           /\ UNCHANGED <<call, result>>
  /\ KeepObject

\* ... and the second, of which the sequence number alone is looked at: the
\* status word is taken from it, the key from the first packet.
readRest ==
  /\ partial # <<>>
  /\ TakePacket
  /\ LET p == Head(toHost)
     IN \/ /\ p.seq # 1
           /\ Return(call, "TRANSPORT_USB_BAD_SEQ", NoOut)
        \/ /\ p.seq = 1
           /\ ReturnAnswer([Head(partial) EXCEPT !.sw = p.of.sw])
  /\ KeepObject

\* hid_read_timeout waits too long, or fails: the device is gone, and nothing it
\* sent is left to read.
readTimeout ==
  /\ ~Idle
  /\ Timed \/ (hid = "dead" /\ toHost = <<>>)
  /\ Return(call, "TRANSPORT_TIMEOUT", NoOut)
  /\ UNCHANGED <<hid, made, usedPubs, toDev, toHost>>
-----------------------------------------------------------------------------
(* The process and the device at the other end *)

\* The process ends, in a call or not; a later one starts from scratch.
Die ==
  /\ hid' = "null" /\ made' = FALSE
  /\ call' = NoCall /\ partial' = <<>> /\ result' = NoResult
  /\ toHost' = <<>>
  /\ UNCHANGED <<usedPubs, toDev>>

\* The device was reset or switched off.  Some hidapi backends still return what
\* it had sent, others fail at once.
DeviceGone ==
  /\ hid' = IF hid = "open" THEN "dead" ELSE hid
  /\ toDev' = <<>>
  /\ toHost' \in {toHost, <<>>}
  /\ UNCHANGED <<api, partial>>

\* The device sends a reply.
Arrive(reply) ==
  /\ toHost' = IF hid # "open" THEN toHost
               ELSE IF ReplySize(reply) > FirstPacketRoom
                      THEN toHost \o <<Packet(0, reply), Packet(1, reply)>>
                      ELSE Append(toHost, Packet(0, reply))
  /\ UNCHANGED <<hid, api, partial, toDev>>

Init ==
  /\ hid = "null" /\ made = FALSE
  /\ call = NoCall /\ partial = <<>> /\ usedPubs = {}
  /\ result = NoResult
  /\ toDev = <<>> /\ toHost = <<>>

Call ==
  \/ \E s \in SlotArgs, k \in Keys : setKey(s, k)
  \/ \E s \in SlotArgs, p \in Pubs : getKey(s, p)
  \/ \E n \in NameArgs, p \in Pubs : getKeyFromName(n, p)
  \/ \E op \in {"setKey", "getKey", "getKeyFromName"} : refuse(op)
  \/ getValidKeySlots
  \/ eraseAllSlots

Read == readFirst \/ readRest \/ readTimeout
=============================================================================
