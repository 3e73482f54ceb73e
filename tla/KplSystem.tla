----------------------------- MODULE KplSystem -----------------------------
(***************************************************************************)
(* The device app and one host process together, over USB: every command   *)
(* the app handles was sent by libkpl, every reply is read by libkpl, in   *)
(* whatever call it is then.  The device can be reset, switched off and    *)
(* left; the host process can die (MayDie) and give up waiting (Timed).    *)
(***************************************************************************)
EXTENDS LedgerApp, Sequences

CONSTANTS
  SlotArgs, Keys, Pubs, NameArgs, Garbage, Compatible, Timed, MaxCommands,
  MaxPackets,   \* see LibKpl
  MayDie        \* whether the host process may end at any moment

VARIABLES hid, made, call, partial, usedPubs, result, toDev, toHost

Lib == INSTANCE LibKpl

\* The calls that reach the device, and the command each of them sends.
Calls ==
  [op : {"setKey"}, slot : SlotArgs, key : Keys]
    \cup [op : {"getKey"}, slot : SlotArgs, pub : Pubs]
    \cup [op : {"getKeyFromName"}, name : NameArgs, pub : Pubs]
    \cup [op : {"getValidKeySlots", "eraseAllSlots", "fromDevice"}]

ApduOf(c) ==
  CASE c.op = "setKey" -> Lib!STORE_KEY(c.slot, c.key)
    [] c.op = "getKey" -> Lib!GET_KEY(c.slot, c.pub)
    [] c.op = "getKeyFromName" -> Lib!GET_KEY_FROM_NAME(c.name, c.pub)
    [] c.op = "getValidKeySlots" -> Lib!GET_VALID_KEY_SLOTS
    [] c.op = "eraseAllSlots" -> Lib!ERASE_ALL_SLOTS
    [] c.op = "fromDevice" -> Lib!GET_APP_CONFIGURATION

ASSUME LibAssumption == {ApduOf(c) : c \in Calls} \subseteq Requests

link == <<hid, made, call, partial, usedPubs, result, toDev, toHost>>
sysVars == <<vars, link>>

SysInit == Init /\ Lib!Init

\* A device that runs the app can be opened.
Present == pc \notin {"off", "main"}

Host ==
  /\ Lib!fromDevice(Present) \/ Lib!Call \/ Lib!Read \/ (MayDie /\ Lib!Die)
  /\ UNCHANGED vars

\* io_exchange returns the next command.
Deliver ==
  /\ toDev # <<>>
  /\ handleApdu(Head(toDev))
  /\ toDev' = Tail(toDev)
  /\ UNCHANGED <<hid, made, call, partial, usedPubs, result, toHost>>

\* The SDK ignores a command that comes while another one has no reply yet.
Ignore ==
  /\ toDev # <<>> /\ serving # NoReq
  /\ toDev' = Tail(toDev)
  /\ UNCHANGED <<vars, hid, made, call, partial, usedPubs, result, toHost>>

Respond ==
  /\ SendReply \/ SendAndReturn
  /\ Lib!Arrive(rapdu)

\* The steps of the app that neither receive nor send.
Inside ==
  /\ \/ Launch \/ Start
     \/ WriteKey \/ MarkValid \/ Wipe
     \/ handleStoreKeyConfirmErase \/ handleEraseAllSlotsApprove
     \/ handleGetKeyAfterApprove \/ handleGetKeyFromNameAfterApprove
     \/ HoldReply
     \/ User
  /\ UNCHANGED link

\* USB is reset or the app ends: what was sent to the app is gone.
Vanish ==
  /\ IoReset \/ Quit \/ PowerLoss
  /\ Lib!DeviceGone

SysNext == Host \/ Deliver \/ Ignore \/ Respond \/ Inside \/ Vanish

SysSpec == SysInit /\ [][SysNext]_sysVars

\* As in LedgerApp, and: a device that is on handles commands, the host reads.
SysFairness ==
  /\ WF_sysVars(Respond \/ (Device /\ Inside))
  /\ WF_sysVars(User /\ Inside)
  /\ WF_sysVars(Deliver)
  /\ WF_sysVars(Lib!Read /\ Host)

SysFairSpec == SysSpec /\ SysFairness
-----------------------------------------------------------------------------
(* Properties *)

\* What the last call reported as a success is so.
Real(c, out) ==
  CASE c.op = "setKey" -> c.slot \in valids /\ keys[c.slot] = c.key
    [] c.op = "getKey" -> c.slot \in valids /\ out.value = keys[c.slot]
    [] c.op = "getKeyFromName" -> out.value = NameKey[c.name]
    [] c.op = "getValidKeySlots" -> out.value = valids
    [] c.op = "eraseAllSlots" -> valids = {}
    [] c.op = "fromDevice" -> TRUE

\* From end to end: the result SUCCESS of a call of KPL (kpl.cpp) is about that
\* call, its slot, key, name and ephemeral key, in spite of resets of the
\* device, reconnections and replies in two packets.  Nothing in a reply says
\* what it answers: this rests on one reply per command, in order, and holds
\* only while no caller gives up waiting and no process dies in a call.
ResultIsReal ==
  (Lib!Idle /\ result.res = "SUCCESS") => Real(result.call, result.out)

\* The slots of the device change only during a call that asks for that change
\* and has not returned: once a call has failed, nothing happens behind the
\* caller's back.
ChangedForCaller ==
  [][(\E s \in Slots : keys'[s] # keys[s] \/ (s \in valids) # (s \in valids')) =>
       \/ call.op = "eraseAllSlots"
       \/ call.op = "setKey" /\ keys' = [keys EXCEPT ![call.slot] = call.key]]_sysVars

\* Every call returns.
CallReturns == ~Lib!Idle ~> Lib!Idle

\* However late replies are, and whatever processes died: getKey never returns
\* the key of another slot or name, because each call has a key pair of its own
\* (X25519GenPrivKey in getKey and getKeyFromName); what it can return besides
\* the right key is garbage, as decryption does not authenticate.
NeverForeignKey ==
  (Lib!Idle /\ result.res = "SUCCESS" /\ result.call.op \in {"getKey", "getKeyFromName"}) =>
    result.out.value = Garbage \/ Real(result.call, result.out)

\* A reply is never put together from packets of two replies, however reads
\* were given up between packets: read() checks nothing but sequence numbers.
NeverMixed ==
  (partial # <<>> /\ toHost # <<>>) => Head(toHost) = Lib!Packet(1, Head(partial))
-----------------------------------------------------------------------------
(* The inductive invariants the safety proofs rest on (KplSystemProofs).   *)

AskForKey(c) == c.op \in {"getKey", "getKeyFromName"}
WantsKey(r) == r.ins \in {INS_GET_KEY, INS_GET_KEY_FROM_NAME}

\* No command is under way or being carried out.
Quiet == toDev = <<>> /\ serving = NoReq

Replies == [sw : SWs, data : Data]
Packets == [seq : {0, 1}, of : Replies]
Long(r) == Lib!ReplySize(r) > Lib!FirstPacketRoom

\* The replies under way, one that is read by half included.
Flying ==
  {toHost[i].of : i \in 1..Len(toHost)} \cup {partial[i] : i \in 1..Len(partial)}

\* What holds of the app besides its own IndInv when io_exchange does not fail:
\* whatever it does, it does for a command that has no reply yet; a key leaves
\* with 0x9000; storage not yet initialised is all zeros.
DutyInv ==
  /\ QuestionInv
  /\ pc \notin {"off", "main", "wait"} => serving # NoReq
  /\ rapdu.data.kind = "sealed" => rapdu.sw = KPL_SW_SUCCESS
  /\ ~initialized => \A s \in Slots : keys[s] = ZeroWord

LinkType ==
  /\ hid \in {"null", "open", "dead"}
  /\ call \in Calls \cup {Lib!NoCall}
  /\ partial \in Seq(Replies) /\ Len(partial) <= 1
  /\ usedPubs \subseteq Pubs
  /\ toDev \in Seq(Requests)
  /\ toHost \in Seq(Packets)

\* The packets of one reply follow each other, the second of one whose first
\* has been read is the next to read.
StreamInv ==
  /\ \A i \in 1..Len(toHost) :
       (toHost[i].seq = 0 /\ Long(toHost[i].of)) =>
         i < Len(toHost) /\ toHost[i + 1] = Lib!Packet(1, toHost[i].of)
  /\ partial # <<>> =>
       /\ ~Lib!Idle
       /\ IF toHost = <<>> THEN hid # "open"
                           ELSE toHost[1] = Lib!Packet(1, partial[1])

\* No command and no reply is under way for a key pair not generated yet.
PubInv ==
  /\ AskForKey(call) => call.pub \in usedPubs
  /\ \A i \in 1..Len(toDev) : WantsKey(toDev[i]) => toDev[i].head \in usedPubs
  /\ serving # NoReq /\ WantsKey(serving) => serving.head \in usedPubs
  /\ \A r \in Flying : r.data.kind = "sealed" => r.data.pub \in usedPubs

\* What is under way for the key pair of the call in progress is its own command,
\* with nothing behind it, or the reply to it: the right key, and nobody left who
\* could change it.
OwnInv ==
  AskForKey(call) =>
    /\ \A i \in 1..Len(toDev) :
         (WantsKey(toDev[i]) /\ toDev[i].head = call.pub) =>
           i = Len(toDev) /\ toDev[i] = ApduOf(call)
    /\ (serving # NoReq /\ WantsKey(serving) /\ serving.head = call.pub) =>
         toDev = <<>> /\ serving = ApduOf(call)
    /\ \A r \in Flying :
         (r.data.kind = "sealed" /\ r.data.pub = call.pub) =>
           Quiet /\ Real(call, Lib!Out(r.data.key))

\* As long as a result stands, so does what made it right.
StandsInv ==
  (Lib!Idle /\ result.res = "SUCCESS" /\ AskForKey(result.call)) =>
    \/ result.out.value = Garbage
    \/ Quiet /\ Real(result.call, result.out)

SysInv == DutyInv /\ LinkType /\ StreamInv /\ PubInv /\ OwnInv /\ StandsInv

\* While no call gives up waiting and no process dies, at most one command or one
\* reply is under way, that of the call in progress; success in it is true.
LoneInv ==
  /\ Lib!Idle => Quiet /\ toHost = <<>>
  /\ hid # "open" => Quiet
  /\ toDev # <<>> => toDev = <<ApduOf(call)>> /\ serving = NoReq /\ Flying = {}
  /\ serving # NoReq => serving = ApduOf(call) /\ Flying = {}
  /\ partial # <<>> => Len(toHost) <= 1
  /\ (partial = <<>> /\ toHost # <<>>) =>
       \E r \in Flying : toHost = IF Long(r) THEN <<Lib!Packet(0, r), Lib!Packet(1, r)>>
                                              ELSE <<Lib!Packet(0, r)>>
  /\ \A r \in Flying :
       /\ r.data.kind = "sealed" => r.sw = KPL_SW_SUCCESS
       /\ r.sw = KPL_SW_SUCCESS => Done(ApduOf(call), r.data)
  /\ ResultIsReal
=============================================================================
