-------------------------- MODULE KplSystemProofs --------------------------
(***************************************************************************)
(* Machine-checked proofs about KplSystem: the device app, libkpl and the  *)
(* link between them, for any number of slots, keys, calls, resets,        *)
(* reconnections, and (Timed, MayDie) calls given up and processes ended.  *)
(***************************************************************************)
EXTENDS KplSystem, LedgerAppProofs

(* Sequences *)

\* What is left of a queue when its first element is taken.
LEMMA TailFacts ==
  ASSUME NEW S, NEW s \in Seq(S), s # <<>>
  PROVE  /\ Head(s) = s[1] /\ Head(s) \in S
         /\ Len(s) \in Nat /\ Len(s) >= 1
         /\ Tail(s) \in Seq(S)
         /\ Len(Tail(s)) = Len(s) - 1
         /\ \A i \in 1..Len(Tail(s)) : Tail(s)[i] = s[i + 1]
  OBVIOUS

LEMMA OneFacts ==
  ASSUME NEW S, NEW s \in Seq(S), s # <<>>, Len(s) <= 1
  PROVE  Len(s) = 1 /\ 1 \in 1..Len(s)
<1>1. \A n \in Nat : n >= 1 /\ n <= 1 => n = 1 /\ 1 \in 1..n
  OBVIOUS
<1>2. Len(s) \in Nat /\ Len(s) >= 1
  BY TailFacts
<1> QED
  BY <1>1, <1>2, Zenon

\* What becomes of a queue when one element joins it.
LEMMA AppendFacts ==
  ASSUME NEW S, NEW s \in Seq(S), NEW e \in S
  PROVE  /\ Len(s) \in Nat
         /\ Append(s, e) \in Seq(S) /\ Append(s, e) # <<>>
         /\ Len(Append(s, e)) = Len(s) + 1
         /\ \A i \in 1..Len(s) : Append(s, e)[i] = s[i]
         /\ Append(s, e)[Len(s) + 1] = e
  OBVIOUS

\* ... and when two do.
LEMMA TwoMoreFacts ==
  ASSUME NEW S, NEW s \in Seq(S), NEW e \in S, NEW f \in S
  PROVE  /\ Len(s) \in Nat
         /\ s \o <<e, f>> \in Seq(S)
         /\ Len(s \o <<e, f>>) = Len(s) + 2
         /\ \A i \in 1..Len(s) : (s \o <<e, f>>)[i] = s[i]
         /\ (s \o <<e, f>>)[Len(s) + 1] = e /\ (s \o <<e, f>>)[Len(s) + 2] = f
  OBVIOUS
-----------------------------------------------------------------------------
(* The app *)

\* Whatever happens in the system, the app takes a step of its own or none, and
\* io_exchange does not fail.
LEMMA AppSteps ==
  ASSUME [SysNext]_sysVars
  PROVE  Undisturbed \/ UNCHANGED vars
<1>1. CASE UNCHANGED sysVars \/ Host \/ Ignore
  BY <1>1 DEF sysVars, Host, Ignore
<1>2. CASE Deliver
  BY <1>2 DEF Deliver, Undisturbed, handleApdu, Receive
<1>3. CASE Respond \/ Inside
  BY <1>3 DEF Respond, Inside, Undisturbed, Device
<1>4. CASE Vanish
  BY <1>4 DEF Vanish, Undisturbed
<1> QED
  BY <1>1, <1>2, <1>3, <1>4 DEF SysNext

\* The app in the system does what LedgerApp allows, so every safety theorem of
\* LedgerAppProofs is one of the system.
THEOREM AppInSystem == SysSpec => Spec
<1>1. SysInit => Init
  BY DEF SysInit
<1>2. [SysNext]_sysVars => [Next]_vars
  BY AppSteps DEF Undisturbed, Next, Environment
<1> QED
  BY <1>1, <1>2, PTL DEF SysSpec, Spec

\* A handler stages no key and leaves storage alone.
LEMMA HandlerDuty ==
  ASSUME TypeOK, NEW r \in Requests, handleApdu(r)
  PROVE  /\ serving' = r /\ UNCHANGED nv
         /\ rapdu' = rapdu \/ rapdu'.data.kind # "sealed"
<1> USE DEF handleApdu, Receive
<1>1. \A sw, data : Answer(sw, data) => rapdu'.data = data
  BY DEF Answer, Stage, Reply
<1>2. \A q, c : ui_approval(q, c) => rapdu'.data = NoData
  BY DEF ui_approval, Stage, Reply
<1>3. UNCHANGED rapdu \/ \E sw, data : rapdu'.data = data /\ data.kind # "sealed"
  BY <1>1, <1>2, ReplyKinds
     DEF rejectApdu, handleGetAppConfiguration, handleStoreKey, BadStoreKey, AskToErase,
         StoreAtOnce, handleGetKey, BadGetKey, GetEmptySlot, AskToOpenSlot,
         handleGetKeyFromName, BadNameLength, BadName, AskToOpenName,
         handleGetValidSlots, handleEraseAllSlots
<1> QED
  BY <1>3

\* What a reply staged without a key looks like.
LEMMA StagedPlain ==
  ASSUME NEW sw, Stage(sw, NoData)
  PROVE  rapdu'.data.kind # "sealed" /\ pc' = "reply"
  BY ReplyKinds DEF Stage, Reply

LEMMA StagedKey ==
  ASSUME NEW key, NEW pub, SealOrFail(key, pub)
  PROVE  /\ rapdu'.data.kind = "sealed" => rapdu'.sw = KPL_SW_SUCCESS
         /\ pc' = "reply"
  BY StagedPlain DEF SealOrFail, Stage, Reply

LEMMA DutyStep ==
  ASSUME IndInv, DutyInv, Undisturbed \/ UNCHANGED vars
  PROVE  DutyInv'
<1> USE DEF DutyInv, nv, args, ui
<1>1. QuestionInv'
  BY QuestionStep DEF IndInv
<1>2. pc = "wait" /\ screen = "approval" => serving # NoReq
  BY DEF QuestionInv
<1>3. CASE UNCHANGED vars
  BY <1>1, <1>3 DEF vars
<1>4. ASSUME NEW r \in Requests, handleApdu(r) PROVE DutyInv'
  BY <1>1, <1>4, HandlerDuty, CommandType DEF IndInv
<1>5. CASE Start
  BY <1>1, <1>5 DEF Start, WipeStorage
<1>6. CASE WriteKey \/ MarkValid \/ Wipe
  BY <1>1, <1>6, StagedPlain DEF WriteKey, MarkValid, Wipe, WipeStorage, IndInv, StorageInv
<1>7. CASE handleStoreKeyConfirmErase \/ handleEraseAllSlotsApprove
  BY <1>1, <1>7 DEF handleStoreKeyConfirmErase, handleEraseAllSlotsApprove, Approved
<1>8. CASE handleGetKeyAfterApprove \/ handleGetKeyFromNameAfterApprove
  BY <1>1, <1>8, StagedPlain, StagedKey
     DEF handleGetKeyAfterApprove, handleGetKeyFromNameAfterApprove, Approved
<1>9. CASE HoldReply \/ SendReply \/ SendAndReturn \/ Launch \/ IoReset
  BY <1>1, <1>9, ReplyKinds
     DEF HoldReply, SendReply, SendAndReturn, Launch, IoReset, NoReply, Reply
<1>10. CASE touch_okay \/ touch_deny
  BY <1>1, <1>2, <1>10, StagedPlain DEF touch_okay, touch_deny
<1>11. CASE Quit \/ PowerLoss \/ TornKey \/ TornWipe
  BY <1>1, <1>11, ReplyKinds
     DEF Quit, PowerLoss, TornKey, TornWipe, ForgetRam, NoReply, Reply, IndInv, StorageInv
<1> QED
  BY <1>3, <1>4, <1>5, <1>6, <1>7, <1>8, <1>9, <1>10, <1>11
     DEF Undisturbed, Device, User

\* The reply that is sent answers the command that waits: what it reports as a
\* success, and every key it carries, is so.
LEMMA RespondFacts ==
  ASSUME IndInv, DutyInv, SendReply \/ SendAndReturn
  PROVE  /\ serving \in Requests /\ serving # NoReq /\ serving' = NoReq
         /\ UNCHANGED <<keys, valids>>
         /\ rapdu \in Replies
         /\ rapdu.sw = KPL_SW_SUCCESS => Done(serving, rapdu.data)
         /\ rapdu.data.kind = "sealed" => rapdu.sw = KPL_SW_SUCCESS
<1>1. Sending /\ serving' = NoReq /\ UNCHANGED <<keys, valids>>
  BY DEF SendReply, SendAndReturn, Sending, DutyInv, nv
<1> QED
  BY <1>1 DEF IndInv, TypeOK, Replies, SuccessMeansDone, DutyInv, Sending

\* While no command is being carried out, storage does not change: only the first
\* start writes it, with what it holds already.
LEMMA QuietSteps ==
  ASSUME IndInv, DutyInv, Undisturbed \/ UNCHANGED vars,
         serving = NoReq, serving' = NoReq
  PROVE  keys' = keys /\ valids' = valids
<1> USE DEF nv
<1>1. pc \in {"off", "main", "wait"}
  BY DEF DutyInv
<1>2. CASE UNCHANGED vars
  BY <1>2 DEF vars
<1>3. ASSUME NEW r \in Requests, handleApdu(r) PROVE FALSE
  BY <1>3, CommandType DEF handleApdu, Receive
<1>4. CASE Start
  <2>1. ~initialized => keys = [s \in Slots |-> ZeroWord] /\ valids = {}
    BY DEF IndInv, TypeOK, StorageInv, DutyInv
  <2> QED
    BY <1>4, <2>1 DEF Start, WipeStorage
<1>5. CASE WriteKey \/ MarkValid \/ Wipe \/ TornKey \/ TornWipe
  BY <1>1, <1>5 DEF WriteKey, MarkValid, Wipe, TornKey, TornWipe
<1>6. CASE \/ handleStoreKeyConfirmErase \/ handleEraseAllSlotsApprove
           \/ handleGetKeyAfterApprove \/ handleGetKeyFromNameAfterApprove
  BY <1>6 DEF handleStoreKeyConfirmErase, handleEraseAllSlotsApprove,
              handleGetKeyAfterApprove, handleGetKeyFromNameAfterApprove, Approved
<1>7. CASE HoldReply \/ SendReply \/ SendAndReturn \/ Launch \/ IoReset
  BY <1>7 DEF HoldReply, SendReply, SendAndReturn, Launch, IoReset
<1>8. CASE touch_okay \/ touch_deny \/ Quit \/ PowerLoss
  BY <1>8 DEF touch_okay, touch_deny, Quit, PowerLoss
<1> QED
  BY <1>2, <1>3, <1>4, <1>5, <1>6, <1>7, <1>8 DEF Undisturbed, Device, User

\* A reset, or the end of the app, forgets the command and keeps the keys.
LEMMA VanishFacts ==
  ASSUME Vanish
  PROVE  /\ serving' = NoReq /\ toDev' = <<>> /\ toHost' \in {toHost, <<>>}
         /\ hid' = IF hid = "open" THEN "dead" ELSE hid
         /\ UNCHANGED <<keys, valids, made, call, usedPubs, result, partial>>
  BY DEF Vanish, IoReset, Quit, PowerLoss, ForgetRam, Lib!DeviceGone, Lib!api, nv

\* A command is handed to the app when none waits.
LEMMA DeliverFacts ==
  ASSUME Deliver
  PROVE  /\ toDev # <<>> /\ toDev' = Tail(toDev)
         /\ serving = NoReq /\ serving' = Head(toDev)
         /\ UNCHANGED <<keys, valids, hid, made, call, partial, usedPubs, result, toHost>>
  BY DEF Deliver, handleApdu, Receive, nv

LEMMA InsideFacts ==
  ASSUME Inside
  PROVE  UNCHANGED link /\ serving' = serving
  BY DEF Inside, Launch, Start, WriteKey, MarkValid, Wipe, handleStoreKeyConfirmErase,
         handleEraseAllSlotsApprove, handleGetKeyAfterApprove,
         handleGetKeyFromNameAfterApprove, Approved, HoldReply, User, touch_okay, touch_deny
-----------------------------------------------------------------------------
(* Commands and calls *)

\* Each call sends a command of its own kind, with its own key pair if it asks
\* for a key.
LEMMA ApduFacts ==
  ASSUME NEW c \in Calls
  PROVE  /\ ApduOf(c) \in Requests /\ c # Lib!NoCall
         /\ AskForKey(c) <=> WantsKey(ApduOf(c))
         /\ AskForKey(c) => c.pub \in Pubs /\ ApduOf(c).head = c.pub
<1>1. ApduOf(c) \in Requests
  BY LibAssumption
<1>2. CASE c \in [op : {"setKey"}, slot : SlotArgs, key : Keys]
  BY <1>1, <1>2 DEF ApduOf, AskForKey, WantsKey, Lib!NoCall, Lib!STORE_KEY, Lib!Apdu,
                    INS_GET_KEY, INS_GET_KEY_FROM_NAME
<1>3. CASE c \in [op : {"getKey"}, slot : SlotArgs, pub : Pubs]
  BY <1>1, <1>3 DEF ApduOf, AskForKey, WantsKey, Lib!NoCall, Lib!GET_KEY, Lib!Apdu,
                    INS_GET_KEY, INS_GET_KEY_FROM_NAME
<1>4. CASE c \in [op : {"getKeyFromName"}, name : NameArgs, pub : Pubs]
  BY <1>1, <1>4 DEF ApduOf, AskForKey, WantsKey, Lib!NoCall, Lib!GET_KEY_FROM_NAME,
                    Lib!Apdu, INS_GET_KEY, INS_GET_KEY_FROM_NAME
<1>5. CASE c \in [op : {"getValidKeySlots", "eraseAllSlots", "fromDevice"}]
  BY <1>1, <1>5 DEF ApduOf, AskForKey, WantsKey, Lib!NoCall, Lib!GET_VALID_KEY_SLOTS,
                    Lib!ERASE_ALL_SLOTS, Lib!GET_APP_CONFIGURATION, Lib!Apdu,
                    INS_GET_KEY, INS_GET_KEY_FROM_NAME
<1> QED
  BY <1>2, <1>3, <1>4, <1>5 DEF Calls

\* A key sent in reply to a call's command is the key that call asked for.
LEMMA SealedIsReal ==
  ASSUME NEW c \in Calls, NEW data, data.kind = "sealed", Done(ApduOf(c), data)
  PROVE  AskForKey(c) /\ data.pub = c.pub /\ Real(c, Lib!Out(data.key))
<1> USE DEF ApduOf, AskForKey, Lib!Apdu, INS_GET_KEY, INS_GET_KEY_FROM_NAME,
            INS_STORE_KEY, INS_GET_APP_CONFIGURATION, INS_GET_VALID_SLOTS,
            INS_ERASE_ALL_SLOTS, Done
<1>1. CASE c \in [op : {"setKey"}, slot : SlotArgs, key : Keys]
  BY <1>1, ReplyKinds DEF Lib!STORE_KEY
<1>2. CASE c \in [op : {"getKey"}, slot : SlotArgs, pub : Pubs]
  <2>1. c.slot \in valids /\ data = SealedData(keys[c.slot], c.pub)
    BY <1>2 DEF Lib!GET_KEY
  <2>2. data.pub = c.pub /\ data.key = keys[c.slot]
    BY <2>1 DEF SealedData
  <2> HIDE DEF Done
  <2> QED
    BY <1>2, <2>1, <2>2 DEF Real, Lib!Out
<1>3. CASE c \in [op : {"getKeyFromName"}, name : NameArgs, pub : Pubs]
  <2>1. data = SealedData(NameKey[c.name], c.pub)
    BY <1>3 DEF Lib!GET_KEY_FROM_NAME
  <2>2. data.pub = c.pub /\ data.key = NameKey[c.name]
    BY <2>1 DEF SealedData
  <2> HIDE DEF Done
  <2> QED
    BY <1>3, <2>2 DEF Real, Lib!Out
<1>4. CASE c \in [op : {"getValidKeySlots", "eraseAllSlots", "fromDevice"}]
  BY <1>4, ReplyKinds
     DEF Lib!GET_VALID_KEY_SLOTS, Lib!ERASE_ALL_SLOTS, Lib!GET_APP_CONFIGURATION
<1> QED
  BY <1>1, <1>2, <1>3, <1>4 DEF Calls

\* What beginning a call does: a command of the call joins the queue, for a key
\* pair made for it, or the call returns at once without success.
LEMMA CallFacts ==
  ASSUME LinkType, Lib!fromDevice(Present) \/ Lib!Call
  PROVE  /\ Lib!Idle
         /\ usedPubs \subseteq usedPubs' /\ usedPubs' \subseteq Pubs
         /\ toHost' \in {toHost, <<>>} /\ hid' \in {hid, "open", "null"}
         /\ \/ \E c \in Calls :
                 /\ call' = c /\ result' = Lib!NoResult /\ partial' = partial
                 /\ \/ toDev' = toDev
                    \/ toDev' = Append(toDev, ApduOf(c)) /\ hid' = "open"
                 /\ AskForKey(c) => c.pub \in usedPubs' /\ c.pub \notin usedPubs
            \/ /\ call' = Lib!NoCall /\ partial' = <<>> /\ result'.res # "SUCCESS"
               /\ toDev' = toDev
<1>1. \A c, res, out : Lib!Return(c, res, out) =>
        call' = Lib!NoCall /\ partial' = <<>> /\ result'.res = res
  BY DEF Lib!Return
<1>2. \A c \in Calls : Lib!Exchange(c, ApduOf(c)) =>
        /\ Lib!Idle /\ UNCHANGED <<hid, toHost>>
        /\ \/ /\ call' = c /\ result' = Lib!NoResult /\ partial' = partial
              /\ \/ toDev' = toDev
                 \/ toDev' = Append(toDev, ApduOf(c)) /\ hid' = "open"
           \/ /\ call' = Lib!NoCall /\ partial' = <<>> /\ result'.res # "SUCCESS"
              /\ toDev' = toDev
  BY <1>1 DEF Lib!Exchange, Lib!Send
<1>3. CASE Lib!fromDevice(Present)
  <2>1. [op |-> "fromDevice"] \in Calls
    BY DEF Calls
  <2>2. ApduOf([op |-> "fromDevice"]) = Lib!GET_APP_CONFIGURATION
    BY DEF ApduOf
  <2> QED
    BY <1>1, <1>3, <2>1, <2>2 DEF Lib!fromDevice, Lib!connect, LinkType, AskForKey
<1>4. ASSUME NEW s \in SlotArgs, NEW k \in Keys, Lib!setKey(s, k)
      PROVE  \E c \in Calls : /\ Lib!Exchange(c, ApduOf(c)) /\ ~AskForKey(c)
                              /\ usedPubs' = usedPubs
  <2> DEFINE c == [op |-> "setKey", slot |-> s, key |-> k]
  <2>1. c \in Calls /\ ApduOf(c) = Lib!STORE_KEY(s, k) /\ ~AskForKey(c)
    BY DEF Calls, ApduOf, AskForKey
  <2> HIDE DEF c
  <2> QED
    BY <1>4, <2>1 DEF Lib!setKey, c
<1>5. ASSUME NEW s \in SlotArgs, NEW p \in Pubs, Lib!getKey(s, p)
      PROVE  \E c \in Calls : /\ Lib!Exchange(c, ApduOf(c)) /\ c.pub = p
                              /\ p \notin usedPubs /\ usedPubs' = usedPubs \cup {p}
  <2> DEFINE c == [op |-> "getKey", slot |-> s, pub |-> p]
  <2>1. c \in Calls /\ ApduOf(c) = Lib!GET_KEY(s, p) /\ c.pub = p
    BY DEF Calls, ApduOf
  <2> HIDE DEF c
  <2> QED
    BY <1>5, <2>1 DEF Lib!getKey, Lib!X25519GenPrivKey, c
<1>6. ASSUME NEW n \in NameArgs, NEW p \in Pubs, Lib!getKeyFromName(n, p)
      PROVE  \E c \in Calls : /\ Lib!Exchange(c, ApduOf(c)) /\ c.pub = p
                              /\ p \notin usedPubs /\ usedPubs' = usedPubs \cup {p}
  <2> DEFINE c == [op |-> "getKeyFromName", name |-> n, pub |-> p]
  <2>1. c \in Calls /\ ApduOf(c) = Lib!GET_KEY_FROM_NAME(n, p) /\ c.pub = p
    BY DEF Calls, ApduOf
  <2> HIDE DEF c
  <2> QED
    BY <1>6, <2>1 DEF Lib!getKeyFromName, Lib!X25519GenPrivKey, c
<1>7. CASE \E op \in {"setKey", "getKey", "getKeyFromName"} : Lib!refuse(op)
  BY <1>1, <1>7 DEF Lib!refuse, LinkType
<1>8. CASE Lib!getValidKeySlots \/ Lib!eraseAllSlots
  <2>1. \A op \in {"getValidKeySlots", "eraseAllSlots"} :
          [op |-> op] \in Calls /\ ~AskForKey([op |-> op])
    BY DEF Calls, AskForKey
  <2>2. /\ ApduOf([op |-> "getValidKeySlots"]) = Lib!GET_VALID_KEY_SLOTS
        /\ ApduOf([op |-> "eraseAllSlots"]) = Lib!ERASE_ALL_SLOTS
    BY DEF ApduOf
  <2>3. \E c \in Calls : /\ Lib!Exchange(c, ApduOf(c)) /\ ~AskForKey(c)
                         /\ usedPubs' = usedPubs
    BY <1>8, <2>1, <2>2 DEF Lib!getValidKeySlots, Lib!eraseAllSlots
  <2> QED
    BY <1>2, <2>3 DEF LinkType
<1> QED
  BY <1>2, <1>3, <1>4, <1>5, <1>6, <1>7, <1>8 DEF Lib!Call, LinkType
-----------------------------------------------------------------------------
(* Reading a reply *)

\* The length of a reply tells what it carries.
LEMMA SizeFacts ==
  ASSUME NEW r \in Replies
  PROVE  /\ Long(r) <=> r.data.kind = "sealed"
         /\ Lib!ReplySize(r) = 66 <=> r.data.kind = "sealed"
         /\ Lib!ReplySize(r) = 3 <=> r.data.kind = "slots"
<1>1. r.data.kind \in {"none", "version", "slots", "sealed"}
  BY DEF Replies, Data, NoData, VersionData, SlotsData, SealedData
<1> QED
  BY <1>1 DEF Long, Lib!ReplySize, Lib!FirstPacketRoom

\* What a call makes of a whole reply: it succeeds on 0x9000 alone, and a key it
\* returns is the one sealed for its own key pair, or garbage.
LEMMA AnswerFacts ==
  ASSUME NEW r \in Replies, Lib!ReturnAnswer(r)
  PROVE  /\ call' = Lib!NoCall /\ partial' = <<>> /\ result'.call = call
         /\ result'.res = "SUCCESS" =>
              /\ r.sw = KPL_SW_SUCCESS
              /\ AskForKey(call) =>
                   /\ r.data.kind = "sealed"
                   /\ result'.out.value =
                        IF r.data.pub = call.pub THEN r.data.key ELSE Garbage
              /\ call.op = "getValidKeySlots" =>
                   r.data.kind = "slots" /\ result'.out.value = r.data.slots
<1>1. \A res, out : Lib!Return(call, res, out) =>
        /\ call' = Lib!NoCall /\ partial' = <<>> /\ result'.call = call
        /\ result'.res = res /\ result'.out = out
  BY DEF Lib!Return
<1>2. r.sw \in SWs /\ (Lib!parseAppSW(r.sw) = "SUCCESS" => r.sw = KPL_SW_SUCCESS)
  BY DEF Replies, SWs, Byte, Lib!parseAppSW, KPL_SW_SUCCESS
<1>3. CASE Lib!parseAppSW(r.sw) # "SUCCESS"
  BY <1>1, <1>3 DEF Lib!ReturnAnswer
<1>4. CASE Lib!parseAppSW(r.sw) = "SUCCESS" /\ Lib!ReturnNothing
  BY <1>1, <1>2, <1>4 DEF Lib!ReturnNothing, Lib!Done, AskForKey
<1>5. CASE Lib!parseAppSW(r.sw) = "SUCCESS" /\ Lib!ReturnKey(r)
  BY <1>1, <1>2, <1>5, SizeFacts
     DEF Lib!ReturnKey, Lib!BadLength, Lib!SizedAs, Lib!BufSize, Lib!Done, Lib!Out,
         Lib!X25519DecryptKey, AskForKey
<1>6. CASE Lib!parseAppSW(r.sw) = "SUCCESS" /\ Lib!ReturnSlots(r)
  BY <1>1, <1>2, <1>6, SizeFacts
     DEF Lib!ReturnSlots, Lib!BadLength, Lib!SizedAs, Lib!BufSize, Lib!Done, Lib!Out,
         AskForKey
<1>7. CASE Lib!parseAppSW(r.sw) = "SUCCESS" /\ Lib!fillAppVersion(r)
  BY <1>1, <1>2, <1>7
     DEF Lib!fillAppVersion, Lib!BadLength, Lib!Done, AskForKey
<1> QED
  BY <1>3, <1>4, <1>5, <1>6, <1>7 DEF Lib!ReturnAnswer

\* Replies under way are replies of the app.
LEMMA FlyingType ==
  ASSUME LinkType
  PROVE  /\ Flying \subseteq Replies
         /\ \A i \in 1..Len(toHost) : toHost[i].of \in Flying /\ toHost[i].seq \in {0, 1}
         /\ partial # <<>> => Len(partial) = 1 /\ partial[1] \in Flying
<1>1. \A i \in 1..Len(toHost) : toHost[i] \in Packets
  BY DEF LinkType
<1>2. \A i \in 1..Len(partial) : partial[i] \in Replies
  BY DEF LinkType
<1>3. partial # <<>> => Len(partial) = 1 /\ 1 \in 1..Len(partial)
  BY OneFacts DEF LinkType
<1>4. \A i \in 1..Len(toHost) : toHost[i].of \in Replies /\ toHost[i].seq \in {0, 1}
  BY <1>1 DEF Packets
<1>5. /\ \A i \in 1..Len(toHost) : toHost[i].of \in Flying
      /\ \A i \in 1..Len(partial) : partial[i] \in Flying
  BY Zenon DEF Flying
<1>6. Flying \subseteq Replies
  BY <1>2, <1>4, Zenon DEF Flying
<1> QED
  BY <1>3, <1>4, <1>5, <1>6

\* A read that finds the first packet of a reply in two.
HalfRead ==
  /\ partial = <<>> /\ toHost # <<>> /\ toHost' = Tail(toHost)
  /\ toHost[1].seq = 0 /\ Long(toHost[1].of)
  /\ partial' = <<toHost[1].of>>
  /\ UNCHANGED <<call, result>>

\* A call that returns has given up, or has read one packet; it leaves a second
\* one behind only if it has no room for the reply.
CallReturned ==
  /\ call' = Lib!NoCall /\ partial' = <<>>
  /\ \/ toHost' = toHost /\ (Timed \/ (hid = "dead" /\ toHost = <<>>))
     \/ /\ toHost # <<>> /\ toHost' = Tail(toHost)
        /\ (partial = <<>> /\ toHost[1].seq = 0 /\ Long(toHost[1].of)) =>
             Lib!ReplySize(toHost[1].of) > Lib!BufSize(call.op)
  /\ result'.res = "SUCCESS" => \E r \in Flying : Lib!ReturnAnswer(r)

LEMMA ReadFacts ==
  ASSUME LinkType, StreamInv, Lib!Read
  PROVE  /\ ~Lib!Idle /\ UNCHANGED <<hid, usedPubs, toDev>>
         /\ HalfRead \/ CallReturned
<1>1. \A c, res, out : Lib!Return(c, res, out) =>
        call' = Lib!NoCall /\ partial' = <<>> /\ result'.res = res
  BY DEF Lib!Return
<1>2. toHost # <<>> => Head(toHost) = toHost[1] /\ toHost[1].of \in Flying
  BY FlyingType, TailFacts DEF LinkType
<1>3. CASE Lib!readFirst
  <2>1. /\ ~Lib!Idle /\ UNCHANGED <<hid, usedPubs, toDev>>
        /\ partial = <<>> /\ toHost # <<>> /\ toHost' = Tail(toHost)
    BY <1>3 DEF Lib!readFirst, Lib!TakePacket
  <2> DEFINE p == toHost[1]
             size == Lib!ReplySize(p.of)
  <2>2. \/ p.seq # 0 /\ Lib!Return(call, "TRANSPORT_USB_BAD_SEQ", Lib!NoOut)
        \/ /\ size > Lib!BufSize(call.op)
           /\ Lib!Return(call, "PROTOCOL_BAD_LENGTH", Lib!NoOut)
        \/ size <= Lib!FirstPacketRoom /\ Lib!ReturnAnswer(p.of)
        \/ /\ p.seq = 0 /\ size > Lib!FirstPacketRoom
           /\ partial' = <<p.of>> /\ UNCHANGED <<call, result>>
    BY <1>2, <1>3, <2>1 DEF Lib!readFirst, Lib!IsFirst
  <2>3. p.of \in Replies
    BY <1>2, <2>1, FlyingType
  <2>4. size <= Lib!FirstPacketRoom => ~Long(p.of)
    BY <2>3 DEF Long, Lib!ReplySize, Lib!FirstPacketRoom, Replies, Data, NoData, VersionData,
                SlotsData, SealedData
  <2>5. CASE p.seq # 0 /\ Lib!Return(call, "TRANSPORT_USB_BAD_SEQ", Lib!NoOut)
    BY <1>1, <2>1, <2>5 DEF CallReturned
  <2>6. CASE /\ size > Lib!BufSize(call.op)
             /\ Lib!Return(call, "PROTOCOL_BAD_LENGTH", Lib!NoOut)
    BY <1>1, <2>1, <2>6 DEF CallReturned
  <2>7. CASE size <= Lib!FirstPacketRoom /\ Lib!ReturnAnswer(p.of)
    BY <1>2, <2>1, <2>3, <2>4, <2>7, AnswerFacts DEF CallReturned
  <2>8. CASE /\ p.seq = 0 /\ size > Lib!FirstPacketRoom
             /\ partial' = <<p.of>> /\ UNCHANGED <<call, result>>
    BY <2>1, <2>8 DEF HalfRead, Long
  <2> QED
    BY <2>1, <2>2, <2>5, <2>6, <2>7, <2>8
<1>4. CASE Lib!readRest
  <2>1. /\ ~Lib!Idle /\ UNCHANGED <<hid, usedPubs, toDev>>
        /\ partial # <<>> /\ toHost # <<>> /\ toHost' = Tail(toHost)
    BY <1>4 DEF Lib!readRest, Lib!TakePacket
  <2>2. toHost[1] = Lib!Packet(1, partial[1]) /\ partial[1] \in Flying
    BY <2>1, FlyingType DEF StreamInv
  <2>3. Head(partial) = partial[1] /\ partial[1] \in Replies
    BY <2>1, <2>2, FlyingType, TailFacts DEF LinkType
  <2>4. [partial[1] EXCEPT !.sw = partial[1].sw] = partial[1]
    BY <2>3 DEF Replies
  <2>5. \/ Lib!Return(call, "TRANSPORT_USB_BAD_SEQ", Lib!NoOut)
        \/ Lib!ReturnAnswer(partial[1])
    BY <1>2, <1>4, <2>1, <2>2, <2>3, <2>4 DEF Lib!readRest, Lib!Packet
  <2> QED
    BY <1>1, <2>1, <2>2, <2>3, <2>5, AnswerFacts DEF CallReturned
<1>5. CASE Lib!readTimeout
  BY <1>1, <1>5 DEF Lib!readTimeout, CallReturned
<1> QED
  BY <1>3, <1>4, <1>5 DEF Lib!Read
-----------------------------------------------------------------------------
(* The link *)

\* What is read or dropped brings no reply under way that was not.
LEMMA FlyingShrinks ==
  ASSUME LinkType,
         \/ toHost' \in {toHost, <<>>}
         \/ toHost # <<>> /\ toHost' = Tail(toHost),
         \/ partial' \in {partial, <<>>}
         \/ toHost # <<>> /\ partial' = <<toHost[1].of>>
  PROVE  /\ Flying' \subseteq Flying
         /\ toHost' \in Seq(Packets) /\ partial' \in Seq(Replies) /\ Len(partial') <= 1
<1>1. /\ toHost' \in Seq(Packets)
      /\ \A i \in 1..Len(toHost') : \E j \in 1..Len(toHost) : toHost'[i] = toHost[j]
  <2>1. CASE toHost' = toHost
    BY <2>1 DEF LinkType
  <2>3. CASE toHost' = <<>>
    BY <2>3
  <2>2. CASE toHost # <<>> /\ toHost' = Tail(toHost)
    <3>1. /\ Len(toHost) \in Nat /\ Len(toHost') = Len(toHost) - 1
          /\ \A i \in 1..Len(toHost') : toHost'[i] = toHost[i + 1]
          /\ toHost' \in Seq(Packets)
      BY <2>2, TailFacts DEF LinkType
    <3>2. \A i \in 1..Len(toHost') : i + 1 \in 1..Len(toHost)
      BY <3>1
    <3> QED
      BY <3>1, <3>2
  <2> QED
    BY <2>1, <2>2, <2>3
<1>2. toHost # <<>> => 1 \in 1..Len(toHost) /\ toHost[1].of \in Replies /\ toHost[1].of \in Flying
  <2>1. toHost # <<>> => 1 \in 1..Len(toHost)
    BY DEF LinkType
  <2> QED
    BY <2>1, FlyingType
<1>3. /\ partial' \in Seq(Replies) /\ Len(partial') <= 1
      /\ \A i \in 1..Len(partial') : partial'[i] \in Flying
  <2>1. CASE partial' = partial
    BY <2>1 DEF LinkType, Flying
  <2>2. CASE toHost # <<>> /\ partial' = <<toHost[1].of>>
    BY <1>2, <2>2
  <2>3. CASE partial' = <<>>
    BY <2>3
  <2> QED
    BY <2>1, <2>2, <2>3
<1>4. \A i \in 1..Len(toHost') : toHost'[i].of \in Flying
  BY <1>1 DEF Flying
<1>5. Flying' \subseteq Flying
  <2> SUFFICES ASSUME NEW r \in Flying' PROVE r \in Flying
    OBVIOUS
  <2>1. \/ \E i \in 1..Len(toHost') : r = toHost'[i].of
        \/ \E i \in 1..Len(partial') : r = partial'[i]
    BY DEF Flying
  <2> QED
    BY <1>3, <1>4, <2>1
<1> QED
  BY <1>1, <1>3, <1>5

\* A reply that arrives is put behind what is there, both packets of it.
LEMMA ArriveFacts ==
  ASSUME LinkType, rapdu \in Replies, Lib!Arrive(rapdu)
  PROVE  /\ UNCHANGED <<hid, made, call, usedPubs, result, partial, toDev>>
         /\ toHost' \in Seq(Packets)
         /\ Flying' \subseteq Flying \cup {rapdu}
         /\ \/ toHost' = toHost /\ hid # "open"
            \/ /\ Long(rapdu)
               /\ toHost' = toHost \o <<Lib!Packet(0, rapdu), Lib!Packet(1, rapdu)>>
            \/ ~Long(rapdu) /\ toHost' = Append(toHost, Lib!Packet(0, rapdu))
<1>1. /\ UNCHANGED <<hid, made, call, usedPubs, result, partial, toDev>>
      /\ \/ toHost' = toHost /\ hid # "open"
         \/ /\ Long(rapdu)
            /\ toHost' = toHost \o <<Lib!Packet(0, rapdu), Lib!Packet(1, rapdu)>>
         \/ ~Long(rapdu) /\ toHost' = Append(toHost, Lib!Packet(0, rapdu))
  BY DEF Lib!Arrive, Lib!api, Long
<1>2. \A q \in {0, 1} : Lib!Packet(q, rapdu) \in Packets /\ Lib!Packet(q, rapdu).of = rapdu
  BY DEF Lib!Packet, Packets
<1>3. CASE toHost' = toHost
  BY <1>1, <1>3 DEF LinkType, Flying
<1>4. CASE toHost' = toHost \o <<Lib!Packet(0, rapdu), Lib!Packet(1, rapdu)>>
  <2>1. /\ toHost' \in Seq(Packets)
        /\ Len(toHost) \in Nat /\ Len(toHost') = Len(toHost) + 2
        /\ \A i \in 1..Len(toHost) : toHost'[i] = toHost[i]
        /\ toHost'[Len(toHost) + 1].of = rapdu /\ toHost'[Len(toHost) + 2].of = rapdu
    BY <1>2, <1>4, TwoMoreFacts DEF LinkType
  <2>2. \A i \in 1..Len(toHost') : toHost'[i].of \in Flying \cup {rapdu}
    <3>1. \A i \in 1..Len(toHost') : i \in 1..Len(toHost) \/ toHost'[i].of = rapdu
      BY <2>1
    <3> QED
      BY <2>1, <3>1 DEF Flying
  <2> QED
    BY <1>1, <2>1, <2>2 DEF Flying
<1>5. CASE toHost' = Append(toHost, Lib!Packet(0, rapdu))
  <2>1. /\ toHost' \in Seq(Packets)
        /\ Len(toHost) \in Nat /\ Len(toHost') = Len(toHost) + 1
        /\ \A i \in 1..Len(toHost) : toHost'[i] = toHost[i]
        /\ toHost'[Len(toHost) + 1].of = rapdu
    BY <1>2, <1>5, AppendFacts DEF LinkType
  <2>2. \A i \in 1..Len(toHost') : toHost'[i].of \in Flying \cup {rapdu}
    <3>1. \A i \in 1..Len(toHost') : i \in 1..Len(toHost) \/ toHost'[i].of = rapdu
      BY <2>1
    <3> QED
      BY <2>1, <3>1 DEF Flying
  <2> QED
    BY <1>1, <2>1, <2>2 DEF Flying
<1> QED
  BY <1>1, <1>3, <1>4, <1>5

\* The kinds of steps, those of the host without any of the app.
LEMMA StepCases ==
  ASSUME [SysNext]_sysVars
  PROVE  \/ UNCHANGED sysVars
         \/ (Lib!fromDevice(Present) \/ Lib!Call) /\ UNCHANGED vars
         \/ Lib!Read /\ UNCHANGED vars
         \/ MayDie /\ Lib!Die /\ UNCHANGED vars
         \/ Deliver \/ Ignore \/ Respond \/ Inside \/ Vanish
  BY DEF SysNext, Host

LEMMA DieFacts ==
  ASSUME Lib!Die
  PROVE  /\ call' = Lib!NoCall /\ partial' = <<>> /\ result' = Lib!NoResult
         /\ toHost' = <<>> /\ hid' = "null" /\ UNCHANGED <<usedPubs, toDev>>
  BY DEF Lib!Die

LEMMA LinkStep ==
  ASSUME IndInv, DutyInv, LinkType, StreamInv, [SysNext]_sysVars
  PROVE  LinkType'
<1>1. CASE UNCHANGED sysVars \/ Inside
  BY <1>1, InsideFacts DEF LinkType, sysVars, link
<1>2. CASE Lib!fromDevice(Present) \/ Lib!Call
  <2>1. toHost' \in Seq(Packets) /\ partial' \in Seq(Replies) /\ Len(partial') <= 1
    BY <1>2, CallFacts, FlyingShrinks
  <2>2. toDev' \in Seq(Requests) /\ call' \in Calls \cup {Lib!NoCall}
    <3>1. \A c \in Calls : Append(toDev, ApduOf(c)) \in Seq(Requests)
      BY ApduFacts, AppendFacts DEF LinkType
    <3>2. CASE call' = Lib!NoCall /\ toDev' = toDev
      BY <3>2 DEF LinkType
    <3>3. ASSUME NEW c \in Calls, call' = c, toDev' \in {toDev, Append(toDev, ApduOf(c))}
          PROVE  toDev' \in Seq(Requests) /\ call' \in Calls \cup {Lib!NoCall}
      BY <3>1, <3>3, Zenon DEF LinkType
    <3> QED
      BY <1>2, <3>2, <3>3, CallFacts
  <2> QED
    BY <1>2, <2>1, <2>2, CallFacts DEF LinkType
<1>3. CASE Lib!Read
  <2>1. /\ toHost' \in Seq(Packets) /\ partial' \in Seq(Replies) /\ Len(partial') <= 1
        /\ call' \in Calls \cup {Lib!NoCall}
    BY <1>3, ReadFacts, FlyingShrinks DEF HalfRead, CallReturned, LinkType
  <2> QED
    BY <1>3, <2>1, ReadFacts DEF LinkType
<1>4. CASE Lib!Die
  BY <1>4, DieFacts DEF LinkType
<1>5. CASE Deliver \/ Ignore
  BY <1>5, DeliverFacts, TailFacts DEF LinkType, Ignore
<1>6. CASE Respond
  BY <1>6, RespondFacts, ArriveFacts DEF LinkType, Respond
<1>7. CASE Vanish
  <2>1. toHost' \in Seq(Packets) /\ partial' \in Seq(Replies) /\ Len(partial') <= 1
    BY <1>7, VanishFacts, FlyingShrinks
  <2> QED
    BY <1>7, <2>1, VanishFacts DEF LinkType
<1> QED
  BY <1>1, <1>2, <1>3, <1>4, <1>5, <1>6, <1>7, StepCases

\* Packets of a reply stay together: they arrive together and are read in order.
LEMMA StreamStep ==
  ASSUME IndInv, DutyInv, LinkType, StreamInv, [SysNext]_sysVars
  PROVE  StreamInv'
<1> DEFINE Whole(s) ==
      \A i \in 1..Len(s) : (s[i].seq = 0 /\ Long(s[i].of)) =>
        i < Len(s) /\ s[i + 1] = Lib!Packet(1, s[i].of)
<1>1. Whole(toHost) /\ Whole(<<>>)
  BY DEF StreamInv
<1>2. toHost # <<>> => Whole(Tail(toHost))
  <2> SUFFICES ASSUME toHost # <<>> PROVE Whole(Tail(toHost))
    OBVIOUS
  <2> DEFINE s == Tail(toHost)
  <2>1. /\ Len(toHost) \in Nat /\ Len(toHost) >= 1 /\ Len(s) = Len(toHost) - 1
        /\ \A i \in 1..Len(s) : s[i] = toHost[i + 1]
    BY TailFacts DEF LinkType
  <2> HIDE DEF s
  <2>2. \A i \in 1..Len(s) : i + 1 \in 1..Len(toHost)
    BY <2>1
  <2>3. ASSUME NEW i \in 1..Len(s), s[i].seq = 0, Long(s[i].of)
        PROVE  i < Len(s) /\ s[i + 1] = Lib!Packet(1, s[i].of)
    <3>1. i + 1 < Len(toHost) /\ toHost[(i + 1) + 1] = Lib!Packet(1, toHost[i + 1].of)
      BY <1>1, <2>1, <2>2, <2>3
    <3>2. i < Len(s) /\ i + 1 \in 1..Len(s)
      BY <2>1, <3>1
    <3> QED
      BY <2>1, <3>1, <3>2
  <2> QED
    BY <2>3 DEF s
<1>3. ASSUME Whole(toHost'), partial' = <<>> PROVE StreamInv'
  BY <1>3 DEF StreamInv
<1>4. CASE UNCHANGED sysVars \/ Inside \/ Deliver \/ Ignore
  BY <1>4, InsideFacts, DeliverFacts DEF StreamInv, sysVars, link, Ignore, Lib!Idle
<1>5. CASE Lib!fromDevice(Present) \/ Lib!Call
  <2>1. partial' = <<>> /\ toHost' \in {toHost, <<>>}
    BY <1>5, CallFacts DEF StreamInv
  <2> QED
    BY <1>1, <1>3, <2>1
<1>6. CASE Lib!Read /\ HalfRead
  <2>1. Whole(toHost') /\ toHost # <<>> /\ toHost' = Tail(toHost) /\ ~Lib!Idle'
    BY <1>2, <1>6, ReadFacts DEF HalfRead, Lib!Idle
  <2>2. /\ Len(toHost) \in Nat /\ 1 \in 1..Len(toHost) /\ Len(toHost') = Len(toHost) - 1
        /\ \A i \in 1..Len(toHost') : toHost'[i] = toHost[i + 1]
    BY <2>1, TailFacts DEF LinkType
  <2>3. 1 < Len(toHost) /\ toHost[1 + 1] = Lib!Packet(1, toHost[1].of)
    BY <1>1, <1>6, <2>2 DEF HalfRead
  <2>4. toHost' # <<>> /\ toHost'[1] = Lib!Packet(1, toHost[1].of)
    BY <2>2, <2>3
  <2>5. partial'[1] = toHost[1].of
    BY <1>6 DEF HalfRead
  <2> QED
    BY <2>1, <2>4, <2>5 DEF StreamInv
<1>7. CASE Lib!Read /\ CallReturned
  BY <1>1, <1>2, <1>3, <1>7 DEF CallReturned
<1>8. CASE Lib!Die
  BY <1>1, <1>3, <1>8, DieFacts
<1>9. CASE Respond
  <2>1. /\ rapdu \in Replies /\ Lib!Arrive(rapdu)
        /\ UNCHANGED <<hid, call, partial>>
    BY <1>9, RespondFacts, ArriveFacts DEF Respond
  <2>2. CASE toHost' = toHost
    BY <2>1, <2>2 DEF StreamInv, Lib!Idle
  <2>5. toHost # <<>> => 1 \in 1..Len(toHost)
    BY DEF LinkType
  <2>6. toHost = <<>> /\ partial # <<>> => toHost' = toHost
    BY <2>1 DEF StreamInv, Lib!Arrive
  <2>3. CASE /\ Long(rapdu)
             /\ toHost' = toHost \o <<Lib!Packet(0, rapdu), Lib!Packet(1, rapdu)>>
    <3>1. /\ Len(toHost) \in Nat /\ Len(toHost') = Len(toHost) + 2
          /\ \A i \in 1..Len(toHost) : toHost'[i] = toHost[i]
          /\ toHost'[Len(toHost) + 1] = Lib!Packet(0, rapdu)
          /\ toHost'[Len(toHost) + 2] = Lib!Packet(1, rapdu)
      <4>1. \A q \in {0, 1} : Lib!Packet(q, rapdu) \in Packets
        BY <2>1 DEF Lib!Packet, Packets
      <4> QED
        BY <2>3, <4>1, TwoMoreFacts DEF LinkType
    <3>2. Lib!Packet(0, rapdu).of = rapdu /\ Lib!Packet(1, rapdu).seq = 1
      BY DEF Lib!Packet
    <3>3. Whole(toHost')
      <4> SUFFICES ASSUME NEW i \in 1..Len(toHost'), toHost'[i].seq = 0, Long(toHost'[i].of)
                   PROVE  i < Len(toHost') /\ toHost'[i + 1] = Lib!Packet(1, toHost'[i].of)
        OBVIOUS
      <4>1. CASE i \in 1..Len(toHost)
        <5>1. i < Len(toHost) /\ toHost[i + 1] = Lib!Packet(1, toHost[i].of)
          BY <1>1, <3>1, <4>1
        <5>2. i + 1 \in 1..Len(toHost)
          BY <3>1, <5>1
        <5> QED
          BY <3>1, <4>1, <5>1, <5>2
      <4>2. CASE i = Len(toHost) + 1
        BY <3>1, <3>2, <4>2
      <4>3. CASE i = Len(toHost) + 2
        BY <3>1, <3>2, <4>3
      <4> QED
        BY <3>1, <4>1, <4>2, <4>3
    <3>4. toHost # <<>> => toHost' # <<>> /\ toHost'[1] = toHost[1]
      BY <2>5, <3>1
    <3> QED
      BY <2>1, <2>2, <2>6, <3>3, <3>4 DEF StreamInv, Lib!Idle
  <2>4. CASE ~Long(rapdu) /\ toHost' = Append(toHost, Lib!Packet(0, rapdu))
    <3>1. /\ Len(toHost) \in Nat /\ Len(toHost') = Len(toHost) + 1
          /\ \A i \in 1..Len(toHost) : toHost'[i] = toHost[i]
          /\ toHost'[Len(toHost) + 1] = Lib!Packet(0, rapdu)
      <4>1. Lib!Packet(0, rapdu) \in Packets
        BY <2>1 DEF Lib!Packet, Packets
      <4> QED
        BY <2>4, <4>1, AppendFacts DEF LinkType
    <3>2. Lib!Packet(0, rapdu).of = rapdu
      BY DEF Lib!Packet
    <3>3. Whole(toHost')
      <4> SUFFICES ASSUME NEW i \in 1..Len(toHost'), toHost'[i].seq = 0, Long(toHost'[i].of)
                   PROVE  i < Len(toHost') /\ toHost'[i + 1] = Lib!Packet(1, toHost'[i].of)
        OBVIOUS
      <4>1. CASE i \in 1..Len(toHost)
        <5>1. i < Len(toHost) /\ toHost[i + 1] = Lib!Packet(1, toHost[i].of)
          BY <1>1, <3>1, <4>1
        <5>2. i + 1 \in 1..Len(toHost)
          BY <3>1, <5>1
        <5> QED
          BY <3>1, <4>1, <5>1, <5>2
      <4>2. CASE i = Len(toHost) + 1
        BY <2>4, <3>1, <3>2, <4>2
      <4> QED
        BY <3>1, <4>1, <4>2
    <3>4. toHost # <<>> => toHost' # <<>> /\ toHost'[1] = toHost[1]
      BY <2>5, <3>1
    <3> QED
      BY <2>1, <2>2, <2>6, <3>3, <3>4 DEF StreamInv, Lib!Idle
  <2> QED
    BY <2>1, <2>2, <2>3, <2>4, ArriveFacts
<1>10. CASE Vanish
  <2>1. /\ toHost' \in {toHost, <<>>} /\ hid' # "open" /\ UNCHANGED <<partial, call>>
    BY <1>10, VanishFacts
  <2> QED
    BY <1>1, <2>1 DEF StreamInv, Lib!Idle
<1> QED
  BY <1>4, <1>5, <1>6, <1>7, <1>8, <1>9, <1>10, StepCases, ReadFacts
-----------------------------------------------------------------------------
(* Keys *)

\* A key is sent only to a command that wants one, sealed for its key pair.
LEMMA SealedAsks ==
  ASSUME NEW r, NEW data, data.kind = "sealed", Done(r, data)
  PROVE  WantsKey(r) /\ data.pub = r.head
<1>1. \/ r.ins = INS_GET_KEY /\ data = SealedData(keys[r.p1], r.head)
      \/ r.ins = INS_GET_KEY_FROM_NAME /\ data = SealedData(NameKey[r.tail], r.head)
  BY ReplyKinds DEF Done
<1> QED
  BY <1>1 DEF WantsKey, SealedData

\* With no command under way nothing changes storage, until one is sent.
LEMMA QuietStays ==
  ASSUME IndInv, DutyInv, LinkType, StreamInv, Quiet, [SysNext]_sysVars, toDev' = <<>>
  PROVE  Quiet' /\ keys' = keys /\ valids' = valids
<1>1. Quiet'
  <2>1. CASE Inside
    BY <2>1, InsideFacts DEF Quiet, link
  <2>2. CASE UNCHANGED vars
    BY <2>2 DEF Quiet, vars
  <2>4. CASE Deliver \/ Ignore
    BY <2>4 DEF Quiet, Deliver, Ignore
  <2>5. CASE Respond
    BY <2>5, RespondFacts DEF Quiet, Respond
  <2>6. CASE Vanish
    BY <2>6, VanishFacts DEF Quiet
  <2> QED
    BY <2>1, <2>2, <2>4, <2>5, <2>6, StepCases DEF sysVars
<1> QED
  BY <1>1, AppSteps, QuietSteps DEF Quiet

LEMMA PubStep ==
  ASSUME IndInv, DutyInv, LinkType, StreamInv, PubInv, [SysNext]_sysVars
  PROVE  PubInv'
<1>1. CASE UNCHANGED sysVars \/ Inside
  BY <1>1, InsideFacts DEF PubInv, Flying, sysVars, vars, link
<1>2. CASE (Lib!fromDevice(Present) \/ Lib!Call) /\ UNCHANGED vars
  <2>1. Flying' \subseteq Flying /\ usedPubs \subseteq usedPubs' /\ serving' = serving
    BY <1>2, CallFacts, FlyingShrinks DEF vars
  <2>2. \/ call' = Lib!NoCall /\ toDev' = toDev
        \/ \E c \in Calls : /\ call' = c /\ toDev' \in {toDev, Append(toDev, ApduOf(c))}
                            /\ AskForKey(c) => c.pub \in usedPubs'
    BY <1>2, CallFacts
  <2>3. AskForKey(call') => call'.pub \in usedPubs'
    BY <2>2 DEF AskForKey, Lib!NoCall
  <2>4. \A i \in 1..Len(toDev') : WantsKey(toDev'[i]) => toDev'[i].head \in usedPubs'
    <3>1. CASE toDev' = toDev
      BY <2>1, <3>1 DEF PubInv
    <3>2. ASSUME NEW c \in Calls, toDev' = Append(toDev, ApduOf(c)),
                 AskForKey(c) => c.pub \in usedPubs'
          PROVE  \A i \in 1..Len(toDev') : WantsKey(toDev'[i]) => toDev'[i].head \in usedPubs'
      <4>1. /\ Len(toDev) \in Nat /\ Len(toDev') = Len(toDev) + 1
            /\ \A i \in 1..Len(toDev) : toDev'[i] = toDev[i]
            /\ toDev'[Len(toDev) + 1] = ApduOf(c)
        BY <3>2, ApduFacts, AppendFacts DEF LinkType
      <4>2. WantsKey(ApduOf(c)) => ApduOf(c).head \in usedPubs'
        BY <3>2, ApduFacts
      <4>3. \A i \in 1..Len(toDev') : i \in 1..Len(toDev) \/ i = Len(toDev) + 1
        BY <4>1
      <4> QED
        BY <2>1, <4>1, <4>2, <4>3 DEF PubInv
    <3> QED
      BY <2>2, <3>1, <3>2
  <2> QED
    BY <2>1, <2>3, <2>4 DEF PubInv, AskForKey, WantsKey
<1>3. CASE Lib!Read /\ UNCHANGED vars
  <2>1. Flying' \subseteq Flying
    BY <1>3, ReadFacts, FlyingShrinks DEF HalfRead, CallReturned
  <2>2. call' = call \/ call' = Lib!NoCall
    BY <1>3, ReadFacts DEF HalfRead, CallReturned
  <2> QED
    BY <1>3, <2>1, <2>2, ReadFacts DEF PubInv, vars, AskForKey, Lib!NoCall, WantsKey
<1>4. CASE Lib!Die /\ UNCHANGED vars
  <2>1. Flying' \subseteq Flying
    BY <1>4, DieFacts, FlyingShrinks
  <2> QED
    BY <1>4, <2>1, DieFacts DEF PubInv, vars, AskForKey, Lib!NoCall, WantsKey
<1>5. CASE Deliver \/ Ignore
  <2>1. /\ toDev # <<>> /\ toDev' = Tail(toDev)
        /\ serving' \in {serving, Head(toDev)}
        /\ UNCHANGED <<call, partial, usedPubs, toHost>>
    BY <1>5, DeliverFacts DEF Ignore, vars
  <2>2. /\ Len(toDev) \in Nat /\ Len(toDev) >= 1 /\ Head(toDev) = toDev[1]
        /\ Len(toDev') = Len(toDev) - 1
        /\ \A i \in 1..Len(toDev') : toDev'[i] = toDev[i + 1]
    BY <2>1, TailFacts DEF LinkType
  <2>3. 1 \in 1..Len(toDev) /\ \A i \in 1..Len(toDev') : i + 1 \in 1..Len(toDev)
    BY <2>2
  <2> QED
    BY <2>1, <2>2, <2>3 DEF PubInv, AskForKey, WantsKey, Flying
<1>6. CASE Respond
  <2>1. /\ Flying' \subseteq Flying \cup {rapdu} /\ UNCHANGED <<call, usedPubs, toDev>>
        /\ serving # NoReq /\ serving' = NoReq
        /\ rapdu.data.kind = "sealed" => Done(serving, rapdu.data)
    BY <1>6, RespondFacts, ArriveFacts DEF Respond
  <2>2. rapdu.data.kind = "sealed" => rapdu.data.pub \in usedPubs
    BY <2>1, SealedAsks DEF PubInv
  <2> QED
    BY <2>1, <2>2 DEF PubInv, AskForKey, WantsKey
<1>7. CASE Vanish
  <2>1. Flying' \subseteq Flying
    BY <1>7, VanishFacts, FlyingShrinks
  <2>2. /\ UNCHANGED <<call, usedPubs>> /\ toDev' = <<>> /\ serving' = NoReq
        /\ 1..Len(<<>>) = {}
    BY <1>7, VanishFacts
  <2> QED
    BY <2>1, <2>2 DEF PubInv, AskForKey, WantsKey
<1> QED
  BY <1>1, <1>2, <1>3, <1>4, <1>5, <1>6, <1>7, StepCases

\* The reply to the command of the call in progress is the right one, and comes
\* when nothing else is under way; other replies are for other key pairs.
LEMMA OwnStep ==
  ASSUME IndInv, DutyInv, LinkType, StreamInv, PubInv, OwnInv, [SysNext]_sysVars
  PROVE  OwnInv'
<1> DEFINE Right(r) == r.data.kind = "sealed" /\ r.data.pub = call.pub
                         => Quiet /\ Real(call, Lib!Out(r.data.key))
<1>1. ASSUME call' = call, Flying' \subseteq Flying, toDev' = toDev
      PROVE  AskForKey(call) => \A r \in Flying' : Right(r)'
  <2> SUFFICES ASSUME AskForKey(call), NEW r \in Flying, r.data.kind = "sealed",
                      r.data.pub = call.pub
               PROVE  (Quiet /\ Real(call, Lib!Out(r.data.key)))'
    BY <1>1
  <2>1. Quiet /\ Real(call, Lib!Out(r.data.key))
    BY DEF OwnInv
  <2>2. Quiet' /\ keys' = keys /\ valids' = valids
    BY <1>1, <2>1, QuietStays DEF Quiet
  <2> QED
    BY <1>1, <2>1, <2>2 DEF Real, AskForKey
<1>2. CASE UNCHANGED sysVars \/ Inside
  <2>1. serving' = serving /\ call' = call /\ toDev' = toDev /\ Flying' = Flying
    BY <1>2, InsideFacts DEF sysVars, vars, link, Flying
  <2> QED
    BY <1>1, <2>1 DEF OwnInv, AskForKey, WantsKey
<1>3. CASE (Lib!fromDevice(Present) \/ Lib!Call) /\ UNCHANGED vars
  <2>1. CASE call' = Lib!NoCall
    BY <2>1 DEF OwnInv, AskForKey, Lib!NoCall
  <2>2. ASSUME NEW c \in Calls, call' = c, AskForKey(c), c.pub \notin usedPubs,
               toDev' \in {toDev, Append(toDev, ApduOf(c))}
        PROVE  OwnInv'
    <3>1. \A i \in 1..Len(toDev') :
            (WantsKey(toDev'[i]) /\ toDev'[i].head = c.pub) =>
              i = Len(toDev') /\ toDev'[i] = ApduOf(c)
      <4>1. CASE toDev' = toDev
        BY <2>2, <4>1 DEF PubInv
      <4>2. CASE toDev' = Append(toDev, ApduOf(c))
        <5>1. /\ Len(toDev) \in Nat /\ Len(toDev') = Len(toDev) + 1
              /\ \A i \in 1..Len(toDev) : toDev'[i] = toDev[i]
              /\ toDev'[Len(toDev) + 1] = ApduOf(c)
          BY <4>2, ApduFacts, AppendFacts DEF LinkType
        <5>2. \A i \in 1..Len(toDev') : i \in 1..Len(toDev) \/ i = Len(toDev')
          BY <5>1
        <5> QED
          BY <2>2, <5>1, <5>2 DEF PubInv
      <4> QED
        BY <2>2, <4>1, <4>2
    <3>2. ~(serving # NoReq /\ WantsKey(serving) /\ serving.head = c.pub)
      BY <2>2 DEF PubInv
    <3>3. \A r \in Flying' : ~(r.data.kind = "sealed" /\ r.data.pub = c.pub)
      <4>1. Flying' \subseteq Flying
        BY <1>3, CallFacts, FlyingShrinks
      <4> QED
        BY <2>2, <4>1 DEF PubInv
    <3>4. serving' = serving
      BY <1>3 DEF vars
    <3> QED
      BY <2>2, <3>1, <3>2, <3>3, <3>4 DEF OwnInv, WantsKey
  <2>3. ASSUME NEW c \in Calls, call' = c, ~AskForKey(c) PROVE OwnInv'
    BY <2>3 DEF OwnInv, AskForKey
  <2> QED
    BY <1>3, <2>1, <2>2, <2>3, CallFacts
<1>4. CASE Lib!Read /\ UNCHANGED vars
  <2>1. CASE call' = Lib!NoCall
    BY <2>1 DEF OwnInv, AskForKey, Lib!NoCall
  <2>2. CASE HalfRead
    <3>1. Flying' \subseteq Flying /\ call' = call /\ toDev' = toDev /\ serving' = serving
      BY <1>4, <2>2, ReadFacts, FlyingShrinks DEF HalfRead, vars
    <3> QED
      BY <1>1, <3>1 DEF OwnInv, AskForKey, WantsKey
  <2> QED
    BY <1>4, <2>1, <2>2, ReadFacts DEF CallReturned
<1>5. CASE Lib!Die
  BY <1>5, DieFacts DEF OwnInv, AskForKey, Lib!NoCall
<1>6. CASE Deliver \/ Ignore
  <2>1. /\ toDev # <<>> /\ toDev' = Tail(toDev)
        /\ \/ serving = NoReq /\ serving' = Head(toDev)
           \/ serving # NoReq /\ serving' = serving
        /\ UNCHANGED <<call, partial, usedPubs, toHost>>
    <3>1. CASE Deliver
      BY <3>1, DeliverFacts
    <3>2. CASE Ignore
      BY <3>2 DEF Ignore, vars
    <3> QED
      BY <1>6, <3>1, <3>2
  <2>2. /\ Len(toDev) \in Nat /\ Len(toDev) >= 1 /\ Head(toDev) = toDev[1]
        /\ Len(toDev') = Len(toDev) - 1 /\ toDev' \in Seq(Requests)
        /\ \A i \in 1..Len(toDev') : toDev'[i] = toDev[i + 1]
    BY <2>1, TailFacts DEF LinkType
  <2>3. 1 \in 1..Len(toDev) /\ \A i \in 1..Len(toDev') : i + 1 \in 1..Len(toDev)
    BY <2>2
  <2>4. Len(toDev) = 1 => toDev' = <<>>
    BY <2>2
  <2> SUFFICES ASSUME AskForKey(call') PROVE OwnInv'
    BY DEF OwnInv
  <2>5. AskForKey(call) /\ call' = call
    BY <2>1
  <2>6. ASSUME NEW i \in 1..Len(toDev'), WantsKey(toDev'[i]), toDev'[i].head = call.pub
        PROVE  i = Len(toDev') /\ toDev'[i] = ApduOf(call)
    <3>1. i + 1 = Len(toDev) /\ toDev[i + 1] = ApduOf(call)
      BY <2>2, <2>3, <2>5, <2>6 DEF OwnInv
    <3> QED
      BY <2>2, <3>1
  <2>7. ASSUME serving' # NoReq, WantsKey(serving'), serving'.head = call.pub
        PROVE  toDev' = <<>> /\ serving' = ApduOf(call)
    <3>1. CASE serving # NoReq /\ serving' = serving
      BY <2>1, <2>5, <2>7, <3>1 DEF OwnInv
    <3>2. CASE serving' = toDev[1]
      BY <2>3, <2>4, <2>5, <2>7, <3>2 DEF OwnInv
    <3> QED
      BY <2>1, <2>2, <3>1, <3>2
  <2>8. \A r \in Flying : ~(r.data.kind = "sealed" /\ r.data.pub = call.pub)
    BY <2>1, <2>5 DEF OwnInv, Quiet
  <2>9. Flying' = Flying
    BY <2>1 DEF Flying
  <2> QED
    BY <2>5, <2>6, <2>7, <2>8, <2>9 DEF OwnInv, WantsKey
<1>7. CASE Respond
  <2>1. /\ Flying' \subseteq Flying \cup {rapdu} /\ UNCHANGED <<call, toDev>>
        /\ serving \in Requests /\ serving # NoReq /\ serving' = NoReq
        /\ keys' = keys /\ valids' = valids
        /\ rapdu.data.kind = "sealed" => Done(serving, rapdu.data)
    BY <1>7, RespondFacts, ArriveFacts DEF Respond
  <2> SUFFICES ASSUME AskForKey(call') PROVE OwnInv'
    BY DEF OwnInv
  <2>2. AskForKey(call) /\ call' = call /\ call \in Calls
    BY <2>1 DEF LinkType, AskForKey, Lib!NoCall
  <2>3. \A r \in Flying : ~(r.data.kind = "sealed" /\ r.data.pub = call.pub)
    BY <2>1, <2>2 DEF OwnInv, Quiet
  <2>4. ASSUME rapdu.data.kind = "sealed", rapdu.data.pub = call.pub
        PROVE  Quiet' /\ Real(call, Lib!Out(rapdu.data.key))
    <3>1. WantsKey(serving) /\ serving.head = call.pub /\ Done(serving, rapdu.data)
      BY <2>1, <2>4, SealedAsks
    <3>2. toDev = <<>> /\ serving = ApduOf(call)
      BY <2>1, <2>2, <3>1 DEF OwnInv
    <3> QED
      BY <2>1, <2>2, <2>4, <3>1, <3>2, SealedIsReal DEF Quiet
  <2>5. ASSUME NEW r \in Flying', r.data.kind = "sealed", r.data.pub = call.pub
        PROVE  (Quiet /\ Real(call, Lib!Out(r.data.key)))'
    <3>1. r = rapdu
      BY <2>1, <2>3, <2>5
    <3>2. Quiet' /\ Real(call, Lib!Out(r.data.key))
      BY <2>4, <2>5, <3>1
    <3> QED
      BY <2>1, <2>2, <3>2 DEF Real, AskForKey
  <2> QED
    BY <2>1, <2>2, <2>5 DEF OwnInv, AskForKey, WantsKey
<1>8. CASE Vanish
  <2>1. /\ Flying' \subseteq Flying /\ call' = call /\ toDev' = <<>> /\ serving' = NoReq
        /\ keys' = keys /\ valids' = valids /\ 1..Len(<<>>) = {}
    BY <1>8, VanishFacts, FlyingShrinks
  <2>2. ASSUME AskForKey(call), NEW r \in Flying, r.data.kind = "sealed",
               r.data.pub = call.pub
        PROVE  (Quiet /\ Real(call, Lib!Out(r.data.key)))'
    BY <2>1, <2>2 DEF OwnInv, Quiet, Real, AskForKey
  <2> QED
    BY <2>1, <2>2 DEF OwnInv, AskForKey, WantsKey
<1> QED
  BY <1>2, <1>3, <1>4, <1>5, <1>6, <1>7, <1>8, StepCases

LEMMA StandsStep ==
  ASSUME IndInv, DutyInv, LinkType, StreamInv, OwnInv, StandsInv, [SysNext]_sysVars
  PROVE  StandsInv'
<1>1. ASSUME result' = result, Lib!Idle, toDev = <<>> => toDev' = <<>> PROVE StandsInv'
  <2> SUFFICES ASSUME result.res = "SUCCESS", AskForKey(result.call),
                      result.out.value # Garbage
               PROVE  (Quiet /\ Real(result.call, result.out))'
    BY <1>1 DEF StandsInv, AskForKey
  <2>1. Quiet /\ Real(result.call, result.out)
    BY <1>1 DEF StandsInv
  <2>2. Quiet' /\ keys' = keys /\ valids' = valids
    BY <1>1, <2>1, QuietStays DEF Quiet
  <2> QED
    BY <1>1, <2>1, <2>2 DEF Real, AskForKey
<1>2. ASSUME call' # Lib!NoCall \/ result'.res # "SUCCESS" PROVE StandsInv'
  BY <1>2 DEF StandsInv, Lib!Idle
<1>3. ASSUME call' = call, result' = result, toDev = <<>> => toDev' = <<>>
      PROVE  StandsInv'
  BY <1>1, <1>2, <1>3 DEF Lib!Idle
<1>4. CASE UNCHANGED sysVars \/ Inside
  BY <1>3, <1>4, InsideFacts DEF sysVars, link
<1>5. CASE Lib!fromDevice(Present) \/ Lib!Call
  BY <1>2, <1>5, CallFacts, ApduFacts
<1>6. CASE Lib!Read /\ CallReturned
  <2>1. /\ call' = Lib!NoCall /\ toDev' = toDev
        /\ result'.res = "SUCCESS" => \E r \in Flying : Lib!ReturnAnswer(r)
    BY <1>6, ReadFacts DEF CallReturned
  <2>2. ASSUME NEW r \in Flying, Lib!ReturnAnswer(r), result'.res = "SUCCESS",
               AskForKey(result'.call), result'.out.value # Garbage
        PROVE  (Quiet /\ Real(result.call, result.out))'
    <3>1. /\ result'.call = call /\ AskForKey(call)
          /\ r.data.kind = "sealed" /\ r.data.pub = call.pub
          /\ result'.out.value = r.data.key
      BY <2>2, AnswerFacts, FlyingType
    <3>2. Quiet /\ Real(call, Lib!Out(r.data.key))
      BY <3>1 DEF OwnInv
    <3>3. Quiet' /\ keys' = keys /\ valids' = valids
      BY <2>1, <3>2, QuietStays DEF Quiet
    <3> QED
      BY <3>1, <3>2, <3>3 DEF Real, AskForKey, Lib!Out
  <2> QED
    BY <2>1, <2>2 DEF StandsInv, AskForKey
<1>7. CASE Lib!Read /\ HalfRead
  BY <1>2, <1>7, ReadFacts DEF HalfRead, Lib!Idle
<1>8. CASE Lib!Die
  BY <1>2, <1>8, DieFacts DEF Lib!NoResult
<1>9. CASE Deliver \/ Ignore
  BY <1>3, <1>9, DeliverFacts DEF Ignore
<1>10. CASE Respond
  BY <1>3, <1>10, RespondFacts, ArriveFacts DEF Respond
<1>11. CASE Vanish
  BY <1>3, <1>11, VanishFacts
<1> QED
  BY <1>4, <1>5, <1>6, <1>7, <1>8, <1>9, <1>10, <1>11, StepCases, ReadFacts
-----------------------------------------------------------------------------
(* Theorems *)

\* Nothing is under way in the beginning, and the strengthened invariant is kept by
\* every step of the app, of libkpl and of the link.
THEOREM SysInductive == SysSpec => [](IndInv /\ SysInv)
<1>1. SysSpec => []IndInv
  BY AppInSystem, Inductive, PTL
<1>2. SysInit => SysInv
  <2> SUFFICES ASSUME SysInit PROVE SysInv
    OBVIOUS
  <2> USE DEF SysInit, Init, Lib!Init
  <2>1. DutyInv
    BY ReplyKinds DEF DutyInv, QuestionInv, NoReply, Reply
  <2>2. Flying = {} /\ 1..Len(<<>>) = {} /\ Len(<<>>) = 0
    BY DEF Flying
  <2>3. LinkType
    BY <2>2 DEF LinkType
  <2>4. StreamInv
    BY <2>2 DEF StreamInv
  <2>5. PubInv /\ OwnInv /\ StandsInv
    BY <2>2 DEF PubInv, OwnInv, StandsInv, AskForKey, Lib!NoCall, Lib!NoResult
  <2> QED
    BY <2>1, <2>3, <2>4, <2>5 DEF SysInv
<1>3. IndInv /\ SysInv /\ [SysNext]_sysVars => SysInv'
  BY AppSteps, DutyStep, LinkStep, StreamStep, PubStep, OwnStep, StandsStep DEF SysInv
<1> QED
  BY <1>1, <1>2, <1>3, PTL DEF SysSpec

\* A reply is never put together from packets of two replies, in however many calls,
\* and however reads are given up between packets (LedgerDeviceUSB::read).
THEOREM RepliesStayWhole == SysSpec => []NeverMixed
<1>1. SysInv => NeverMixed
  <2> SUFFICES ASSUME SysInv, partial # <<>>, toHost # <<>>
               PROVE  Head(toHost) = Lib!Packet(1, Head(partial))
    BY DEF NeverMixed
  <2>1. Head(toHost) = toHost[1] /\ Head(partial) = partial[1]
    BY TailFacts DEF SysInv, LinkType
  <2> QED
    BY <2>1 DEF SysInv, StreamInv
<1> QED
  BY <1>1, SysInductive, PTL

\* Whatever calls are given up and whatever processes die: getKey and getKeyFromName
\* return the key of the slot or name they were asked for, or garbage, because each
\* makes a key pair of its own (X25519GenPrivKey in kpl.cpp).
THEOREM KeysAreOwn == SysSpec => []NeverForeignKey
<1>1. SysInv => NeverForeignKey
  BY DEF SysInv, StandsInv, NeverForeignKey, AskForKey
<1> QED
  BY <1>1, SysInductive, PTL
-----------------------------------------------------------------------------
(* One command, one reply: while no call gives up and no process dies      *)

\* The kind of the command tells the call.
LEMMA ApduKinds ==
  ASSUME NEW c \in Calls
  PROVE  /\ ApduOf(c).ins = INS_STORE_KEY =>
              c.op = "setKey" /\ ApduOf(c).p1 = c.slot /\ ApduOf(c).head = c.key
         /\ ApduOf(c).ins = INS_ERASE_ALL_SLOTS => c.op = "eraseAllSlots"
<1> USE DEF ApduOf, Lib!Apdu, INS_STORE_KEY, INS_ERASE_ALL_SLOTS
<1>1. CASE c \in [op : {"setKey"}, slot : SlotArgs, key : Keys]
  BY <1>1 DEF Lib!STORE_KEY
<1>2. CASE c \in [op : {"getKey"}, slot : SlotArgs, pub : Pubs]
  BY <1>2 DEF Lib!GET_KEY
<1>3. CASE c \in [op : {"getKeyFromName"}, name : NameArgs, pub : Pubs]
  BY <1>3 DEF Lib!GET_KEY_FROM_NAME
<1>4. CASE c \in [op : {"getValidKeySlots", "eraseAllSlots", "fromDevice"}]
  BY <1>4 DEF Lib!GET_VALID_KEY_SLOTS, Lib!ERASE_ALL_SLOTS, Lib!GET_APP_CONFIGURATION
<1> QED
  BY <1>1, <1>2, <1>3, <1>4 DEF Calls

\* A command carried out makes the success of its call real.
LEMMA DoneIsReal ==
  ASSUME NEW c \in Calls, NEW data, Done(ApduOf(c), data), NEW out,
         AskForKey(c) =>
           /\ data.kind = "sealed"
           /\ out.value = IF data.pub = c.pub THEN data.key ELSE Garbage,
         c.op = "getValidKeySlots" => data.kind = "slots" /\ out.value = data.slots
  PROVE  Real(c, out)
<1>1. CASE AskForKey(c)
  <2>1. data.pub = c.pub /\ Real(c, Lib!Out(data.key))
    BY <1>1, SealedIsReal
  <2> QED
    BY <1>1, <2>1 DEF Real, AskForKey, Lib!Out
<1> USE DEF ApduOf, Lib!Apdu, Done, INS_GET_KEY, INS_GET_KEY_FROM_NAME, INS_STORE_KEY,
            INS_GET_APP_CONFIGURATION, INS_GET_VALID_SLOTS, INS_ERASE_ALL_SLOTS
<1>2. CASE c.op = "setKey"
  BY <1>2 DEF Lib!STORE_KEY, Real
<1>3. CASE c.op = "getValidKeySlots"
  <2>1. data = SlotsData(valids)
    BY <1>3 DEF Lib!GET_VALID_KEY_SLOTS
  <2>2. data.slots = valids
    BY <2>1 DEF SlotsData
  <2> QED
    BY <1>3, <2>2 DEF Real
<1>4. CASE c.op = "eraseAllSlots"
  BY <1>4 DEF Lib!ERASE_ALL_SLOTS, Real
<1>5. CASE c.op = "fromDevice"
  BY <1>5 DEF Real
<1>6. c.op \in {"setKey", "getKey", "getKeyFromName", "getValidKeySlots", "eraseAllSlots",
                "fromDevice"}
  BY DEF Calls
<1> QED
  BY <1>1, <1>2, <1>3, <1>4, <1>5, <1>6 DEF AskForKey

\* What is drawn from LoneInv: nothing else is under way beside a reply.
LEMMA LoneFacts ==
  ASSUME LinkType, StreamInv, LoneInv
  PROVE  /\ Flying # {} => Quiet /\ ~Lib!Idle
         /\ Flying = {} <=> toHost = <<>> /\ partial = <<>>
         /\ toDev # <<>> \/ serving # NoReq => ~Lib!Idle /\ hid = "open"
<1>1. toHost # <<>> => Flying # {}
  <2>1. toHost # <<>> => 1 \in 1..Len(toHost)
    BY DEF LinkType
  <2> QED
    BY <2>1, FlyingType
<1>2. partial # <<>> => Flying # {}
  BY FlyingType
<1>3. toHost = <<>> /\ partial = <<>> => Flying = {}
  <2>1. 1..Len(<<>>) = {}
    OBVIOUS
  <2> QED
    BY <2>1 DEF Flying
<1> QED
  BY <1>1, <1>2, <1>3 DEF LoneInv, Quiet, StreamInv

\* The results and replies that stand keep being right while storage does not change.
LEMMA LoneKept ==
  ASSUME keys' = keys, valids' = valids, LoneInv, Flying' \subseteq Flying,
         call' = call, result' = result
  PROVE  /\ \A r \in Flying' :
              /\ r.data.kind = "sealed" => r.sw = KPL_SW_SUCCESS
              /\ r.sw = KPL_SW_SUCCESS => Done(ApduOf(call), r.data)'
         /\ ResultIsReal'
<1>1. \A r \in Flying : r.sw = KPL_SW_SUCCESS => Done(ApduOf(call), r.data)'
  BY DEF LoneInv, Done
<1>2. ResultIsReal'
  BY DEF LoneInv, ResultIsReal, Real, Lib!Idle
<1> QED
  BY <1>1, <1>2 DEF LoneInv

\* A call that returns leaves nothing behind, and its success is real.
LEMMA LoneReturn ==
  ASSUME LinkType, StreamInv, LoneInv, Timed = FALSE, Lib!Read, CallReturned, UNCHANGED vars
  PROVE  LoneInv'
<1>1. /\ call' = Lib!NoCall /\ partial' = <<>> /\ toDev' = toDev /\ hid' = hid
      /\ ~Lib!Idle /\ serving' = serving /\ keys' = keys /\ valids' = valids
  BY ReadFacts DEF CallReturned, vars, nv
<1>2. call \in Calls
  BY <1>1 DEF LinkType, Lib!Idle
<1>3. Quiet /\ toHost' = <<>>
  <2>1. CASE toHost' = toHost
    <3>1. toHost # <<>> => 1 \in 1..Len(toHost)
      BY DEF LinkType
    <3> QED
      BY <2>1, <3>1 DEF CallReturned, LoneInv
  <2>2. CASE toHost # <<>> /\ toHost' = Tail(toHost)
    <3>1. /\ Flying # {} /\ Quiet
          /\ Len(toHost) \in Nat /\ Len(toHost) >= 1 /\ Len(toHost') = Len(toHost) - 1
          /\ toHost' \in Seq(Packets)
      BY <2>2, LoneFacts, TailFacts DEF LinkType
    <3>2. Len(toHost) = 1 => toHost' = <<>>
      BY <3>1
    <3>3. CASE partial # <<>>
      BY <3>1, <3>2, <3>3 DEF LoneInv
    <3>4. ASSUME NEW r \in Flying, partial = <<>>, Long(r),
                 toHost = <<Lib!Packet(0, r), Lib!Packet(1, r)>>
          PROVE  FALSE
      <4>1. toHost[1].seq = 0 /\ toHost[1].of = r
        BY <3>4 DEF Lib!Packet
      <4>2. Lib!ReplySize(r) > Lib!BufSize(call.op)
        BY <1>1, <2>2, <3>4, <4>1, <3>1 DEF CallReturned
      <4>3. Lib!ReplySize(r) = 66 /\ r.data.kind = "sealed"
        BY <3>4, FlyingType, SizeFacts
      <4>4. AskForKey(call)
        BY <1>2, <4>3, SealedIsReal DEF LoneInv
      <4>5. Lib!BufSize(call.op) = 66
        BY <4>4 DEF Lib!BufSize, AskForKey
      <4> QED
        BY <4>2, <4>3, <4>5
    <3>5. ASSUME NEW r \in Flying, toHost = <<Lib!Packet(0, r)>>
          PROVE  toHost' = <<>>
      BY <3>2, <3>5
    <3> QED
      BY <2>2, <3>1, <3>3, <3>4, <3>5 DEF LoneInv
  <2> QED
    BY <2>1, <2>2 DEF CallReturned
<1>4. Quiet' /\ Flying' = {}
  <2>1. 1..Len(<<>>) = {}
    OBVIOUS
  <2> QED
    BY <1>1, <1>3, <2>1 DEF Quiet, Flying
<1>5. ResultIsReal'
  <2>1. ASSUME NEW r \in Flying, Lib!ReturnAnswer(r), result'.res = "SUCCESS"
        PROVE  Real(result.call, result.out)'
    <3>1. result'.call = call /\ r.sw = KPL_SW_SUCCESS /\ Done(ApduOf(call), r.data)
      BY <2>1, AnswerFacts, FlyingType DEF LoneInv
    <3>2. Real(call, result'.out)
      <4>1. /\ AskForKey(call) =>
                 /\ r.data.kind = "sealed"
                 /\ result'.out.value =
                      IF r.data.pub = call.pub THEN r.data.key ELSE Garbage
            /\ call.op = "getValidKeySlots" =>
                 r.data.kind = "slots" /\ result'.out.value = r.data.slots
        BY <2>1, AnswerFacts, FlyingType
      <4> QED
        BY <1>2, <3>1, <4>1, DoneIsReal
    <3> QED
      BY <1>1, <3>1, <3>2 DEF Real
  <2> QED
    BY <2>1 DEF CallReturned, ResultIsReal
<1> QED
  BY <1>1, <1>3, <1>4, <1>5 DEF LoneInv, Quiet

LEMMA LoneStep ==
  ASSUME Timed = FALSE, MayDie = FALSE, IndInv, SysInv, LoneInv, [SysNext]_sysVars
  PROVE  LoneInv'
<1> USE DEF SysInv
<1>1. CASE UNCHANGED sysVars \/ Inside
  <2>1. UNCHANGED link /\ serving' = serving /\ Flying' = Flying
    BY <1>1, InsideFacts DEF sysVars, vars, link, Flying
  <2>2. CASE serving = NoReq
    <3>1. keys' = keys /\ valids' = valids
      BY <2>1, <2>2, AppSteps, QuietSteps
    <3> QED
      BY <2>1, <3>1, LoneKept DEF LoneInv, link, Lib!Idle, Quiet
  <2>3. CASE serving # NoReq
    <3>1. ~Lib!Idle /\ Flying = {}
      BY <2>3, LoneFacts DEF LoneInv
    <3>2. ResultIsReal'
      BY <2>1, <3>1 DEF ResultIsReal, link, Lib!Idle
    <3> QED
      BY <2>1, <3>1, <3>2 DEF LoneInv, link, Lib!Idle, Quiet
  <2> QED
    BY <2>2, <2>3
<1>2. CASE (Lib!fromDevice(Present) \/ Lib!Call) /\ UNCHANGED vars
  <2>1. /\ Quiet /\ toHost = <<>> /\ partial = <<>> /\ Flying = {}
        /\ toHost' = <<>> /\ serving' = NoReq /\ Flying' = {}
    BY <1>2, CallFacts, LoneFacts, FlyingShrinks DEF LoneInv, StreamInv, Quiet, vars
  <2>2. CASE call' = Lib!NoCall /\ partial' = <<>> /\ result'.res # "SUCCESS" /\ toDev' = toDev
    BY <2>1, <2>2 DEF LoneInv, ResultIsReal, Quiet
  <2>3. ASSUME NEW c \in Calls, call' = c, partial' = partial,
               toDev' = toDev \/ (toDev' = Append(toDev, ApduOf(c)) /\ hid' = "open")
        PROVE  LoneInv'
    <3>1. Append(<<>>, ApduOf(c)) = <<ApduOf(c)>>
      OBVIOUS
    <3>2. ~Lib!Idle'
      BY <2>3, ApduFacts DEF Lib!Idle
    <3>3. toDev' = <<>> \/ (toDev' = <<ApduOf(call')>> /\ hid' = "open")
      BY <2>1, <2>3, <3>1 DEF Quiet
    <3> QED
      BY <2>1, <2>3, <3>2, <3>3 DEF LoneInv, ResultIsReal, Quiet
  <2> QED
    BY <1>2, <2>2, <2>3, CallFacts
<1>3. CASE Lib!Read /\ HalfRead /\ UNCHANGED vars
  <2>1. /\ toHost # <<>> /\ toHost' = Tail(toHost) /\ partial = <<>>
        /\ partial' = <<toHost[1].of>> /\ call' = call /\ result' = result
        /\ toDev' = toDev /\ hid' = hid /\ serving' = serving
        /\ keys' = keys /\ valids' = valids /\ Flying' \subseteq Flying
    BY <1>3, ReadFacts, FlyingShrinks DEF HalfRead, vars, nv
  <2>2. ~Lib!Idle /\ Quiet
    BY <2>1, LoneFacts
  <2>3. Len(toHost') <= 1
    <3>1. PICK r \in Flying : \/ toHost = <<Lib!Packet(0, r), Lib!Packet(1, r)>>
                              \/ toHost = <<Lib!Packet(0, r)>>
      BY <2>1 DEF LoneInv
    <3>2. /\ Len(toHost) \in Nat /\ Len(toHost') = Len(toHost) - 1
      BY <2>1, TailFacts DEF LinkType
    <3>3. Len(toHost) = 2 \/ Len(toHost) = 1
      <4>1. \A a, b : Len(<<a, b>>) = 2 /\ Len(<<a>>) = 1
        OBVIOUS
      <4> QED
        BY <3>1, <4>1, Zenon
    <3> QED
      BY <3>2, <3>3
  <2> QED
    BY <2>1, <2>2, <2>3, LoneKept DEF LoneInv, Lib!Idle, Quiet
<1>4. CASE Lib!Read /\ CallReturned /\ UNCHANGED vars
  BY <1>4, LoneReturn
<1>5. CASE Deliver
  <2>1. /\ toDev = <<ApduOf(call)>> /\ Flying = {} /\ ~Lib!Idle /\ hid = "open"
        /\ toDev' = Tail(toDev) /\ serving' = Head(toDev) /\ Flying' = Flying
        /\ UNCHANGED <<hid, call, partial, result, toHost>>
    BY <1>5, DeliverFacts, LoneFacts DEF LoneInv, Flying
  <2>2. toDev' = <<>> /\ serving' = ApduOf(call)
    BY <2>1
  <2> QED
    BY <2>1, <2>2, LoneFacts DEF LoneInv, ResultIsReal, Lib!Idle, Quiet
<1>6. CASE Ignore
  BY <1>6 DEF Ignore, LoneInv
<1>7. CASE Respond
  <2>1. /\ serving = ApduOf(call) /\ Flying = {} /\ ~Lib!Idle /\ toDev = <<>>
        /\ toHost = <<>> /\ partial = <<>>
    BY <1>7, RespondFacts, LoneFacts DEF Respond, LoneInv
  <2>2. /\ UNCHANGED <<call, result, partial, toDev>> /\ serving' = NoReq
        /\ Flying' \subseteq {rapdu} /\ rapdu \in Replies /\ toHost' \in Seq(Packets)
        /\ rapdu.data.kind = "sealed" => rapdu.sw = KPL_SW_SUCCESS
        /\ rapdu.sw = KPL_SW_SUCCESS => Done(serving, rapdu.data)
        /\ keys' = keys /\ valids' = valids
    BY <1>7, <2>1, RespondFacts, ArriveFacts DEF Respond
  <2>3. \/ toHost' = <<>>
        \/ toHost' = IF Long(rapdu) THEN <<Lib!Packet(0, rapdu), Lib!Packet(1, rapdu)>>
                                    ELSE <<Lib!Packet(0, rapdu)>>
    <3>1. /\ <<>> \o <<Lib!Packet(0, rapdu), Lib!Packet(1, rapdu)>>
               = <<Lib!Packet(0, rapdu), Lib!Packet(1, rapdu)>>
          /\ Append(<<>>, Lib!Packet(0, rapdu)) = <<Lib!Packet(0, rapdu)>>
      OBVIOUS
    <3> QED
      BY <1>7, <2>1, <2>2, <3>1, ArriveFacts DEF Respond
  <2>4. toHost' # <<>> => rapdu \in Flying'
    <3>1. toHost' # <<>> => toHost'[1] = Lib!Packet(0, rapdu) /\ 1 \in 1..Len(toHost')
      BY <2>3
    <3> QED
      BY <3>1 DEF Flying, Lib!Packet
  <2>5. \A r \in Flying' : r.sw = KPL_SW_SUCCESS => Done(ApduOf(call), r.data)'
    BY <2>1, <2>2 DEF Done
  <2> QED
    BY <2>1, <2>2, <2>3, <2>4, <2>5 DEF LoneInv, ResultIsReal, Lib!Idle, Quiet
<1>8. CASE Vanish
  <2>1. /\ serving' = NoReq /\ toDev' = <<>> /\ toHost' \in {toHost, <<>>}
        /\ UNCHANGED <<call, result, partial>> /\ keys' = keys /\ valids' = valids
        /\ Flying' \subseteq Flying
    BY <1>8, VanishFacts, FlyingShrinks
  <2>2. CASE toHost' = toHost
    <3>1. Flying' = Flying
      BY <2>1, <2>2 DEF Flying
    <3> QED
      BY <2>1, <2>2, <3>1, LoneKept DEF LoneInv, Lib!Idle, Quiet
  <2>3. CASE toHost' = <<>>
    <3>1. Len(<<>>) <= 1
      OBVIOUS
    <3> QED
      BY <2>1, <2>3, <3>1, LoneKept DEF LoneInv, Lib!Idle, Quiet
  <2> QED
    BY <2>1, <2>2, <2>3
<1> QED
  BY <1>1, <1>2, <1>3, <1>4, <1>5, <1>6, <1>7, <1>8, StepCases, ReadFacts
-----------------------------------------------------------------------------
(* Theorems for calls that wait and processes that live                    *)

THEOREM LoneInductive ==
  ASSUME Timed = FALSE, MayDie = FALSE
  PROVE  SysSpec => []LoneInv
<1>1. SysInit => LoneInv
  <2> SUFFICES ASSUME SysInit PROVE LoneInv
    OBVIOUS
  <2>1. Flying = {}
    <3>1. 1..Len(<<>>) = {}
      OBVIOUS
    <3> QED
      BY <3>1 DEF SysInit, Lib!Init, Flying
  <2> QED
    BY <2>1 DEF SysInit, Init, Lib!Init, LoneInv, Quiet, ResultIsReal, Lib!NoResult
<1>2. IndInv /\ SysInv /\ LoneInv /\ [SysNext]_sysVars => LoneInv'
  BY LoneStep
<1> QED
  BY <1>1, <1>2, SysInductive, PTL DEF SysSpec

\* From end to end: what a call of KPL reports as a success is so, its own slot, key
\* and name, in spite of resets and reconnections (one reply per command, in order).
THEOREM ResultsAreReal ==
  ASSUME Timed = FALSE, MayDie = FALSE
  PROVE  SysSpec => []ResultIsReal
<1>1. LoneInv => ResultIsReal
  BY DEF LoneInv
<1> QED
  BY <1>1, LoneInductive, PTL

\* Storage changes only during a call that asks for that change and has not returned
\* yet: nothing happens behind the back of a caller.
THEOREM NothingBehindBack ==
  ASSUME Timed = FALSE, MayDie = FALSE
  PROVE  SysSpec => ChangedForCaller
<1> DEFINE Asked ==
      (\E s \in Slots : keys'[s] # keys[s] \/ (s \in valids) # (s \in valids')) =>
         \/ call.op = "eraseAllSlots"
         \/ call.op = "setKey" /\ keys' = [keys EXCEPT ![call.slot] = call.key]
<1>1. IndInv /\ SysInv /\ LoneInv /\ [SysNext]_sysVars => [Asked]_sysVars
  <2> SUFFICES ASSUME IndInv, SysInv, LoneInv, SysNext PROVE Asked
    OBVIOUS
  <2> USE DEF SysInv
  <2>1. ASSUME keys' = keys, valids' = valids PROVE Asked
    BY <2>1
  <2>2. CASE Host \/ Ignore
    BY <2>1, <2>2 DEF Host, Ignore, vars, nv
  <2>3. CASE Deliver \/ Respond \/ Vanish
    BY <2>1, <2>3, DeliverFacts, RespondFacts, VanishFacts DEF Respond
  <2>4. CASE Inside
    <3>1. serving' = serving
      BY <2>4, InsideFacts
    <3>2. CASE serving = NoReq
      BY <2>1, <3>1, <3>2, AppSteps, QuietSteps
    <3>3. CASE serving # NoReq
      <4>1. serving = ApduOf(call) /\ call \in Calls
        BY <3>3, LoneFacts DEF LoneInv, LinkType, Lib!Idle
      <4>2. CASE WriteKey
        <5>1. /\ job = [slot |-> serving.p1, key |-> serving.head]
              /\ call.op = "setKey" /\ serving.p1 = call.slot /\ serving.head = call.key
          BY <3>3, <4>1, <4>2, ApduKinds DEF WriteKey, IndInv, ServingInv
        <5>2. keys' = [keys EXCEPT ![job.slot] = job.key]
          BY <4>2 DEF WriteKey
        <5> QED
          BY <5>1, <5>2
      <4>3. CASE MarkValid
        <5>1. keys[job.slot] = job.key /\ job = [slot |-> serving.p1, key |-> serving.head]
              /\ call.op = "setKey" /\ serving.p1 = call.slot /\ serving.head = call.key
          BY <3>3, <4>1, <4>3, ApduKinds DEF MarkValid, IndInv, ServingInv, WholeKeysInv
        <5>2. keys' = keys /\ keys \in [Slots -> Cells]
          BY <4>3 DEF MarkValid, IndInv, TypeOK
        <5> QED
          BY <5>1, <5>2
      <4>4. CASE Wipe
        BY <3>3, <4>1, <4>4, ApduKinds DEF Wipe, IndInv, ServingInv
      <4>5. CASE Launch \/ Start
        BY <3>3, <4>5 DEF Launch, Start, IndInv, ServingInv
      <4>6. CASE \/ handleStoreKeyConfirmErase \/ handleEraseAllSlotsApprove
                 \/ handleGetKeyAfterApprove \/ handleGetKeyFromNameAfterApprove
        BY <2>1, <4>6
           DEF handleStoreKeyConfirmErase, handleEraseAllSlotsApprove,
               handleGetKeyAfterApprove, handleGetKeyFromNameAfterApprove, Approved, nv
      <4>7. CASE HoldReply \/ User
        BY <2>1, <4>7 DEF HoldReply, User, touch_okay, touch_deny, nv
      <4> QED
        BY <2>4, <4>2, <4>3, <4>4, <4>5, <4>6, <4>7 DEF Inside
    <3> QED
      BY <3>2, <3>3
  <2> QED
    BY <2>2, <2>3, <2>4 DEF SysNext
<1> QED
  BY <1>1, LoneInductive, SysInductive, PTL DEF SysSpec, ChangedForCaller
=============================================================================
