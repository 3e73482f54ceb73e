-------------------------- MODULE LedgerAppProofs --------------------------
(***************************************************************************)
(* Machine-checked proofs about LedgerApp, for every number of slots, every *)
(* set of keys, names and commands, every set of exceptions io_exchange may *)
(* throw, and (AtomicNvm) for whole as well as torn flash writes.          *)
(***************************************************************************)
EXTENDS LedgerApp, TLAPS

\* The switch of handleApdu, app_main and touch_okay yields two bytes.
LEMMA ToSWType ==
  ASSUME NEW e \in SWs
  PROVE  ToSW(e) \in SWs
  BY DEF ToSW, SWs, Byte

\* Only what was thrown as 0x9000 becomes the status word of success.
LEMMA ToSWError ==
  ASSUME NEW e \in SWs, e # KPL_SW_SUCCESS
  PROVE  ToSW(e) # KPL_SW_SUCCESS
  BY DEF ToSW, SWs, Byte, KPL_SW_SUCCESS

\* The errors the handlers return or throw.
LEMMA SWTypes ==
  /\ KPL_SW_SUCCESS \in SWs /\ NoSW \in SWs
  /\ \A e \in {KPL_SW_UNKNOWN_INSTR, KPL_SW_INVALID_CLS, KPL_SW_UNAUTHORIZED_ACCESS,
               KPL_SW_EMPTY_SLOT, KPL_SW_INVALID_NAME, INVALID_PARAMETER,
               EXCEPTION_SECURITY} :
       e \in SWs /\ e # KPL_SW_SUCCESS
  BY DEF SWs, Byte, KPL_SW_SUCCESS, NoSW, KPL_SW_UNKNOWN_INSTR, KPL_SW_INVALID_CLS,
         KPL_SW_UNAUTHORIZED_ACCESS, KPL_SW_EMPTY_SLOT, KPL_SW_INVALID_NAME,
         INVALID_PARAMETER, EXCEPTION_SECURITY

\* Slot 0 exists: the zeroed argument structures name a slot.
LEMMA SlotZero == 0 \in Slots
  BY SlotCountAssumption DEF Slots

\* What a reply can carry: nothing, the version, the valid slots, a key sealed
\* for a public key.
LEMMA DataType ==
  /\ NoData \in Data /\ VersionData \in Data
  /\ \A b \in SUBSET Slots : SlotsData(b) \in Data
  /\ \A k \in Cells, p \in Words \cup {ZeroWord} : SealedData(k, p) \in Data
  BY DEF Data

\* The four sorts of questions differ, and each names one slot or one name.
LEMMA QuestionsDiffer ==
  ASSUME NEW s, NEW t
  PROVE  /\ EraseSlot(s) = EraseSlot(t) => s = t
         /\ OpenSlot(s) = OpenSlot(t) => s = t
         /\ OpenName(s) = OpenName(t) => s = t
         /\ EraseSlot(s) # OpenSlot(t) /\ EraseSlot(s) # OpenName(t)
         /\ OpenSlot(s) # OpenName(t)
         /\ EraseSlot(s) # EraseAll /\ OpenSlot(s) # EraseAll /\ OpenName(s) # EraseAll
         /\ EraseSlot(s) # Blank /\ OpenSlot(s) # Blank /\ OpenName(s) # Blank
         /\ EraseAll # Blank
  BY DEF EraseSlot, OpenSlot, OpenName, EraseAll, Blank

\* Only sealed data are of the kind a key leaves the device in.
LEMMA ReplyKinds ==
  /\ NoData.kind # "sealed" /\ VersionData.kind # "sealed"
  /\ \A b : SlotsData(b).kind # "sealed"
  /\ \A k, p : /\ SealedData(k, p).kind = "sealed"
               /\ SealedData(k, p).key = k /\ SealedData(k, p).pub = p
  BY DEF NoData, VersionData, SlotsData, SealedData
-----------------------------------------------------------------------------

\* A command the host may send; a slot number below SlotCount is a slot.
LEMMA CommandType ==
  ASSUME NEW r \in Requests
  PROVE  /\ r # NoReq
         /\ r.p1 < SlotCount => r.p1 \in Slots
         /\ r.head \in Words \cup {ShortHead}
         /\ r.tail \in {NoTail} \cup Names \cup BadNames \cup LongTails
  BY RequestAssumption, SlotCountAssumption DEF Commands, Byte, Slots

\* The texts the handlers put on the screen are questions.
LEMMA QuestionType ==
  /\ \A s \in Slots : /\ EraseSlot(s) \in Questions(Slots, Names)
                      /\ OpenSlot(s) \in Questions(Slots, Names)
  /\ \A n \in Names : OpenName(n) \in Questions(Slots, Names)
  /\ EraseAll \in Questions(Slots, Names)
  BY DEF Questions

\* A status word and data make a reply.
LEMMA ReplyType ==
  ASSUME NEW sw \in SWs, NEW data \in Data
  PROVE  /\ Reply(sw, data) \in [sw : SWs, data : Data]
         /\ Reply(sw, data).sw = sw /\ Reply(sw, data).data = data
  BY DEF Reply

\* Staging a well-typed reply keeps the types of pc and rapdu.
LEMMA StageType ==
  ASSUME NEW sw \in SWs, NEW data \in Data, Stage(sw, data)
  PROVE  /\ pc' \in PcValues /\ pc' = "reply"
         /\ rapdu' \in [sw : SWs, data : Data]
         /\ rapdu'.sw = sw /\ rapdu'.data = data
  BY ReplyType DEF Stage, PcValues

\* The values of a start, and of what is wiped, have their types.
LEMMA RestTypes ==
  /\ NoReply \in [sw : SWs, data : Data]
  /\ NoJob \in [slot : Slots, key : Words \cup {ZeroWord}]
  /\ NoGet \in [slot : Slots, pub : Words \cup {ZeroWord}]
  /\ NoName \in [name : Names \cup {NoTail}, pub : Words \cup {ZeroWord}]
  BY SlotZero, SWTypes, DataType DEF NoReply, NoJob, NoGet, NoName, Reply
-----------------------------------------------------------------------------
(* Types *)

\* The handlers keep the types.
LEMMA HandlerTypes ==
  ASSUME TypeOK, NEW r \in Requests, handleApdu(r)
  PROVE  TypeOK'
<1> USE DEF TypeOK, handleApdu, Receive
<1>1. /\ keys' \in [Slots -> Cells] /\ valids' \in SUBSET Slots /\ initialized' \in BOOLEAN
      /\ inCb' \in BOOLEAN /\ serving' \in Requests \cup {NoReq}
  BY DEF nv
<1>2. \A sw \in SWs, data \in Data :
        Answer(sw, data) =>
          /\ pc' \in PcValues /\ asynch' \in BOOLEAN
          /\ rapdu' \in [sw : SWs, data : Data]
  <2> SUFFICES ASSUME NEW sw \in SWs, NEW data \in Data, Answer(sw, data)
               PROVE  /\ pc' \in PcValues /\ asynch' \in BOOLEAN
                      /\ rapdu' \in [sw : SWs, data : Data]
    OBVIOUS
  <2>1. ToSW(sw) \in SWs
    BY ToSWType
  <2> QED
    BY <2>1, ReplyType DEF Answer, Stage, PcValues
<1>3. \A q \in Questions(Slots, Names), c \in Callbacks :
        ui_approval(q, c) =>
          /\ pc' \in PcValues /\ asynch' \in BOOLEAN
          /\ rapdu' \in [sw : SWs, data : Data]
          /\ screen' \in {"off", "idle", "approval"}
          /\ lines' \in Questions(Slots, Names) \cup {Blank}
          /\ cb' \in Callbacks \cup {"NULL"}
  BY ReplyType, SWTypes, DataType DEF ui_approval, Stage, PcValues
<1>4. CASE rejectApdu(r)
  BY <1>1, <1>2, <1>4, SWTypes, DataType DEF rejectApdu, ui, args
<1>5. CASE handleGetAppConfiguration(r)
  BY <1>1, <1>2, <1>5, SWTypes, DataType DEF handleGetAppConfiguration, ui, args
<1>6. CASE handleStoreKey(r)
  <2>1. CASE BadStoreKey(r)
    BY <1>1, <1>2, <2>1, SWTypes, DataType DEF BadStoreKey, ui, args
  <2>2. CASE AskToErase(r)
    BY <1>1, <1>3, <2>2, CommandType, QuestionType DEF AskToErase, Callbacks, Has32Bytes
  <2>3. CASE StoreAtOnce(r)
    BY <1>1, <2>3, CommandType DEF StoreAtOnce, Has32Bytes, ui, args, PcValues
  <2> QED
    BY <1>6, <2>1, <2>2, <2>3 DEF handleStoreKey
<1>7. CASE handleGetKey(r)
  <2>1. CASE BadGetKey(r)
    BY <1>1, <1>2, <1>7, <2>1, SWTypes, DataType DEF handleGetKey, BadGetKey, ui, args
  <2>2. CASE GetEmptySlot(r)
    BY <1>1, <1>2, <1>7, <2>2, SWTypes, DataType DEF handleGetKey, GetEmptySlot, ui, args
  <2>3. CASE AskToOpenSlot(r)
    BY <1>1, <1>3, <1>7, <2>3, CommandType, QuestionType
       DEF handleGetKey, AskToOpenSlot, Callbacks, Has32Bytes
  <2> QED
    BY <1>7, <2>1, <2>2, <2>3 DEF handleGetKey
<1>8. CASE handleGetKeyFromName(r)
  <2>1. CASE BadNameLength(r)
    BY <1>1, <1>2, <1>8, <2>1, SWTypes, DataType DEF handleGetKeyFromName, BadNameLength, ui
  <2>2. CASE BadName(r)
    BY <1>1, <1>2, <1>8, <2>2, SWTypes, DataType DEF handleGetKeyFromName, BadName, ui
  <2>3. CASE AskToOpenName(r)
    BY <1>1, <1>3, <1>8, <2>3, QuestionType DEF handleGetKeyFromName, AskToOpenName, Callbacks
  <2> QED
    BY <1>8, <2>1, <2>2, <2>3 DEF handleGetKeyFromName
<1>9. CASE handleGetValidSlots(r)
  BY <1>1, <1>2, <1>9, SWTypes, DataType DEF handleGetValidSlots, ui, args
<1>10. CASE handleEraseAllSlots(r)
  BY <1>1, <1>3, <1>10, QuestionType DEF handleEraseAllSlots, Callbacks, args
<1> QED
  BY <1>4, <1>5, <1>6, <1>7, <1>8, <1>9, <1>10

\* Losing RAM (a power loss, a quit) leaves the zeroed RAM of a start.
LEMMA ForgetRamTypes ==
  ASSUME TypeOK, ForgetRam,
         keys' \in [Slots -> Cells], valids' \in SUBSET Slots, initialized' \in BOOLEAN
  PROVE  TypeOK'
  BY RestTypes DEF TypeOK, ForgetRam, PcValues

\* Every step keeps the types.  CallbackInv is needed for one of them: the
\* name a key is derived from is a name, not the initial content of nameArgs.
LEMMA TypeStep ==
  ASSUME TypeOK, CallbackInv, [Next]_vars
  PROVE  TypeOK'
<1> USE DEF TypeOK, nv, args, ui
<1>1. CASE UNCHANGED vars
  BY <1>1 DEF vars
<1>2. ASSUME NEW r \in Requests, handleApdu(r) PROVE TypeOK'
  BY <1>2, HandlerTypes
<1>3. CASE Start
  <2>1. /\ keys' \in [Slots -> Cells] /\ valids' \in SUBSET Slots
        /\ initialized' \in BOOLEAN
    BY <1>3 DEF Start, WipeStorage, Cells
  <2> QED
    BY <1>3, <2>1 DEF Start, ui_idle, PcValues
<1>4. CASE WriteKey
  BY <1>4 DEF WriteKey, PcValues, Cells
<1>5. CASE MarkValid
  BY <1>5, RestTypes, SWTypes, DataType, ReplyType DEF MarkValid, set_key_as_valid, Stage, PcValues
<1>6. CASE Wipe
  BY <1>6, SWTypes, DataType, ReplyType DEF Wipe, WipeStorage, Stage, PcValues, Cells
<1>7. CASE handleStoreKeyConfirmErase
  BY <1>7 DEF handleStoreKeyConfirmErase, Approved, PcValues
<1>8. CASE handleEraseAllSlotsApprove
  BY <1>8 DEF handleEraseAllSlotsApprove, Approved, PcValues
<1>9. ASSUME NEW key \in Cells, NEW pub \in Words \cup {ZeroWord}, SealOrFail(key, pub)
      PROVE  /\ pc' \in PcValues /\ rapdu' \in [sw : SWs, data : Data]
             /\ screen' \in {"off", "idle", "approval"}
  <2>1. ToSW(INVALID_PARAMETER) \in SWs
    BY SWTypes, ToSWType
  <2> QED
    BY <1>9, <2>1, SWTypes, DataType, ReplyType DEF SealOrFail, Stage, ui_idle, PcValues
<1>10. CASE handleGetKeyAfterApprove
  BY <1>9, <1>10 DEF handleGetKeyAfterApprove, Approved
<1>11. CASE handleGetKeyFromNameAfterApprove
  <2>1. NameKey[nameArgs.name] \in Cells
    BY <1>11, NameAssumption DEF handleGetKeyFromNameAfterApprove, Approved, CallbackInv, Cells
  <2>2. ToSW(EXCEPTION_SECURITY) \in SWs
    BY SWTypes, ToSWType
  <2> QED
    BY <1>9, <1>11, <2>1, <2>2, DataType, ReplyType
       DEF handleGetKeyFromNameAfterApprove, Approved, Stage, PcValues
<1>12. CASE HoldReply \/ SendReply \/ SendAndReturn
  BY <1>12, RestTypes DEF HoldReply, SendReply, SendAndReturn, ui_idle, PcValues
<1>13. CASE touch_okay \/ touch_deny
  <2>1. CASE touch_okay
    BY <2>1 DEF touch_okay, PcValues
  <2>2. CASE touch_deny
    BY <2>2, SWTypes, DataType, StageType DEF touch_deny
  <2> QED
    BY <1>13, <2>1, <2>2
<1>14. CASE Launch \/ IoReset
  BY <1>14, RestTypes DEF Launch, IoReset, PcValues
<1>15. ASSUME NEW e \in IoExceptions, IoError(e) PROVE TypeOK'
  <2>1. ToSW(e) \in SWs
    BY IoAssumption, ToSWType
  <2>2. Stage(ToSW(e), NoData)
    BY <1>15 DEF IoError
  <2>3. pc' \in PcValues /\ rapdu' \in [sw : SWs, data : Data]
    BY <2>1, <2>2, DataType, StageType
  <2>4. asynch' \in BOOLEAN /\ inCb' \in BOOLEAN
    BY <1>15 DEF IoError
  <2>5. job' = job /\ serving' = serving
    BY <1>15 DEF IoError
  <2>6. keys' = keys /\ valids' = valids /\ initialized' = initialized
    BY <1>15 DEF IoError
  <2>7. screen' = screen /\ lines' = lines /\ cb' = cb
    BY <1>15 DEF IoError
  <2>8. eraseArgs' = eraseArgs /\ getArgs' = getArgs /\ nameArgs' = nameArgs
    BY <1>15 DEF IoError
  <2> QED
    BY <2>3, <2>4, <2>5, <2>6, <2>7, <2>8
<1>16. CASE Quit \/ PowerLoss
  BY <1>16, ForgetRamTypes DEF Quit, PowerLoss
<1>17. CASE TornKey \/ TornWipe
  BY <1>17, ForgetRamTypes DEF TornKey, TornWipe, Cells
<1> QED
  BY <1>1, <1>2, <1>3, <1>4, <1>5, <1>6, <1>7, <1>8, <1>10, <1>11, <1>12, <1>13,
     <1>14, <1>15, <1>16, <1>17 DEF Next, Device, User, Environment
-----------------------------------------------------------------------------
(* The screen and the callback *)

\* A handler that asks registers the callback, the text and the arguments of
\* one question; one that does not ask leaves a question as it is, up to the
\* public key of a name command.
LEMMA HandlerCallback ==
  ASSUME TypeOK, CallbackInv, JobInv, NEW r \in Requests, handleApdu(r)
  PROVE  CallbackInv'
<1> USE DEF CallbackInv, Pending, handleApdu, Receive, nv, ui, args
<1>1. ~inCb /\ UNCHANGED <<valids, inCb>> /\ pc = "wait"
  BY DEF JobInv
<1>2. ASSUME UNCHANGED <<screen, lines, cb, eraseArgs, getArgs, nameArgs>>, pc' # "approved"
      PROVE  CallbackInv'
  BY <1>1, <1>2
<1>3. \A sw, data : Answer(sw, data) => pc' = "reply"
  BY DEF Answer, Stage
<1>4. \A q, c : ui_approval(q, c) => pc' = "reply" /\ lines' = q /\ cb' = c
  BY DEF ui_approval, Stage
<1>5. CASE rejectApdu(r)
  BY <1>2, <1>3, <1>5 DEF rejectApdu
<1>6. CASE handleGetAppConfiguration(r)
  BY <1>2, <1>3, <1>6 DEF handleGetAppConfiguration
<1>7. CASE handleStoreKey(r)
  <2>1. CASE BadStoreKey(r)
    BY <1>2, <1>3, <2>1 DEF BadStoreKey
  <2>2. CASE AskToErase(r)
    BY <1>1, <1>4, <2>2, CommandType DEF AskToErase, Has32Bytes
  <2>3. CASE StoreAtOnce(r)
    BY <1>2, <2>3 DEF StoreAtOnce
  <2> QED
    BY <1>7, <2>1, <2>2, <2>3 DEF handleStoreKey
<1>8. CASE handleGetKey(r)
  <2>1. CASE BadGetKey(r)
    BY <1>2, <1>3, <1>8, <2>1 DEF handleGetKey, BadGetKey
  <2>2. CASE GetEmptySlot(r)
    BY <1>2, <1>3, <1>8, <2>2 DEF handleGetKey, GetEmptySlot
  <2>3. CASE AskToOpenSlot(r)
    BY <1>1, <1>4, <1>8, <2>3 DEF handleGetKey, AskToOpenSlot, Has32Bytes
  <2> QED
    BY <1>8, <2>1, <2>2, <2>3 DEF handleGetKey
<1>9. CASE handleGetKeyFromName(r)
  <2>1. CASE BadNameLength(r)
    BY <1>2, <1>3, <1>9, <2>1 DEF handleGetKeyFromName, BadNameLength
  <2>2. CASE BadName(r)
    <3>1. nameArgs'.name = nameArgs.name /\ nameArgs'.pub \in Words
      BY <2>2 DEF BadName, TypeOK
    <3> QED
      BY <1>1, <1>3, <1>9, <2>2, <3>1 DEF handleGetKeyFromName, BadName
  <2>3. CASE AskToOpenName(r)
    BY <1>4, <1>9, <2>3 DEF handleGetKeyFromName, AskToOpenName
  <2> QED
    BY <1>9, <2>1, <2>2, <2>3 DEF handleGetKeyFromName
<1>10. CASE handleGetValidSlots(r)
  BY <1>2, <1>3, <1>10 DEF handleGetValidSlots
<1>11. CASE handleEraseAllSlots(r)
  BY <1>4, <1>11 DEF handleEraseAllSlots
<1> QED
  BY <1>5, <1>6, <1>7, <1>8, <1>9, <1>10, <1>11

\* Every step keeps the text, the callback and its arguments together.
LEMMA CallbackStep ==
  ASSUME TypeOK, CallbackInv, JobInv, StorageInv, [Next]_vars
  PROVE  CallbackInv'
<1> USE DEF CallbackInv, Pending, nv, ui, args
\* The screen, the callback and its arguments stay and no valid slot is lost:
\* whatever was in order still is, if no question becomes pending.
<1>1. ASSUME UNCHANGED <<lines, cb, getArgs, nameArgs>>,
             Pending' => Pending /\ valids \subseteq valids' /\ UNCHANGED eraseArgs
      PROVE  CallbackInv'
  BY <1>1
<1>2. CASE UNCHANGED vars
  BY <1>1, <1>2 DEF vars
<1>3. ASSUME NEW r \in Requests, handleApdu(r) PROVE CallbackInv'
  BY <1>3, HandlerCallback
<1>4. CASE Start
  BY <1>1, <1>4 DEF Start, ui_idle
<1>5. CASE WriteKey
  BY <1>1, <1>5 DEF WriteKey
<1>6. CASE MarkValid
  BY <1>1, <1>6 DEF MarkValid, set_key_as_valid, Stage
<1>7. CASE Wipe
  BY <1>1, <1>7 DEF Wipe, Stage, JobInv
<1>8. CASE handleStoreKeyConfirmErase
  BY <1>1, <1>8 DEF handleStoreKeyConfirmErase, Approved, JobInv
<1>9. CASE handleEraseAllSlotsApprove
  BY <1>1, <1>9 DEF handleEraseAllSlotsApprove, Approved, JobInv
<1>10. CASE handleGetKeyAfterApprove
  BY <1>1, <1>10 DEF handleGetKeyAfterApprove, Approved, SealOrFail, Stage, ui_idle, JobInv
<1>11. CASE handleGetKeyFromNameAfterApprove
  BY <1>1, <1>11
     DEF handleGetKeyFromNameAfterApprove, Approved, SealOrFail, Stage, ui_idle, JobInv
<1>12. CASE HoldReply \/ SendReply \/ SendAndReturn
  BY <1>1, <1>12 DEF HoldReply, SendReply, SendAndReturn, ui_idle
<1>13. CASE touch_okay \/ touch_deny
  BY <1>1, <1>13 DEF touch_okay, touch_deny, Stage, JobInv
<1>14. CASE Launch \/ IoReset
  BY <1>1, <1>14 DEF Launch, IoReset
<1>15. ASSUME NEW e \in IoExceptions, IoError(e) PROVE CallbackInv'
  BY <1>1, <1>15 DEF IoError, Stage
<1>16. CASE Quit \/ PowerLoss \/ TornKey \/ TornWipe
  BY <1>16 DEF Quit, PowerLoss, TornKey, TornWipe, ForgetRam
<1> QED
  BY <1>2, <1>3, <1>4, <1>5, <1>6, <1>7, <1>8, <1>9, <1>10, <1>11, <1>12, <1>13,
     <1>14, <1>15, <1>16 DEF Next, Device, User, Environment
-----------------------------------------------------------------------------
(* Storage *)

\* A handler ends with a reply to stage or with a storeKeySlot to run, for a
\* slot that is empty.
LEMMA HandlerJob ==
  ASSUME NEW r \in Requests, handleApdu(r)
  PROVE  /\ pc = "wait" /\ UNCHANGED <<nv, inCb>>
         /\ \/ pc' = "reply"
            \/ /\ pc' = "storeKey" /\ asynch' = FALSE
               /\ job'.slot \notin valids /\ job'.key \in Words
<1> USE DEF handleApdu, Receive
<1>1. \A sw, data : Answer(sw, data) => pc' = "reply"
  BY DEF Answer, Stage
<1>2. \A q, c : ui_approval(q, c) => pc' = "reply"
  BY DEF ui_approval, Stage
<1>3. ASSUME ~StoreAtOnce(r) PROVE pc' = "reply"
  BY <1>1, <1>2, <1>3
     DEF rejectApdu, handleGetAppConfiguration, handleStoreKey, BadStoreKey, AskToErase,
         handleGetKey, BadGetKey, GetEmptySlot, AskToOpenSlot, handleGetKeyFromName,
         BadNameLength, BadName, AskToOpenName, handleGetValidSlots, handleEraseAllSlots
<1>4. ASSUME StoreAtOnce(r)
      PROVE  /\ pc' = "storeKey" /\ asynch' = FALSE
             /\ job'.slot \notin valids /\ job'.key \in Words
  BY <1>4 DEF StoreAtOnce, Has32Bytes
<1> QED
  BY <1>3, <1>4

\* Every step keeps the control facts: which slot a storeKeySlot runs for, and
\* that what destroys keys runs below an approved screen.
LEMMA JobStep ==
  ASSUME TypeOK, CallbackInv, JobInv, StorageInv, [Next]_vars
  PROVE  JobInv' /\ StorageInv'
<1> USE DEF JobInv, StorageInv, nv, ui, args
<1>1. CASE UNCHANGED vars
  BY <1>1 DEF vars
<1>2. ASSUME NEW r \in Requests, handleApdu(r) PROVE JobInv' /\ StorageInv'
  BY <1>2, HandlerJob
<1>3. CASE Start
  BY <1>3 DEF Start, WipeStorage
<1>4. CASE WriteKey
  BY <1>4 DEF WriteKey
<1>5. CASE MarkValid
  BY <1>5 DEF MarkValid, set_key_as_valid, Stage
<1>6. CASE Wipe
  BY <1>6 DEF Wipe, WipeStorage, Stage
<1>7. CASE handleStoreKeyConfirmErase
  BY <1>7 DEF handleStoreKeyConfirmErase, Approved, CallbackInv, Pending
<1>8. CASE handleEraseAllSlotsApprove
  BY <1>8 DEF handleEraseAllSlotsApprove, Approved, CallbackInv
<1>9. CASE handleGetKeyAfterApprove
  BY <1>9 DEF handleGetKeyAfterApprove, Approved, SealOrFail, Stage
<1>10. CASE handleGetKeyFromNameAfterApprove
  BY <1>10 DEF handleGetKeyFromNameAfterApprove, Approved, SealOrFail, Stage
<1>11. CASE HoldReply \/ SendReply \/ SendAndReturn
  BY <1>11 DEF HoldReply, SendReply, SendAndReturn
<1>12. CASE touch_okay \/ touch_deny
  BY <1>12 DEF touch_okay, touch_deny, Stage
<1>13. CASE Launch \/ IoReset
  BY <1>13 DEF Launch, IoReset
<1>14. ASSUME NEW e \in IoExceptions, IoError(e) PROVE JobInv' /\ StorageInv'
  BY <1>14 DEF IoError, Stage
<1>15. CASE Quit \/ PowerLoss \/ TornKey \/ TornWipe
  BY <1>15 DEF Quit, PowerLoss, TornKey, TornWipe, ForgetRam
<1> QED
  BY <1>1, <1>2, <1>3, <1>4, <1>5, <1>6, <1>7, <1>8, <1>9, <1>10, <1>11, <1>12, <1>13,
     <1>14, <1>15 DEF Next, Device, User, Environment

\* Every step keeps whole keys in the valid slots: a slot becomes valid only
\* after its key has been written, and loses its key only with its validity.
LEMMA WholeKeysStep ==
  ASSUME TypeOK, CallbackInv, JobInv, StorageInv, WholeKeysInv, [Next]_vars
  PROVE  WholeKeysInv'
<1> USE DEF WholeKeysInv, ValidHoldsKey, nv
<1>1. ASSUME UNCHANGED <<keys, valids>>, pc' # "markValid"
      PROVE  WholeKeysInv'
  BY <1>1
<1>2. CASE UNCHANGED vars
  BY <1>2 DEF vars
<1>3. ASSUME NEW r \in Requests, handleApdu(r) PROVE WholeKeysInv'
  BY <1>1, <1>3, HandlerJob
<1>4. CASE Start
  BY <1>4 DEF Start, WipeStorage
<1>5. CASE WriteKey
  <2>1. /\ job.slot \in Slots /\ job.key \in Words
        /\ keys' = [keys EXCEPT ![job.slot] = job.key] /\ UNCHANGED <<valids, job>>
    BY <1>5 DEF WriteKey, TypeOK, JobInv
  <2>2. keys'[job.slot] = job.key /\ \A s \in Slots \ {job.slot} : keys'[s] = keys[s]
    BY <2>1 DEF TypeOK
  <2> QED
    BY <2>1, <2>2 DEF TypeOK
<1>6. CASE MarkValid
  <2>1. keys[job.slot] \in Words
    BY <1>6 DEF MarkValid, set_key_as_valid, JobInv
  <2> QED
    BY <1>6, <2>1 DEF MarkValid, set_key_as_valid, Stage
<1>7. CASE Wipe
  BY <1>7 DEF Wipe, WipeStorage, Stage
<1>8. CASE handleStoreKeyConfirmErase \/ handleEraseAllSlotsApprove
  BY <1>1, <1>8 DEF handleStoreKeyConfirmErase, handleEraseAllSlotsApprove, Approved
<1>9. CASE handleGetKeyAfterApprove
  BY <1>1, <1>9 DEF handleGetKeyAfterApprove, Approved, SealOrFail, Stage
<1>10. CASE handleGetKeyFromNameAfterApprove
  BY <1>1, <1>10 DEF handleGetKeyFromNameAfterApprove, Approved, SealOrFail, Stage
<1>11. CASE HoldReply \/ SendReply \/ SendAndReturn
  BY <1>1, <1>11 DEF HoldReply, SendReply, SendAndReturn
<1>12. CASE touch_okay \/ touch_deny
  BY <1>1, <1>12 DEF touch_okay, touch_deny, Stage
<1>13. CASE Launch \/ IoReset
  BY <1>1, <1>13 DEF Launch, IoReset
<1>14. ASSUME NEW e \in IoExceptions, IoError(e) PROVE WholeKeysInv'
  BY <1>1, <1>14 DEF IoError, Stage
<1>15. CASE Quit \/ PowerLoss
  BY <1>1, <1>15 DEF Quit, PowerLoss, ForgetRam
<1>16. CASE TornKey \/ TornWipe
  BY <1>16 DEF TornKey, TornWipe, ForgetRam
<1> QED
  BY <1>2, <1>3, <1>4, <1>5, <1>6, <1>7, <1>8, <1>9, <1>10, <1>11, <1>12, <1>13,
     <1>14, <1>15, <1>16 DEF Next, Device, User, Environment
-----------------------------------------------------------------------------
(* Replies *)

\* What a handler leaves behind: a reply to send at once, which is success only
\* if the command is done and holds no key; or the command put to the user; or
\* a storeKeySlot to run.
LEMMA HandlerServing ==
  ASSUME NEW r \in Requests, handleApdu(r)
  PROVE  /\ serving' = r /\ UNCHANGED <<keys, valids>>
         /\ \/ /\ pc' = "reply" /\ asynch' = FALSE
               /\ rapdu'.data.kind # "sealed"
               /\ rapdu'.sw = KPL_SW_SUCCESS => Done(r, rapdu'.data)
            \/ /\ pc' = "reply" /\ asynch' = TRUE /\ screen' = "approval"
               /\ AskedFor(r)' /\ rapdu'.data.kind # "sealed"
            \/ /\ pc' = "storeKey" /\ r.ins = INS_STORE_KEY
               /\ job' = [slot |-> r.p1, key |-> r.head]
<1> USE DEF handleApdu, Receive, nv
<1>1. \A e \in {KPL_SW_UNKNOWN_INSTR, KPL_SW_INVALID_CLS, KPL_SW_EMPTY_SLOT,
                KPL_SW_INVALID_NAME, INVALID_PARAMETER} :
        Answer(e, NoData) =>
          /\ pc' = "reply" /\ asynch' = FALSE
          /\ rapdu'.data.kind # "sealed" /\ rapdu'.sw # KPL_SW_SUCCESS
  <2> SUFFICES ASSUME NEW e \in {KPL_SW_UNKNOWN_INSTR, KPL_SW_INVALID_CLS, KPL_SW_EMPTY_SLOT,
                                 KPL_SW_INVALID_NAME, INVALID_PARAMETER},
                      Answer(e, NoData)
               PROVE  /\ pc' = "reply" /\ asynch' = FALSE
                      /\ rapdu'.data.kind # "sealed" /\ rapdu'.sw # KPL_SW_SUCCESS
    OBVIOUS
  <2>1. e \in SWs /\ e # KPL_SW_SUCCESS
    BY SWTypes
  <2>2. ToSW(e) # KPL_SW_SUCCESS
    BY <2>1, ToSWError
  <2> QED
    BY <2>2, ReplyKinds DEF Answer, Stage, Reply
<1>2. ASSUME NEW data, Answer(KPL_SW_SUCCESS, data)
      PROVE  pc' = "reply" /\ asynch' = FALSE /\ rapdu'.data = data
  BY <1>2 DEF Answer, Stage, Reply
<1>3. ASSUME NEW q, NEW c, ui_approval(q, c)
      PROVE  /\ pc' = "reply" /\ asynch' = TRUE /\ screen' = "approval" /\ cb' = c
             /\ rapdu'.data.kind # "sealed"
  BY <1>3, ReplyKinds DEF ui_approval, Stage, Reply
<1>4. CASE rejectApdu(r)
  BY <1>1, <1>4 DEF rejectApdu
<1>5. CASE handleGetAppConfiguration(r)
  BY <1>2, <1>5, ReplyKinds DEF handleGetAppConfiguration, Done
<1>6. CASE handleStoreKey(r)
  <2>1. CASE BadStoreKey(r)
    BY <1>1, <2>1 DEF BadStoreKey
  <2>2. CASE AskToErase(r)
    BY <1>3, <1>6, <2>2 DEF handleStoreKey, AskToErase, AskedFor
  <2>3. CASE StoreAtOnce(r)
    BY <1>6, <2>3 DEF handleStoreKey, StoreAtOnce
  <2> QED
    BY <1>6, <2>1, <2>2, <2>3 DEF handleStoreKey
<1>7. CASE handleGetKey(r)
  <2>1. CASE BadGetKey(r) \/ GetEmptySlot(r)
    BY <1>1, <2>1 DEF BadGetKey, GetEmptySlot
  <2>2. CASE AskToOpenSlot(r)
    BY <1>3, <1>7, <2>2 DEF handleGetKey, AskToOpenSlot, AskedFor
  <2> QED
    BY <1>7, <2>1, <2>2 DEF handleGetKey
<1>8. CASE handleGetKeyFromName(r)
  <2>1. CASE BadNameLength(r) \/ BadName(r)
    BY <1>1, <2>1 DEF BadNameLength, BadName
  <2>2. CASE AskToOpenName(r)
    BY <1>3, <1>8, <2>2 DEF handleGetKeyFromName, AskToOpenName, AskedFor
  <2> QED
    BY <1>8, <2>1, <2>2 DEF handleGetKeyFromName
<1>9. CASE handleGetValidSlots(r)
  BY <1>2, <1>9, ReplyKinds
     DEF handleGetValidSlots, Done
<1>10. CASE handleEraseAllSlots(r)
  BY <1>3, <1>10 DEF handleEraseAllSlots, AskedFor
<1> QED
  BY <1>4, <1>5, <1>6, <1>7, <1>8, <1>9, <1>10

\* Every step keeps the command that waits together with the screen, the
\* arguments and the storeKeySlot that serve it.
LEMMA ServingStep ==
  ASSUME TypeOK, JobInv, ServingInv, [Next]_vars
  PROVE  ServingInv'
<1> USE DEF ServingInv, AskedFor, nv, ui, args
<1>1. CASE UNCHANGED vars
  BY <1>1 DEF vars
<1>2. ASSUME NEW r \in Requests, handleApdu(r) PROVE ServingInv'
  BY <1>2, HandlerServing
<1>3. CASE Start
  BY <1>3 DEF Start
<1>4. CASE WriteKey
  BY <1>4 DEF WriteKey
<1>5. CASE MarkValid
  BY <1>5 DEF MarkValid, set_key_as_valid, Stage, JobInv
<1>6. CASE Wipe
  BY <1>6 DEF Wipe, Stage, JobInv
<1>7. CASE handleStoreKeyConfirmErase
  BY <1>7 DEF handleStoreKeyConfirmErase, Approved
<1>8. CASE handleEraseAllSlotsApprove
  BY <1>8 DEF handleEraseAllSlotsApprove, Approved
<1>9. CASE handleGetKeyAfterApprove
  BY <1>9 DEF handleGetKeyAfterApprove, Approved, SealOrFail, Stage, JobInv
<1>10. CASE handleGetKeyFromNameAfterApprove
  BY <1>10 DEF handleGetKeyFromNameAfterApprove, Approved, SealOrFail, Stage, JobInv
<1>11. CASE HoldReply \/ SendReply \/ SendAndReturn
  BY <1>11 DEF HoldReply, SendReply, SendAndReturn
<1>12. CASE touch_okay \/ touch_deny
  BY <1>12 DEF touch_okay, touch_deny, Stage
<1>13. CASE Launch \/ IoReset
  BY <1>13 DEF Launch, IoReset
<1>14. ASSUME NEW e \in IoExceptions, IoError(e) PROVE ServingInv'
  BY <1>14 DEF IoError, Stage
<1>15. CASE Quit \/ PowerLoss \/ TornKey \/ TornWipe
  BY <1>15 DEF Quit, PowerLoss, TornKey, TornWipe, ForgetRam
<1> QED
  BY <1>1, <1>2, <1>3, <1>4, <1>5, <1>6, <1>7, <1>8, <1>9, <1>10, <1>11, <1>12, <1>13,
     <1>14, <1>15 DEF Next, Device, User, Environment

\* A reply with a key is staged only by the two callbacks that open a key, for
\* the slot or the name on the screen.
LEMMA DisclosureStep ==
  ASSUME TypeOK, CallbackInv, JobInv, DisclosureApproved, [Next]_vars
  PROVE  DisclosureApproved'
<1> USE DEF DisclosureApproved, nv, ui
<1>1. ASSUME pc' # "reply" \/ rapdu'.data.kind # "sealed" PROVE DisclosureApproved'
  BY <1>1
<1>2. CASE UNCHANGED vars
  BY <1>2 DEF vars
<1>3. ASSUME NEW r \in Requests, handleApdu(r) PROVE DisclosureApproved'
  BY <1>1, <1>3, HandlerServing
<1>4. ASSUME NEW sw, Stage(sw, NoData) PROVE DisclosureApproved'
  BY <1>1, <1>4, ReplyKinds DEF Stage, Reply
<1>5. CASE Start \/ WriteKey \/ HoldReply \/ SendReply \/ SendAndReturn
  BY <1>1, <1>5 DEF Start, WriteKey, HoldReply, SendReply, SendAndReturn
<1>6. CASE MarkValid \/ Wipe
  BY <1>4, <1>6 DEF MarkValid, set_key_as_valid, Wipe
<1>7. CASE handleStoreKeyConfirmErase \/ handleEraseAllSlotsApprove
  BY <1>1, <1>7 DEF handleStoreKeyConfirmErase, handleEraseAllSlotsApprove
<1>8. CASE handleGetKeyAfterApprove
  <2>1. CASE Stage(KPL_SW_SUCCESS, SealedData(keys[getArgs.slot], getArgs.pub))
    <3>1. rapdu'.data.key = keys[getArgs.slot]
      BY <2>1, ReplyKinds DEF Stage, Reply
    <3>2. inCb /\ getArgs.slot \in valids /\ lines = OpenSlot(getArgs.slot)
      BY <1>8 DEF handleGetKeyAfterApprove, Approved, CallbackInv, Pending, JobInv
    <3> QED
      BY <1>8, <3>1, <3>2 DEF handleGetKeyAfterApprove, Approved
  <2> QED
    BY <1>4, <1>8, <2>1 DEF handleGetKeyAfterApprove, SealOrFail
<1>9. CASE handleGetKeyFromNameAfterApprove
  <2>1. CASE Stage(KPL_SW_SUCCESS, SealedData(NameKey[nameArgs.name], nameArgs.pub))
    <3>1. rapdu'.data.key = NameKey[nameArgs.name]
      BY <2>1, ReplyKinds DEF Stage, Reply
    <3>2. inCb /\ nameArgs.name \in Names /\ lines = OpenName(nameArgs.name)
      BY <1>9 DEF handleGetKeyFromNameAfterApprove, Approved, CallbackInv, JobInv
    <3> QED
      BY <1>9, <3>1, <3>2 DEF handleGetKeyFromNameAfterApprove, Approved
  <2> QED
    BY <1>4, <1>9, <2>1 DEF handleGetKeyFromNameAfterApprove, SealOrFail
<1>10. CASE touch_okay
  BY <1>1, <1>10 DEF touch_okay
<1>11. CASE touch_deny
  BY <1>4, <1>11 DEF touch_deny
<1>12. CASE Launch \/ IoReset
  BY <1>1, <1>12 DEF Launch, IoReset
<1>13. ASSUME NEW e \in IoExceptions, IoError(e) PROVE DisclosureApproved'
  BY <1>4, <1>13 DEF IoError
<1>14. CASE Quit \/ PowerLoss \/ TornKey \/ TornWipe
  BY <1>1, <1>14 DEF Quit, PowerLoss, TornKey, TornWipe, ForgetRam
<1> QED
  BY <1>2, <1>3, <1>5, <1>6, <1>7, <1>8, <1>9, <1>10, <1>11, <1>12, <1>13, <1>14
     DEF Next, Device, User, Environment

\* Success is staged for sending only when the command that waits is done.
LEMMA SuccessStep ==
  ASSUME TypeOK, CallbackInv, JobInv, WholeKeysInv, ServingInv, SuccessMeansDone, [Next]_vars
  PROVE  SuccessMeansDone'
<1> USE DEF SuccessMeansDone, Sending, nv, ui
<1>1. ASSUME pc' # "reply" \/ rapdu'.sw # KPL_SW_SUCCESS PROVE SuccessMeansDone'
  BY <1>1
<1>2. CASE UNCHANGED vars
  BY <1>2 DEF vars, Done
<1>3. ASSUME NEW r \in Requests, handleApdu(r) PROVE SuccessMeansDone'
  <2>1. ~inCb'
    BY <1>3, HandlerJob DEF JobInv
  <2> QED
    BY <1>1, <1>3, <2>1, HandlerServing DEF Done
<1>4. ASSUME NEW sw \in SWs, sw # KPL_SW_SUCCESS, NEW data, Stage(sw, data)
      PROVE  SuccessMeansDone'
  BY <1>1, <1>4 DEF Stage, Reply
<1>5. CASE Start \/ WriteKey \/ HoldReply \/ SendReply \/ SendAndReturn
  BY <1>1, <1>5 DEF Start, WriteKey, HoldReply, SendReply, SendAndReturn
<1>6. CASE MarkValid
  BY <1>6 DEF MarkValid, set_key_as_valid, Stage, Reply, ServingInv, WholeKeysInv, Done
<1>7. CASE Wipe
  BY <1>7 DEF Wipe, WipeStorage, Stage, Reply, ServingInv, Done
<1>8. CASE handleStoreKeyConfirmErase \/ handleEraseAllSlotsApprove
  BY <1>1, <1>8 DEF handleStoreKeyConfirmErase, handleEraseAllSlotsApprove
<1>9. ToSW(INVALID_PARAMETER) # KPL_SW_SUCCESS /\ ToSW(INVALID_PARAMETER) \in SWs
  <2>1. INVALID_PARAMETER \in SWs /\ INVALID_PARAMETER # KPL_SW_SUCCESS
    BY SWTypes
  <2> QED
    BY <2>1, ToSWError, ToSWType
<1>10. CASE handleGetKeyAfterApprove
  <2>1. CASE Stage(KPL_SW_SUCCESS, SealedData(keys[getArgs.slot], getArgs.pub))
    <3>1. getArgs.slot \in valids
      BY <1>10 DEF handleGetKeyAfterApprove, Approved, CallbackInv, Pending
    <3>2. serving # NoReq =>
            /\ serving.ins = INS_GET_KEY
            /\ getArgs = [slot |-> serving.p1, pub |-> serving.head]
      BY <1>10 DEF handleGetKeyAfterApprove, Approved, ServingInv, AskedFor
    <3>3. serving # NoReq => Done(serving, SealedData(keys[getArgs.slot], getArgs.pub))
      BY <3>1, <3>2 DEF Done
    <3> QED
      BY <1>10, <2>1, <3>3 DEF handleGetKeyAfterApprove, Approved, Stage, Reply, Done
  <2> QED
    BY <1>4, <1>9, <1>10, <2>1 DEF handleGetKeyAfterApprove, SealOrFail
<1>11. CASE handleGetKeyFromNameAfterApprove
  <2>1. CASE Stage(KPL_SW_SUCCESS, SealedData(NameKey[nameArgs.name], nameArgs.pub))
    <3>1. serving # NoReq =>
            /\ serving.ins = INS_GET_KEY_FROM_NAME
            /\ nameArgs = [name |-> serving.tail, pub |-> serving.head]
      BY <1>11 DEF handleGetKeyFromNameAfterApprove, Approved, ServingInv, AskedFor
    <3>2. serving # NoReq => Done(serving, SealedData(NameKey[nameArgs.name], nameArgs.pub))
      BY <3>1 DEF Done
    <3> QED
      BY <1>11, <2>1, <3>2 DEF handleGetKeyFromNameAfterApprove, Approved, Stage, Reply, Done
  <2>2. EXCEPTION_SECURITY \in SWs /\ EXCEPTION_SECURITY # KPL_SW_SUCCESS
    BY SWTypes
  <2>3. ToSW(EXCEPTION_SECURITY) \in SWs /\ ToSW(EXCEPTION_SECURITY) # KPL_SW_SUCCESS
    BY <2>2, ToSWError, ToSWType
  <2> QED
    BY <1>4, <1>9, <1>11, <2>1, <2>3 DEF handleGetKeyFromNameAfterApprove, SealOrFail
<1>12. CASE touch_okay
  BY <1>1, <1>12 DEF touch_okay
<1>13. CASE touch_deny
  BY <1>4, <1>13, SWTypes DEF touch_deny
<1>14. CASE Launch \/ IoReset
  BY <1>1, <1>14 DEF Launch, IoReset
<1>15. ASSUME NEW e \in IoExceptions, IoError(e) PROVE SuccessMeansDone'
  <2>1. e \in SWs /\ e # KPL_SW_SUCCESS
    BY IoAssumption
  <2>2. ToSW(e) \in SWs /\ ToSW(e) # KPL_SW_SUCCESS
    BY <2>1, ToSWError, ToSWType
  <2> QED
    BY <1>4, <1>15, <2>2 DEF IoError
<1>16. CASE Quit \/ PowerLoss \/ TornKey \/ TornWipe
  BY <1>1, <1>16 DEF Quit, PowerLoss, TornKey, TornWipe, ForgetRam
<1> QED
  BY <1>2, <1>3, <1>5, <1>6, <1>7, <1>8, <1>10, <1>11, <1>12, <1>13, <1>14, <1>15, <1>16
     DEF Next, Device, User, Environment
-----------------------------------------------------------------------------
(* Theorems *)

\* The strengthened invariant holds initially and every step keeps it.
THEOREM Inductive == Spec => []IndInv
<1>1. Init => IndInv
  <2> SUFFICES ASSUME Init PROVE IndInv
    OBVIOUS
  <2>1. TypeOK
    BY RestTypes, SlotZero DEF Init, TypeOK, PcValues, Cells
  <2>2. CallbackInv /\ JobInv /\ StorageInv /\ WholeKeysInv /\ ServingInv
    BY DEF Init, CallbackInv, Pending, JobInv, StorageInv, WholeKeysInv, ValidHoldsKey,
           ServingInv
  <2>3. DisclosureApproved /\ SuccessMeansDone
    BY DEF Init, DisclosureApproved, SuccessMeansDone, Sending
  <2> QED
    BY <2>1, <2>2, <2>3 DEF IndInv
<1>2. IndInv /\ [Next]_vars => IndInv'
  BY TypeStep, CallbackStep, JobStep, WholeKeysStep, ServingStep, DisclosureStep, SuccessStep
     DEF IndInv
<1> QED
  BY <1>1, <1>2, PTL DEF Spec

\* Type correctness, for every set of commands the host sends.
THEOREM TypeCorrect == Spec => []TypeOK
<1>1. IndInv => TypeOK
  BY DEF IndInv
<1> QED
  BY <1>1, Inductive, PTL

\* What the user reads on the approval screen is what OK does, in spite of
\* commands, transport errors, resets and power losses in between.
THEOREM ScreenTellsTheTruth == Spec => []ConsentInv
<1>1. IndInv => ConsentInv
  BY DEF IndInv, CallbackInv, ConsentInv, PendingEffect, Pending, JobInv, TypeOK, Callbacks
<1> QED
  BY <1>1, Inductive, PTL

\* The asserts that a release build leaves out would hold.
THEOREM AssertsHold == Spec => []ApprovedSlotValid
<1>1. IndInv => ApprovedSlotValid
  BY DEF IndInv, CallbackInv, ApprovedSlotValid, Pending
<1> QED
  BY <1>1, Inductive, PTL

\* A key leaves the device only after an OK that named its slot or name.
THEOREM KeysNeedConsent == Spec => []DisclosureApproved
<1>1. IndInv => DisclosureApproved
  BY DEF IndInv
<1> QED
  BY <1>1, Inductive, PTL

\* Success is reported only for what has been done.
THEOREM SuccessIsTrue == Spec => []SuccessMeansDone
<1>1. IndInv => SuccessMeansDone
  BY DEF IndInv
<1> QED
  BY <1>1, Inductive, PTL

\* With whole flash writes a valid slot always holds a stored key.
THEOREM ValidSlotsWhole ==
  ASSUME AtomicNvm
  PROVE  Spec => []ValidHoldsKey
<1>1. IndInv => ValidHoldsKey
  BY DEF IndInv, WholeKeysInv
<1> QED
  BY <1>1, Inductive, PTL

\* A stored key changes, or a slot is emptied, only below the approved screen
\* that says so, even where power losses tear flash writes.
THEOREM StoredKeysKept == Spec => KeptUnlessApproved
<1>1. IndInv /\ [Next]_vars => [Kept]_vars
  <2> SUFFICES ASSUME IndInv, Next PROVE Kept
    BY DEF vars, Kept
  <2> USE DEF IndInv, Kept, nv
  <2>1. ASSUME UNCHANGED <<keys, valids>> PROVE Kept
    BY <2>1
  <2>2. ASSUME NEW r \in Requests, handleApdu(r) PROVE Kept
    BY <2>1, <2>2, HandlerJob
  <2>3. CASE Start
    BY <2>3 DEF Start, WipeStorage, StorageInv
  <2>4. CASE WriteKey
    BY <2>4 DEF WriteKey, TypeOK, JobInv
  <2>5. CASE MarkValid
    BY <2>5 DEF MarkValid, set_key_as_valid
  <2>6. CASE Wipe
    BY <2>6 DEF Wipe, JobInv
  <2>7. CASE handleStoreKeyConfirmErase \/ handleEraseAllSlotsApprove
             \/ handleGetKeyAfterApprove \/ handleGetKeyFromNameAfterApprove
    BY <2>1, <2>7
       DEF handleStoreKeyConfirmErase, handleEraseAllSlotsApprove,
           handleGetKeyAfterApprove, handleGetKeyFromNameAfterApprove, Approved
  <2>8. CASE HoldReply \/ SendReply \/ SendAndReturn \/ User
    BY <2>1, <2>8 DEF HoldReply, SendReply, SendAndReturn, User, touch_okay, touch_deny
  <2>9. CASE Launch \/ IoReset \/ Quit \/ PowerLoss
    BY <2>1, <2>9 DEF Launch, IoReset, Quit, PowerLoss
  <2>10. ASSUME NEW e \in IoExceptions, IoError(e) PROVE Kept
    BY <2>1, <2>10 DEF IoError
  <2>11. CASE TornKey
    BY <2>11 DEF TornKey, TypeOK, JobInv
  <2>12. CASE TornWipe
    BY <2>12 DEF TornWipe, JobInv
  <2> QED
    BY <2>2, <2>3, <2>4, <2>5, <2>6, <2>7, <2>8, <2>9, <2>10, <2>11, <2>12
       DEF Next, Device, Environment
<1> QED
  BY <1>1, Inductive, PTL DEF Spec, KeptUnlessApproved
-----------------------------------------------------------------------------
(* Questions and commands, when io_exchange does not fail *)

\* A handler that asks keeps its command waiting, one that answers found no
\* question on the screen: the SDK hands over a command only when none waits.
LEMMA HandlerQuestion ==
  ASSUME QuestionInv, NEW r \in Requests, handleApdu(r)
  PROVE  QuestionInv'
<1> USE DEF QuestionInv, handleApdu, Receive, ui
<1>1. screen # "approval" /\ serving' # NoReq
  BY CommandType
<1>2. \A q, c : ui_approval(q, c) => pc' = "reply" /\ asynch'
  BY DEF ui_approval, Stage
<1>3. screen' = screen \/ \E q, c : ui_approval(q, c)
  BY DEF rejectApdu, handleGetAppConfiguration, handleStoreKey, BadStoreKey, AskToErase,
         StoreAtOnce, handleGetKey, BadGetKey, GetEmptySlot, AskToOpenSlot,
         handleGetKeyFromName, BadNameLength, BadName, AskToOpenName,
         handleGetValidSlots, handleEraseAllSlots
<1> QED
  BY <1>1, <1>2, <1>3

\* A step that is not a failure of io_exchange.
Undisturbed ==
  \/ Device \/ User \/ Launch \/ Quit \/ IoReset \/ PowerLoss \/ TornKey \/ TornWipe
  \/ \E r \in Requests : handleApdu(r)

LEMMA QuestionStep ==
  ASSUME JobInv, QuestionInv, Undisturbed \/ UNCHANGED vars
  PROVE  QuestionInv'
<1> USE DEF QuestionInv, JobInv, nv, ui, args
<1>1. CASE UNCHANGED vars
  BY <1>1 DEF vars
<1>2. ASSUME NEW r \in Requests, handleApdu(r) PROVE QuestionInv'
  BY <1>2, HandlerQuestion
<1>3. CASE Start
  BY <1>3 DEF Start, ui_idle
<1>4. CASE WriteKey \/ MarkValid \/ Wipe
  BY <1>4 DEF WriteKey, MarkValid, Wipe, Stage
<1>5. CASE handleStoreKeyConfirmErase \/ handleEraseAllSlotsApprove
  BY <1>5 DEF handleStoreKeyConfirmErase, handleEraseAllSlotsApprove, Approved
<1>6. CASE handleGetKeyAfterApprove \/ handleGetKeyFromNameAfterApprove
  BY <1>6 DEF handleGetKeyAfterApprove, handleGetKeyFromNameAfterApprove, Approved,
              SealOrFail, Stage, ui_idle
<1>7. CASE HoldReply \/ SendReply \/ SendAndReturn
  BY <1>7 DEF HoldReply, SendReply, SendAndReturn, ui_idle
<1>8. CASE touch_okay \/ touch_deny
  BY <1>8 DEF touch_okay, touch_deny, Stage
<1>9. CASE Launch \/ IoReset
  BY <1>9 DEF Launch, IoReset
<1>10. CASE Quit \/ PowerLoss \/ TornKey \/ TornWipe
  BY <1>10 DEF Quit, PowerLoss, TornKey, TornWipe, ForgetRam
<1> QED
  BY <1>1, <1>2, <1>3, <1>4, <1>5, <1>6, <1>7, <1>8, <1>9, <1>10
     DEF Undisturbed, Device, User

\* The arguments kept for a command are those of the question on the screen.
LEMMA AskedQuestion ==
  ASSUME CallbackInv, Pending, NEW r, AskedFor(r)
  PROVE  lines = QuestionOf(r)
  BY DEF CallbackInv, AskedFor, QuestionOf, INS_STORE_KEY, INS_GET_KEY,
         INS_GET_KEY_FROM_NAME, INS_ERASE_ALL_SLOTS

\* The question on the screen is that of the command that waits for a reply, and
\* nobody waits without one, as long as io_exchange does not fail (app_main's
\* flags, the callbacks of approve.c, the resets of main).
THEOREM QuestionMeansWaiting ==
  ASSUME IoExceptions = {}
  PROVE  Spec => []AskedIffWaiting
<1>1. Init => QuestionInv
  BY DEF Init, QuestionInv
<1>2. IndInv /\ QuestionInv /\ [Next]_vars => QuestionInv'
  BY QuestionStep DEF IndInv, Next, Environment, Undisturbed
<1>3. IndInv /\ QuestionInv => AskedIffWaiting
  <2> SUFFICES ASSUME IndInv, QuestionInv, pc = "wait"
               PROVE  /\ screen = "approval" <=> serving # NoReq
                      /\ serving # NoReq => lines = QuestionOf(serving)
    BY DEF AskedIffWaiting
  <2>1. serving # NoReq => screen = "approval" /\ AskedFor(serving)
    BY DEF IndInv, ServingInv
  <2>2. screen = "approval" => Pending
    BY DEF IndInv, JobInv, Pending
  <2> QED
    BY <2>1, <2>2, AskedQuestion DEF IndInv, QuestionInv
<1> QED
  BY <1>1, <1>2, <1>3, Inductive, PTL DEF Spec
-----------------------------------------------------------------------------
(* Refinement *)

\* KeyVault has its own copy of the questions.
LEMMA SameQuestions ==
  /\ Vault!Blank = Blank /\ Vault!EraseAll = EraseAll
  /\ \A s : Vault!EraseSlot(s) = EraseSlot(s) /\ Vault!OpenSlot(s) = OpenSlot(s)
  /\ \A n : Vault!OpenName(n) = OpenName(n)
  /\ Vault!Questions(Slots, Names) = Questions(Slots, Names)
  BY DEF Vault!Blank, Blank, Vault!EraseAll, EraseAll, Vault!EraseSlot, EraseSlot,
         Vault!OpenSlot, OpenSlot, Vault!OpenName, OpenName, Vault!Questions, Questions

\* Where consent and given say what they say.
LEMMA ConsentValue ==
  /\ ~inCb \/ pc \notin {"approved", "storeKey", "wipe"} => consent = Blank
  /\ inCb /\ pc \in {"approved", "storeKey", "wipe"} => consent = lines
  /\ pc # "reply" \/ rapdu.data.kind # "sealed" => given = Vault!Nothing
  BY DEF consent, given, Vault!Nothing

\* The same of the next state.
LEMMA ConsentValueNext ==
  /\ ~inCb' \/ pc' \notin {"approved", "storeKey", "wipe"} => consent' = Blank
  /\ inCb' /\ pc' \in {"approved", "storeKey", "wipe"} => consent' = lines'
  /\ pc' # "reply" \/ rapdu'.data.kind # "sealed" => given' = Vault!Nothing
  BY DEF consent, given, Vault!Nothing

\* A step that leaves the vault alone and drops consent and key is a Finish.
LEMMA VaultFinish ==
  ASSUME UNCHANGED <<keys, valids>>, consent' = Blank, given' = Vault!Nothing
  PROVE  Vault!Next
<1>1. vault' = vault
  BY DEF vault
<1> QED
  BY <1>1, SameQuestions DEF Vault!Next, Vault!Finish

\* Staging a reply without a key, or being anywhere else, hands out nothing.
LEMMA NothingStaged ==
  ASSUME NEW sw, Stage(sw, NoData)
  PROVE  pc' = "reply" /\ given' = Vault!Nothing
  BY ConsentValueNext, ReplyKinds DEF Stage, Reply

\* Staging a key hands it out.
LEMMA KeyStaged ==
  ASSUME NEW key, NEW pub, Stage(KPL_SW_SUCCESS, SealedData(key, pub))
  PROVE  pc' = "reply" /\ given' = Vault!Sealed(key, pub)
<1>1. pc' = "reply" /\ rapdu'.data = SealedData(key, pub)
  BY DEF Stage, Reply
<1>2. /\ rapdu'.data.kind = "sealed"
      /\ rapdu'.data.key = key /\ rapdu'.data.pub = pub
  BY <1>1, ReplyKinds
<1> QED
  BY <1>1, <1>2 DEF given, Vault!Sealed

\* Every step of the app is a step of KeyVault, or a stutter.
LEMMA VaultStep ==
  ASSUME AtomicNvm, IndInv, [Next]_vars
  PROVE  [Vault!Next]_(Vault!vars)
<1> USE DEF IndInv, nv, ui
<1>1. CASE UNCHANGED vars
  BY <1>1 DEF vars, consent, given, vault, Vault!vars
<1>2. ASSUME NEW r \in Requests, handleApdu(r) PROVE Vault!Next
  <2>1. given' = Vault!Nothing
    BY <1>2, HandlerServing, HandlerJob, ConsentValueNext
  <2>2. ~inCb'
    BY <1>2, HandlerJob DEF JobInv
  <2> QED
    BY <1>2, <2>1, <2>2, HandlerJob, VaultFinish, ConsentValueNext
<1>3. CASE Start
  <2>1. vault' = vault
    BY <1>3 DEF Start, WipeStorage, StorageInv, vault
  <2>2. consent' = Blank /\ given' = Vault!Nothing
    BY <1>3, ConsentValueNext DEF Start
  <2> QED
    BY <2>1, <2>2, SameQuestions DEF Vault!Next, Vault!Finish
<1>4. CASE WriteKey
  <2> DEFINE s == job.slot
  <2>1. /\ s \in Slots /\ job.key \in Words
        /\ keys' = [keys EXCEPT ![s] = job.key] /\ valids' = valids
        /\ pc = "storeKey" /\ pc' = "markValid" /\ inCb' = inCb
    BY <1>4 DEF WriteKey, TypeOK, JobInv
  <2>2. consent' = Blank /\ given' = Vault!Nothing /\ given = Vault!Nothing
    BY <2>1, ConsentValue, ConsentValueNext
  <2>3. CASE inCb
    <3>1. consent = EraseSlot(s) /\ s \in valids
      BY <2>1, <2>3, ConsentValue DEF JobInv
    <3>2. vault[s] # ZeroWord
      BY <2>1, <3>1, WordAssumption DEF vault, WholeKeysInv, ValidHoldsKey
    <3>3. vault' = [vault EXCEPT ![s] = job.key]
      BY <2>1, <3>1 DEF vault, TypeOK
    <3>4. Vault!Overwrite(s, job.key)
      BY <2>2, <3>1, <3>2, <3>3, SameQuestions DEF Vault!Overwrite
    <3> QED
      BY <2>1, <3>4 DEF Vault!Next
  <2>4. CASE ~inCb
    <3>1. s \notin valids
      BY <2>1, <2>4 DEF JobInv
    <3>2. vault' = vault
      BY <2>1, <3>1 DEF vault, TypeOK
    <3> QED
      BY <2>2, <3>2, SameQuestions DEF Vault!Next, Vault!Finish
  <2> QED
    BY <2>3, <2>4
<1>5. CASE MarkValid
  <2> DEFINE s == job.slot
  <2>1. /\ s \in Slots /\ job.key \in Words /\ keys[s] = job.key
        /\ keys' = keys /\ valids' = valids \cup {s} /\ pc = "markValid"
    BY <1>5 DEF MarkValid, set_key_as_valid, TypeOK, JobInv, WholeKeysInv
  <2>2. consent = Blank /\ given = Vault!Nothing
    BY <2>1, ConsentValue
  <2>3. consent' = Blank /\ given' = Vault!Nothing
    BY <1>5, NothingStaged, ConsentValueNext DEF MarkValid, set_key_as_valid
  <2>4. CASE s \in valids
    <3>1. vault' = vault
      BY <2>1, <2>4 DEF vault
    <3> QED
      BY <2>3, <3>1, SameQuestions DEF Vault!Next, Vault!Finish
  <2>5. CASE s \notin valids
    <3>1. vault[s] = ZeroWord
      BY <2>1, <2>5 DEF vault
    <3>2. vault' = [vault EXCEPT ![s] = job.key]
      BY <2>1 DEF vault
    <3>3. Vault!Put(s, job.key)
      BY <2>2, <2>3, <3>1, <3>2 DEF Vault!Put
    <3> QED
      BY <2>1, <3>3 DEF Vault!Next
  <2> QED
    BY <2>4, <2>5
<1>6. CASE Wipe
  <2>1. consent = EraseAll /\ given = Vault!Nothing
    BY <1>6, ConsentValue DEF Wipe, JobInv
  <2>2. consent' = Blank /\ given' = Vault!Nothing
    BY <1>6, NothingStaged, ConsentValueNext DEF Wipe
  <2>3. vault' = [s \in Slots |-> ZeroWord]
    BY <1>6 DEF Wipe, WipeStorage, vault
  <2> QED
    BY <2>1, <2>2, <2>3, SameQuestions DEF Vault!Next, Vault!Clear
<1>7. CASE handleStoreKeyConfirmErase \/ handleEraseAllSlotsApprove
  <2>1. pc = "approved" /\ inCb /\ inCb' /\ pc' \in {"storeKey", "wipe"}
        /\ UNCHANGED <<keys, valids, lines>>
    BY <1>7 DEF handleStoreKeyConfirmErase, handleEraseAllSlotsApprove, Approved, JobInv
  <2>2. vault' = vault
    BY <2>1 DEF vault
  <2> QED
    BY <2>1, <2>2, ConsentValue, ConsentValueNext DEF Vault!vars
<1>8. CASE handleGetKeyAfterApprove
  <2> DEFINE s == getArgs.slot
             pub == getArgs.pub
  <2>1. /\ s \in valids /\ s \in Slots /\ pub \in Words
        /\ consent = OpenSlot(s) /\ given = Vault!Nothing
    BY <1>8, ConsentValue
       DEF handleGetKeyAfterApprove, Approved, CallbackInv, Pending, JobInv, TypeOK
  <2>2. vault' = vault /\ vault[s] = keys[s] /\ vault[s] # ZeroWord
    BY <1>8, <2>1, WordAssumption
       DEF handleGetKeyAfterApprove, Approved, vault, WholeKeysInv, ValidHoldsKey
  <2>3. CASE Stage(KPL_SW_SUCCESS, SealedData(keys[s], pub))
    <3>1. given' = Vault!Sealed(keys[s], pub)
      BY <2>3, KeyStaged
    <3>2. consent' = Blank
      BY <2>3, ConsentValueNext DEF Stage
    <3>3. Vault!HandOut(s, pub)
      BY <2>1, <2>2, <3>1, <3>2, SameQuestions DEF Vault!HandOut
    <3> QED
      BY <2>1, <3>3 DEF Vault!Next
  <2>4. CASE Stage(ToSW(INVALID_PARAMETER), NoData)
    BY <1>8, <2>4, NothingStaged, VaultFinish, ConsentValueNext
       DEF handleGetKeyAfterApprove, Approved
  <2> QED
    BY <1>8, <2>3, <2>4 DEF handleGetKeyAfterApprove, SealOrFail
<1>9. CASE handleGetKeyFromNameAfterApprove
  <2> DEFINE n == nameArgs.name
             pub == nameArgs.pub
  <2>1. /\ n \in Names /\ pub \in Words
        /\ consent = OpenName(n) /\ given = Vault!Nothing
    BY <1>9, ConsentValue
       DEF handleGetKeyFromNameAfterApprove, Approved, CallbackInv, JobInv
  <2>2. UNCHANGED <<keys, valids>> /\ vault' = vault
    BY <1>9 DEF handleGetKeyFromNameAfterApprove, Approved, vault
  <2>3. CASE Stage(KPL_SW_SUCCESS, SealedData(NameKey[n], pub))
    <3>1. given' = Vault!Sealed(NameKey[n], pub)
      BY <2>3, KeyStaged
    <3>2. consent' = Blank
      BY <2>3, ConsentValueNext DEF Stage
    <3>3. Vault!Derive(n, pub)
      BY <2>1, <2>2, <3>1, <3>2, SameQuestions DEF Vault!Derive
    <3> QED
      BY <2>1, <3>3 DEF Vault!Next
  <2>4. ASSUME NEW sw, Stage(sw, NoData) PROVE Vault!Next
    BY <2>2, <2>4, NothingStaged, VaultFinish, ConsentValueNext
  <2> QED
    BY <1>9, <2>3, <2>4 DEF handleGetKeyFromNameAfterApprove, SealOrFail
<1>10. CASE HoldReply \/ SendReply \/ SendAndReturn
  BY <1>10, VaultFinish, ConsentValueNext DEF HoldReply, SendReply, SendAndReturn
<1>11. CASE touch_okay
  <2>1. lines \in Questions(Slots, Names)
    BY <1>11, QuestionType
       DEF touch_okay, CallbackInv, Pending, JobInv, TypeOK, Callbacks
  <2>2. consent = Blank /\ given = Vault!Nothing
    BY <1>11, ConsentValue DEF touch_okay
  <2>3. consent' = lines /\ given' = Vault!Nothing
    BY <1>11, ConsentValueNext DEF touch_okay
  <2>4. vault' = vault
    BY <1>11 DEF touch_okay, vault
  <2>5. Vault!Agree(lines)
    BY <2>2, <2>3, <2>4, SameQuestions DEF Vault!Agree
  <2> QED
    BY <2>1, <2>5, SameQuestions DEF Vault!Next
<1>12. CASE touch_deny
  BY <1>12, NothingStaged, VaultFinish, ConsentValueNext DEF touch_deny
<1>13. ASSUME NEW e \in IoExceptions, IoError(e) PROVE Vault!Next
  BY <1>13, NothingStaged, VaultFinish, ConsentValueNext DEF IoError
<1>14. CASE Launch \/ IoReset
  BY <1>14, VaultFinish, ConsentValueNext DEF Launch, IoReset
<1>15. CASE Quit \/ PowerLoss
  BY <1>15, VaultFinish, ConsentValueNext DEF Quit, PowerLoss, ForgetRam
<1>16. CASE TornKey \/ TornWipe
  BY <1>16 DEF TornKey, TornWipe
<1> QED
  BY <1>1, <1>2, <1>3, <1>4, <1>5, <1>6, <1>7, <1>8, <1>9, <1>10, <1>11, <1>12, <1>13,
     <1>14, <1>15, <1>16 DEF Next, Device, User, Environment

\* The app implements KeyVault, where a flash write is not torn.
THEOREM AppKeepsVault ==
  ASSUME AtomicNvm
  PROVE  Spec => RefinesKeyVault
<1>1. Init => Vault!Init
  BY SameQuestions DEF Init, Vault!Init, vault, consent, given, Vault!Nothing
<1>2. IndInv /\ [Next]_vars => [Vault!Next]_(Vault!vars)
  BY VaultStep
<1> QED
  BY <1>1, <1>2, Inductive, PTL DEF Spec, RefinesKeyVault, Vault!Spec
=============================================================================
