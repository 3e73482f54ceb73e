----------------------------- MODULE LedgerApp -----------------------------
(***************************************************************************)
(* The application that runs on the Ledger device (src/app/src): its       *)
(* command loop, the handlers of the six commands, the approval screen and *)
(* the key slots in flash memory.                                          *)
(*                                                                         *)
(* The app has one thread.  Buttons, the USB state and incoming commands   *)
(* are looked at only inside io_exchange, so a handler runs without        *)
(* interruption except by a loss of power, and every flash write is an     *)
(* action of its own: power may go between any two of them.                *)
(*                                                                         *)
(* io_exchange, nvm_write, the UX library and the cryptographic calls      *)
(* belong to the SDK.  They are modelled from how this code uses them:     *)
(* io_exchange sends the staged reply unless IO_ASYNCH_REPLY is set, then  *)
(* waits, dispatching events, until it has a command to return; it hands   *)
(* over no command while the previous one is unanswered.                   *)
(***************************************************************************)
EXTENDS Integers, Approvals

CONSTANTS
  SlotCount,    \* KPL_SLOT_COUNT
  Words,        \* the 32-byte strings that occur as keys and public keys
  ZeroWord,     \* 32 zero bytes
  TornWord,     \* what an interrupted 32-byte flash write leaves
  Names,        \* printable names of 1 to KPL_MAX_NAME_SIZE bytes
  BadNames,     \* names of that length with a byte is_name_valid rejects
  LongTails,    \* longer data
  NoTail,       \* no data after the first 32 bytes
  ShortHead,    \* fewer than 32 bytes of data
  NameKey,      \* the key the device derives from each name
  Requests,     \* the commands the host sends
  NoReq,        \* no command is waiting for its reply
  IoExceptions, \* what io_exchange may throw, EXCEPTION_IO_RESET aside, and
                \* the code app_main throws when io_exchange returns 0
  AtomicNvm     \* whether one nvm_write survives a power loss whole or not at all

Byte == 0..255
Slots == 0..(SlotCount - 1)
Cells == Words \cup {ZeroWord, TornWord}

(* enum AppInstrs *)
INS_GET_APP_CONFIGURATION == 0
INS_STORE_KEY == 1
INS_GET_KEY == 2
INS_GET_KEY_FROM_NAME == 3
INS_GET_VALID_SLOTS == 4
INS_ERASE_ALL_SLOTS == 5
INS_LAST == 6

CLA == 224

(* Status words as in app_errors.h and exception numbers of the SDK, each  *)
(* cut in its high and its low byte, the way a reply carries it.           *)
KPL_SW_SUCCESS == <<144, 0>>
KPL_SW_UNKNOWN_INSTR == <<109, 0>>
KPL_SW_INVALID_CLS == <<110, 0>>
KPL_SW_INVALID_PARAMETER == <<104, 2>>
KPL_SW_UNAUTHORIZED_ACCESS == <<104, 32>>
KPL_SW_EMPTY_SLOT == <<104, 33>>
KPL_SW_INVALID_NAME == <<104, 34>>
INVALID_PARAMETER == <<0, 2>>
EXCEPTION_SECURITY == <<0, 4>>
NoSW == <<0, 0>>
SWs == Byte \X Byte

\* A command.  Its data are cut at byte 32, where the handlers cut them: head
\* is the first 32 bytes, tail what follows.
Commands ==
  [cla : Byte, ins : Byte, p1 : Byte,
   head : Words \cup {ShortHead},
   tail : {NoTail} \cup Names \cup BadNames \cup LongTails]

\* The data of a reply: none, the version, the bitfield of valid slots, or a
\* key encrypted for a public key.
NoData == [kind |-> "none"]
VersionData == [kind |-> "version"]
SlotsData(bits) == [kind |-> "slots", slots |-> bits]
SealedData(key, pub) == [kind |-> "sealed", key |-> key, pub |-> pub]
Data ==
  {NoData, VersionData} \cup {SlotsData(b) : b \in SUBSET Slots}
    \cup {SealedData(k, p) : k \in Cells, p \in Words \cup {ZeroWord}}

Reply(sw, data) == [sw |-> sw, data |-> data]
NoReply == Reply(NoSW, NoData)

ASSUME SlotCountAssumption == SlotCount \in 1..8
ASSUME WordAssumption ==
  /\ ZeroWord \notin Words /\ TornWord \notin Words /\ ZeroWord # TornWord
  /\ ShortHead \notin Words
ASSUME NameAssumption ==
  /\ NoTail \notin Names /\ Names \cap (BadNames \cup LongTails) = {}
  /\ BadNames \cap LongTails = {} /\ NoTail \notin BadNames \cup LongTails
  /\ NameKey \in [Names -> Words]
ASSUME RequestAssumption == Requests \subseteq Commands /\ NoReq \notin Requests
ASSUME IoAssumption == IoExceptions \subseteq SWs /\ KPL_SW_SUCCESS \notin IoExceptions
ASSUME NvmAssumption == AtomicNvm \in BOOLEAN

VARIABLES
  keys,        \* N_storage.keys
  valids,      \* N_storage.key_valids, as the set of the bits that are 1
  initialized, \* N_storage.initialized = 1
  pc,          \* where the thread is
  inCb,        \* inside touch_okay or touch_deny, below io_exchange
  job,         \* the arguments of the running storeKeySlot
  asynch,      \* IO_ASYNCH_REPLY is set in app_main's flags
  screen,      \* the screen shown
  lines,       \* ApproveLine1 and ApproveLine2
  cb,          \* approve_cb_
  eraseArgs,   \* handleStoreKeyConfirmEraseArgs_
  getArgs,     \* GetKeyAfterApproveArgs_
  nameArgs,    \* GetKeyFromNameArgs_
  rapdu,       \* the reply staged in G_io_apdu_buffer
  serving      \* the SDK's state: the command that has no reply yet, or NoReq

nv == <<keys, valids, initialized>>
args == <<eraseArgs, getArgs, nameArgs>>
ui == <<screen, lines, cb>>
vars == <<nv, pc, inCb, job, asynch, ui, args, rapdu, serving>>

NoJob == [slot |-> 0, key |-> ZeroWord]
NoGet == [slot |-> 0, pub |-> ZeroWord]
NoName == [name |-> NoTail, pub |-> ZeroWord]
Callbacks == {"handleStoreKeyConfirmErase", "handleGetKeyAfterApprove",
              "handleGetKeyFromNameAfterApprove", "handleEraseAllSlotsApprove"}
PcValues == {"off", "main", "wait", "storeKey", "markValid", "approved", "wipe", "reply"}

TypeOK ==
  /\ keys \in [Slots -> Cells]
  /\ valids \in SUBSET Slots
  /\ initialized \in BOOLEAN
  /\ pc \in PcValues
  /\ inCb \in BOOLEAN
  /\ job \in [slot : Slots, key : Words \cup {ZeroWord}]
  /\ asynch \in BOOLEAN
  /\ screen \in {"off", "idle", "approval"}
  /\ lines \in Questions(Slots, Names) \cup {Blank}
  /\ cb \in Callbacks \cup {"NULL"}
  /\ eraseArgs \in [slot : Slots, key : Words \cup {ZeroWord}]
  /\ getArgs \in [slot : Slots, pub : Words \cup {ZeroWord}]
  /\ nameArgs \in [name : Names \cup {NoTail}, pub : Words \cup {ZeroWord}]
  /\ rapdu \in [sw : SWs, data : Data]
  /\ serving \in Requests \cup {NoReq}
-----------------------------------------------------------------------------
(* A reply.  ToSW is the switch that makes a status word of what was       *)
(* thrown, or returned and then thrown.                                    *)

\* e itself if e & 0xF000 is 0x6000 or 0x9000, else 0x6800 | (e & 0x7FF).
ToSW(e) ==
  IF (e[1] \div 16) \in {6, 9} THEN e ELSE <<104 + (e[1] % 8), e[2]>>

Stage(sw, data) ==
  /\ pc' = "reply"
  /\ rapdu' = Reply(sw, data)

ui_idle == screen' = "idle"

(* The command loop *)

\* io_exchange returns a command; app_main clears its flags.
Receive(r) ==
  /\ pc = "wait"
  /\ serving = NoReq
  /\ r \in Requests
  /\ serving' = r

Answer(ret, data) ==
  /\ Stage(ToSW(ret), data)
  /\ asynch' = FALSE

\* Mutant: a caller that forgets IO_ASYNCH_REPLY.
AskWithoutFlag(question, callback) ==
  /\ screen' = "approval"
  /\ lines' = question
  /\ cb' = callback
  /\ Answer(KPL_SW_SUCCESS, NoData)

\* Mutant: the question is prepared and never displayed.
AskWithoutScreen(question, callback) ==
  /\ lines' = question
  /\ cb' = callback
  /\ asynch' = TRUE
  /\ Stage(KPL_SW_SUCCESS, NoData)
  /\ UNCHANGED screen

\* ui_approval, followed in each of its callers by the request not to reply yet.
ui_approval(question, callback) ==
  /\ screen' = "approval"
  /\ lines' = question
  /\ cb' = callback
  /\ asynch' = TRUE
  /\ Stage(KPL_SW_SUCCESS, NoData)

Has32Bytes(r) == r.head \in Words /\ r.tail = NoTail

\* handleApdu, when it calls no handler.
rejectApdu(r) ==
  /\ r.cla # CLA \/ r.ins >= INS_LAST
  /\ Answer(IF r.cla # CLA THEN KPL_SW_INVALID_CLS ELSE KPL_SW_UNKNOWN_INSTR, NoData)
  /\ UNCHANGED <<job, ui, args>>

handleGetAppConfiguration(r) ==
  /\ r.cla = CLA /\ r.ins = INS_GET_APP_CONFIGURATION
  /\ Answer(KPL_SW_SUCCESS, VersionData)
  /\ UNCHANGED <<job, ui, args>>

BadStoreKey(r) ==
  /\ ~(r.p1 < SlotCount /\ Has32Bytes(r))
  /\ Answer(INVALID_PARAMETER, NoData)
  /\ UNCHANGED <<job, ui, args>>

AskToErase(r) ==
  /\ r.p1 < SlotCount /\ Has32Bytes(r) /\ r.p1 \in valids
  /\ eraseArgs' = [slot |-> r.p1, key |-> r.head]
  /\ ui_approval(EraseSlot(r.p1), "handleStoreKeyConfirmErase")
  /\ UNCHANGED <<job, getArgs, nameArgs>>

\* Mutant: is_key_valid is not asked.
StoreUnasked(r) ==
  /\ r.p1 < SlotCount /\ Has32Bytes(r)
  /\ job' = [slot |-> r.p1, key |-> r.head]
  /\ pc' = "storeKey"
  /\ asynch' = FALSE
  /\ UNCHANGED <<ui, args, rapdu>>

StoreAtOnce(r) ==
  /\ r.p1 < SlotCount /\ Has32Bytes(r) /\ r.p1 \notin valids
  /\ job' = [slot |-> r.p1, key |-> r.head]
  /\ pc' = "storeKey"
  /\ asynch' = FALSE
  /\ UNCHANGED <<ui, args, rapdu>>

handleStoreKey(r) ==
  /\ r.cla = CLA /\ r.ins = INS_STORE_KEY
  /\ BadStoreKey(r) \/ AskToErase(r) \/ StoreAtOnce(r)

BadGetKey(r) ==
  /\ ~(r.p1 < SlotCount /\ Has32Bytes(r))
  /\ Answer(INVALID_PARAMETER, NoData)
  /\ UNCHANGED <<ui, args>>

GetEmptySlot(r) ==
  /\ r.p1 < SlotCount /\ Has32Bytes(r) /\ r.p1 \notin valids
  /\ Answer(KPL_SW_EMPTY_SLOT, NoData)
  /\ UNCHANGED <<ui, args>>

\* Mutant: is_key_valid is not asked.
AskToOpenAnySlot(r) ==
  /\ r.p1 < SlotCount /\ Has32Bytes(r)
  /\ getArgs' = [slot |-> r.p1, pub |-> r.head]
  /\ ui_approval(OpenSlot(r.p1), "handleGetKeyAfterApprove")
  /\ UNCHANGED <<eraseArgs, nameArgs>>

AskToOpenSlot(r) ==
  /\ r.p1 < SlotCount /\ Has32Bytes(r) /\ r.p1 \in valids
  /\ getArgs' = [slot |-> r.p1, pub |-> r.head]
  /\ ui_approval(OpenSlot(r.p1), "handleGetKeyAfterApprove")
  /\ UNCHANGED <<eraseArgs, nameArgs>>

handleGetKey(r) ==
  /\ r.cla = CLA /\ r.ins = INS_GET_KEY
  /\ BadGetKey(r) \/ GetEmptySlot(r) \/ AskToOpenSlot(r)
  /\ UNCHANGED job

BadNameLength(r) ==
  /\ ~(r.head \in Words /\ r.tail \in Names \cup BadNames)
  /\ Answer(INVALID_PARAMETER, NoData)
  /\ UNCHANGED <<ui, nameArgs>>

\* Mutant: the name, too, is copied before it is looked at.
BadNameKept(r) ==
  /\ r.head \in Words /\ r.tail \in BadNames
  /\ nameArgs' = [name |-> r.tail, pub |-> r.head]
  /\ Answer(KPL_SW_INVALID_NAME, NoData)
  /\ UNCHANGED ui

\* The public key is copied before the name is looked at.
BadName(r) ==
  /\ r.head \in Words /\ r.tail \in BadNames
  /\ nameArgs' = [nameArgs EXCEPT !.pub = r.head]
  /\ Answer(KPL_SW_INVALID_NAME, NoData)
  /\ UNCHANGED ui

AskToOpenName(r) ==
  /\ r.head \in Words /\ r.tail \in Names
  /\ nameArgs' = [name |-> r.tail, pub |-> r.head]
  /\ ui_approval(OpenName(r.tail), "handleGetKeyFromNameAfterApprove")

handleGetKeyFromName(r) ==
  /\ r.cla = CLA /\ r.ins = INS_GET_KEY_FROM_NAME
  /\ BadNameLength(r) \/ BadName(r) \/ AskToOpenName(r)
  /\ UNCHANGED <<job, eraseArgs, getArgs>>

handleGetValidSlots(r) ==
  /\ r.cla = CLA /\ r.ins = INS_GET_VALID_SLOTS
  /\ Answer(KPL_SW_SUCCESS, SlotsData(valids))
  /\ UNCHANGED <<job, ui, args>>

handleEraseAllSlots(r) ==
  /\ r.cla = CLA /\ r.ins = INS_ERASE_ALL_SLOTS
  /\ ui_approval(EraseAll, "handleEraseAllSlotsApprove")
  /\ UNCHANGED <<job, args>>

handleApdu(r) ==
  /\ Receive(r)
  /\ \/ rejectApdu(r)
     \/ handleGetAppConfiguration(r)
     \/ handleStoreKey(r)
     \/ handleGetKey(r)
     \/ handleGetKeyFromName(r)
     \/ handleGetValidSlots(r)
     \/ handleEraseAllSlots(r)
  /\ UNCHANGED <<nv, inCb>>
-----------------------------------------------------------------------------
(* Flash writes *)

\* storeKeySlot, first half: nvm_write of the key.
WriteKey ==
  /\ pc = "storeKey"
  /\ keys' = [keys EXCEPT ![job.slot] = job.key]
  /\ pc' = "markValid"
  /\ UNCHANGED <<valids, initialized, inCb, job, asynch, ui, args, rapdu, serving>>

\* Mutant: the mask is shifted one bit too far.
SetNextAsValid(slot) == valids' = valids \cup {slot + 1}

set_key_as_valid(slot) == valids' = valids \cup {slot}

\* storeKeySlot, second half: set_key_as_valid, then the copy of the key is
\* wiped, by handleStoreKeyConfirmErase in its arguments too.
MarkValid ==
  /\ pc = "markValid"
  /\ set_key_as_valid(job.slot)
  /\ job' = NoJob
  /\ eraseArgs' = IF inCb THEN NoJob ELSE eraseArgs
  /\ Stage(KPL_SW_SUCCESS, NoData)
  /\ UNCHANGED <<keys, initialized, inCb, asynch, ui, getArgs, nameArgs, serving>>

\* Mutant: key_valids keeps its bits.
WipeKeysOnly ==
  /\ keys' = [s \in Slots |-> ZeroWord]
  /\ initialized' = TRUE
  /\ UNCHANGED valids

\* nv_app_state_init, when it writes.
WipeStorage ==
  /\ keys' = [s \in Slots |-> ZeroWord]
  /\ valids' = {}
  /\ initialized' = TRUE

\* nv_app_state_init(true), in handleEraseAllSlotsApprove.
Wipe ==
  /\ pc = "wipe"
  /\ WipeStorage
  /\ Stage(KPL_SW_SUCCESS, NoData)
  /\ UNCHANGED <<inCb, job, asynch, ui, args, serving>>
-----------------------------------------------------------------------------
(* The approval screen.  Buttons are dispatched while io_exchange waits.   *)

\* touch_okay calls approve_cb_; the reply it stages is sent by SendAndReturn.
touch_okay ==
  /\ pc = "wait" /\ screen = "approval"
  /\ pc' = "approved"
  /\ inCb' = TRUE
  /\ UNCHANGED <<nv, job, asynch, ui, args, rapdu, serving>>

touch_deny ==
  /\ pc = "wait" /\ screen = "approval"
  /\ Stage(KPL_SW_UNAUTHORIZED_ACCESS, NoData)
  /\ inCb' = TRUE
  /\ UNCHANGED <<nv, job, asynch, ui, args, serving>>

Approved(callback) ==
  /\ pc = "approved"
  /\ cb = callback
  /\ UNCHANGED <<nv, inCb, asynch, lines, cb, args, serving>>

\* Mutant: the slot is read from the arguments of another command.
ConfirmEraseOfOtherSlot ==
  /\ Approved("handleStoreKeyConfirmErase")
  /\ job' = [eraseArgs EXCEPT !.slot = getArgs.slot]
  /\ pc' = "storeKey"
  /\ UNCHANGED <<screen, rapdu>>

handleStoreKeyConfirmErase ==
  /\ Approved("handleStoreKeyConfirmErase")
  /\ job' = eraseArgs
  /\ pc' = "storeKey"
  /\ UNCHANGED <<screen, rapdu>>

handleEraseAllSlotsApprove ==
  /\ Approved("handleEraseAllSlotsApprove")
  /\ pc' = "wipe"
  /\ UNCHANGED <<job, screen, rapdu>>

\* X25519EncryptKPKey: the curve multiplication of the SDK may fail, and the
\* menu is then shown before the reply is sent.
SealOrFail(key, pub) ==
  \/ Stage(KPL_SW_SUCCESS, SealedData(key, pub)) /\ UNCHANGED screen
  \/ Stage(ToSW(INVALID_PARAMETER), NoData) /\ ui_idle

\* Mutant: the slot is read from the arguments of another command.
GetKeyOfOtherSlot ==
  /\ Approved("handleGetKeyAfterApprove")
  /\ SealOrFail(keys[eraseArgs.slot], getArgs.pub)
  /\ UNCHANGED job

handleGetKeyAfterApprove ==
  /\ Approved("handleGetKeyAfterApprove")
  /\ SealOrFail(keys[getArgs.slot], getArgs.pub)
  /\ UNCHANGED job

\* os_perso_derive_node_bip32 may throw.
handleGetKeyFromNameAfterApprove ==
  /\ Approved("handleGetKeyFromNameAfterApprove")
  /\ \/ SealOrFail(NameKey[nameArgs.name], nameArgs.pub)
     \/ Stage(ToSW(EXCEPTION_SECURITY), NoData) /\ UNCHANGED screen
  /\ UNCHANGED job
-----------------------------------------------------------------------------
(* io_exchange with a staged reply *)

\* IO_ASYNCH_REPLY: the staged reply is not sent, io_exchange waits.
HoldReply ==
  /\ pc = "reply" /\ ~inCb /\ asynch
  /\ pc' = "wait"
  /\ rapdu' = NoReply
  /\ UNCHANGED <<nv, inCb, job, asynch, ui, args, serving>>

SendReply ==
  /\ pc = "reply" /\ ~inCb /\ ~asynch
  /\ pc' = "wait"
  /\ rapdu' = NoReply
  /\ serving' = NoReq
  /\ UNCHANGED <<nv, inCb, job, asynch, ui, args>>

\* Mutant: the menu is not shown again.
SendAndKeepScreen ==
  /\ pc = "reply" /\ inCb
  /\ pc' = "wait"
  /\ rapdu' = NoReply
  /\ serving' = NoReq
  /\ inCb' = FALSE
  /\ UNCHANGED <<nv, job, asynch, ui, args>>

\* The end of touch_okay and touch_deny: IO_RETURN_AFTER_TX, then the menu.
SendAndReturn ==
  /\ pc = "reply" /\ inCb
  /\ pc' = "wait"
  /\ rapdu' = NoReply
  /\ serving' = NoReq
  /\ inCb' = FALSE
  /\ ui_idle
  /\ UNCHANGED <<nv, job, asynch, lines, cb, args>>

\* io_exchange throws, or returns 0: app_main stages an error and goes on.
IoError(e) ==
  /\ pc = "wait"
  /\ e \in IoExceptions
  /\ Stage(ToSW(e), NoData)
  /\ asynch' = FALSE
  /\ UNCHANGED <<nv, inCb, job, ui, args, serving>>

\* USB lost its power while io_exchange looked at events (EXCEPTION_IO_RESET):
\* main resets the UX and starts over; the static variables stay.
IoReset ==
  /\ pc \in {"wait", "reply"}
  /\ pc' = "main"
  /\ screen' = "off"
  /\ inCb' = FALSE
  /\ asynch' = FALSE
  /\ rapdu' = NoReply
  /\ serving' = NoReq
  /\ UNCHANGED <<nv, job, lines, cb, args>>
-----------------------------------------------------------------------------
(* The life of the app *)

\* The loader clears RAM and calls main.
Launch ==
  /\ pc = "off"
  /\ pc' = "main"
  /\ UNCHANGED <<nv, inCb, job, asynch, ui, args, rapdu, serving>>

\* Mutant: storage is initialised at every start.
StartForced ==
  /\ pc = "main"
  /\ WipeStorage
  /\ ui_idle
  /\ pc' = "wait"
  /\ UNCHANGED <<inCb, job, asynch, lines, cb, args, rapdu, serving>>

\* main up to the call of io_exchange in app_main.
Start ==
  /\ pc = "main"
  /\ IF initialized THEN UNCHANGED nv ELSE WipeStorage
  /\ ui_idle
  /\ pc' = "wait"
  /\ UNCHANGED <<inCb, job, asynch, lines, cb, args, rapdu, serving>>

ForgetRam ==
  /\ pc' = "off"
  /\ inCb' = FALSE
  /\ job' = NoJob
  /\ asynch' = FALSE
  /\ screen' = "off"
  /\ lines' = Blank
  /\ cb' = "NULL"
  /\ eraseArgs' = NoJob
  /\ getArgs' = NoGet
  /\ nameArgs' = NoName
  /\ rapdu' = NoReply
  /\ serving' = NoReq

\* The last entry of the menu: os_sched_exit.
Quit ==
  /\ pc = "wait" /\ screen = "idle"
  /\ ForgetRam
  /\ UNCHANGED nv

PowerLoss ==
  /\ pc # "off"
  /\ ForgetRam
  /\ UNCHANGED nv

\* Power is lost in the middle of the nvm_write of one key.
TornKey ==
  /\ pc = "storeKey" /\ ~AtomicNvm
  /\ keys' = [keys EXCEPT ![job.slot] = TornWord]
  /\ ForgetRam
  /\ UNCHANGED <<valids, initialized>>

\* ... in the middle of the nvm_write of the whole structure, whose fields
\* are keys, key_valids, initialized in this order: some keys are zero already.
TornWipe ==
  /\ pc = "wipe" /\ ~AtomicNvm
  /\ \E n \in Slots :
       keys' = [s \in Slots |-> IF s <= n THEN ZeroWord ELSE keys[s]]
  /\ ForgetRam
  /\ UNCHANGED <<valids, initialized>>
-----------------------------------------------------------------------------
Init ==
  /\ keys = [s \in Slots |-> ZeroWord]
  /\ valids = {}
  /\ initialized = FALSE
  /\ pc = "off"
  /\ inCb = FALSE
  /\ job = NoJob
  /\ asynch = FALSE
  /\ screen = "off"
  /\ lines = Blank
  /\ cb = "NULL"
  /\ eraseArgs = NoJob
  /\ getArgs = NoGet
  /\ nameArgs = NoName
  /\ rapdu = NoReply
  /\ serving = NoReq

\* What the thread does by itself.
Device ==
  \/ Start
  \/ WriteKey \/ MarkValid \/ Wipe
  \/ handleStoreKeyConfirmErase \/ handleEraseAllSlotsApprove
  \/ handleGetKeyAfterApprove \/ handleGetKeyFromNameAfterApprove
  \/ HoldReply \/ SendReply \/ SendAndReturn

User == touch_okay \/ touch_deny

Environment ==
  \/ Launch \/ Quit
  \/ \E r \in Requests : handleApdu(r)
  \/ \E e \in IoExceptions : IoError(e)
  \/ IoReset
  \/ PowerLoss \/ TornKey \/ TornWipe

Next == Device \/ User \/ Environment

Spec == Init /\ [][Next]_vars

\* The thread runs while the device has power; a user asked a question
\* presses a button at some time.
Fairness == WF_vars(Device) /\ WF_vars(User)

FairSpec == Spec /\ Fairness
-----------------------------------------------------------------------------
(* Properties *)

\* The question that the command r puts to the user.
QuestionOf(r) ==
  CASE r.ins = INS_STORE_KEY -> EraseSlot(r.p1)
    [] r.ins = INS_GET_KEY -> OpenSlot(r.p1)
    [] r.ins = INS_GET_KEY_FROM_NAME -> OpenName(r.tail)
    [] OTHER -> EraseAll

\* What pressing OK will do, from the callback and the arguments it will read.
PendingEffect ==
  CASE cb = "handleStoreKeyConfirmErase" -> EraseSlot(eraseArgs.slot)
    [] cb = "handleGetKeyAfterApprove" -> OpenSlot(getArgs.slot)
    [] cb = "handleGetKeyFromNameAfterApprove" -> OpenName(nameArgs.name)
    [] cb = "handleEraseAllSlotsApprove" -> EraseAll
    [] OTHER -> Blank

\* The text on the approval screen is what OK does: the callback registered
\* with ui_approval and the statics it reads later were set by the same
\* handler run as ApproveLine1/2, whatever commands, errors and resets came in
\* between (approve_cb_ and the three argument structures of instrs.c).
ConsentInv ==
  (screen = "approval" /\ ~inCb) \/ pc = "approved" => PendingEffect = lines

\* The asserts of handleGetKeyAfterApprove, which a release build leaves out
\* (NDEBUG): when the callback runs, its slot exists and still holds a key.
ApprovedSlotValid ==
  (pc = "approved" /\ cb = "handleGetKeyAfterApprove") => getArgs.slot \in valids

\* A key leaves the device only in the reply to an OK on the screen that named
\* its slot or its database name, and it is the key of that slot or name.
DisclosureApproved ==
  (pc = "reply" /\ rapdu.data.kind = "sealed") =>
    /\ inCb
    /\ \/ \E s \in valids : lines = OpenSlot(s) /\ rapdu.data.key = keys[s]
       \/ \E n \in Names : lines = OpenName(n) /\ rapdu.data.key = NameKey[n]

\* The staged reply is about to be sent, to a command that waits for it.
Sending == pc = "reply" /\ (inCb \/ ~asynch) /\ serving # NoReq

\* What a command answered by success has brought about.
Done(r, data) ==
  \/ r.ins = INS_GET_APP_CONFIGURATION /\ data = VersionData
  \/ /\ r.ins = INS_STORE_KEY /\ data = NoData
     /\ r.p1 \in valids /\ keys[r.p1] = r.head
  \/ /\ r.ins = INS_GET_KEY
     /\ r.p1 \in valids /\ data = SealedData(keys[r.p1], r.head)
  \/ r.ins = INS_GET_KEY_FROM_NAME /\ data = SealedData(NameKey[r.tail], r.head)
  \/ r.ins = INS_GET_VALID_SLOTS /\ data = SlotsData(valids)
  \/ r.ins = INS_ERASE_ALL_SLOTS /\ data = NoData /\ valids = {}

\* Success is sent only for the command that waits for a reply, and only once
\* that command has been carried out with its own slot, key and public key:
\* never the 0x9000 staged before the user was asked, never the result of an
\* earlier command (app_main's flags, the statics of instrs.c).
SuccessMeansDone ==
  (Sending /\ rapdu.sw = KPL_SW_SUCCESS) => Done(serving, rapdu.data)

\* While a question is on the screen its command waits for the reply, and
\* while a command waits for the user its question is on the screen: a press
\* never answers nobody and nobody waits for a press that cannot come.
\* (Holds unless io_exchange fails: see the hazard at main.c:130.)
AskedIffWaiting ==
  pc = "wait" =>
    /\ screen = "approval" <=> serving # NoReq
    /\ serving # NoReq => lines = QuestionOf(serving)

\* A slot marked valid holds a key that was stored, never the zeros of an
\* initialised or erased slot nor a part of a key, at every point where power
\* may go (the order of the two writes of storeKeySlot, and the one write of
\* nv_app_state_init).
ValidHoldsKey == \A s \in valids : keys[s] \in Words

\* What a step may do to the valid slots.
Kept ==
  \A s \in valids :
    (keys'[s] # keys[s] \/ s \notin valids') =>
      /\ inCb
      /\ \/ lines = EraseSlot(s) /\ s \in valids'
         \/ lines = EraseAll

\* A stored key changes only while the callback of an approved question that
\* names its slot, or all slots, runs; a slot loses its validity only in an
\* approved erasure of all slots.
KeptUnlessApproved == [][Kept]_vars

\* The app keeps the promise of KeyVault: its consent is the question whose OK
\* has been pressed and has not taken effect yet.
vault == [s \in Slots |-> IF s \in valids THEN keys[s] ELSE ZeroWord]
consent == IF inCb /\ pc \in {"approved", "storeKey", "wipe"} THEN lines ELSE Blank
given ==
  IF pc = "reply" /\ rapdu.data.kind = "sealed"
    THEN [sealed |-> TRUE, key |-> rapdu.data.key, pub |-> rapdu.data.pub]
    ELSE [sealed |-> FALSE]

Vault == INSTANCE KeyVault WITH Keys <- Words, NoKey <- ZeroWord

RefinesKeyVault == Vault!Spec

\* Every command is answered, or its connection is reset: no command makes the
\* app wait for something the user is not asked for (each callback and each
\* error path of instrs.c and approve.c ends in a reply).
RequestAnswered == serving # NoReq ~> serving = NoReq

\* A question does not stay on the screen forever.
QuestionGoesAway == screen = "approval" ~> screen # "approval"

\* What src/protocol.md says of GET_KEY: "0x6802: slot not set".
DocumentedEmptySlot ==
  (Sending /\ serving.cla = CLA /\ serving.ins = INS_GET_KEY /\ Has32Bytes(serving)
     /\ serving.p1 \in Slots \ valids) =>
    rapdu.sw = KPL_SW_INVALID_PARAMETER
-----------------------------------------------------------------------------
(* The inductive invariant the safety proofs rest on (LedgerAppProofs).    *)

\* An OK could still be pressed, or has been and its callback has not run yet.
Pending == (screen = "approval" /\ ~inCb) \/ pc = "approved"

\* The screen text belongs to the registered callback at all times, and to the
\* arguments the callback will read while the question is pending.
CallbackInv ==
  /\ cb = "NULL" => lines = Blank /\ ~Pending
  /\ cb = "handleStoreKeyConfirmErase" =>
       /\ \E s \in Slots : lines = EraseSlot(s)
       /\ Pending => /\ lines = EraseSlot(eraseArgs.slot)
                     /\ eraseArgs.slot \in valids /\ eraseArgs.key \in Words
  /\ cb = "handleGetKeyAfterApprove" =>
       /\ lines = OpenSlot(getArgs.slot)
       /\ getArgs.pub \in Words
       /\ Pending => getArgs.slot \in valids
  /\ cb = "handleGetKeyFromNameAfterApprove" =>
       /\ lines = OpenName(nameArgs.name)
       /\ nameArgs.name \in Names /\ nameArgs.pub \in Words
  /\ cb = "handleEraseAllSlotsApprove" => lines = EraseAll

\* A storeKeySlot that runs fills an empty slot, or the slot named on the
\* approved screen; storage is wiped only below an approved screen.
JobInv ==
  /\ pc \in {"off", "main", "wait"} => ~inCb
  /\ pc = "approved" => inCb
  /\ pc \in {"storeKey", "markValid"} =>
       /\ job.key \in Words
       /\ job.slot \in valids <=> inCb
       /\ inCb \/ ~asynch
       /\ inCb => lines = EraseSlot(job.slot)
  /\ pc = "wipe" => inCb /\ lines = EraseAll

\* Storage is initialised before the first command; until then it is empty.
StorageInv ==
  /\ pc \notin {"off", "main"} => initialized
  /\ ~initialized => valids = {}

\* A slot about to be marked valid holds the whole key of its job; with whole
\* flash writes every valid slot does.
WholeKeysInv ==
  /\ pc = "markValid" => keys[job.slot] = job.key
  /\ AtomicNvm => ValidHoldsKey

\* The user is asked for command r, with r's own arguments.
AskedFor(r) ==
  \/ /\ r.ins = INS_STORE_KEY /\ cb = "handleStoreKeyConfirmErase"
     /\ eraseArgs = [slot |-> r.p1, key |-> r.head]
  \/ /\ r.ins = INS_GET_KEY /\ cb = "handleGetKeyAfterApprove"
     /\ getArgs = [slot |-> r.p1, pub |-> r.head]
  \/ /\ r.ins = INS_GET_KEY_FROM_NAME /\ cb = "handleGetKeyFromNameAfterApprove"
     /\ nameArgs = [name |-> r.tail, pub |-> r.head]
  \/ r.ins = INS_ERASE_ALL_SLOTS /\ cb = "handleEraseAllSlotsApprove"

\* A command without a reply is either being carried out with its own
\* arguments, or put to the user, or its reply is staged.
ServingInv ==
  serving # NoReq =>
    /\ pc \notin {"off", "main"}
    /\ pc \in {"wait", "approved"} \/ (pc = "reply" /\ ~inCb /\ asynch) =>
         screen = "approval" /\ AskedFor(serving)
    /\ pc \in {"storeKey", "markValid"} =>
         /\ serving.ins = INS_STORE_KEY
         /\ job = [slot |-> serving.p1, key |-> serving.head]
    /\ pc = "wipe" => serving.ins = INS_ERASE_ALL_SLOTS

\* All of it together; checked by TLC as an invariant, proved inductive.
IndInv ==
  /\ TypeOK /\ CallbackInv /\ JobInv /\ StorageInv /\ WholeKeysInv
  /\ ServingInv /\ DisclosureApproved /\ SuccessMeansDone

\* A question is on the screen only for a command that has no reply yet, whose
\* staged 0x9000 is held back.  Inductive with IndInv when io_exchange does not
\* fail; a failure that answers the command breaks it.
QuestionInv ==
  screen = "approval" =>
    /\ serving # NoReq
    /\ inCb \/ pc = "wait" \/ (pc = "reply" /\ asynch)
=============================================================================
