# LedgerKeePass: models and proofs

TLA+ models of LedgerKeePass, model-checked with TLC, and theorems about them
proved with TLAPS. The paths below are those of the repository (`src/` is its
root); `PROJECT.json` maps every definition to the lines it stands for.

## The system

LedgerKeePass keeps KeePass2 database keys on a Ledger device. A key is either
*stored* in one of eight slots in the flash memory of the device, or *derived*
from a database name. Before it erases or reveals a key the app asks its user.

| Part | State | Operations | Talks to |
|---|---|---|---|
| **Device app** `src/app/src` | flash: keys, valid bits, initialised flag; RAM: approval text, callback, three static argument structures, flags and staged reply of `app_main` | six commands, OK and Cancel, USB reset, start, quit | the host by one reply per command; the SDK (`io_exchange`, `nvm_write`, UX, curve) |
| **libkpl: `KPL`, `LedgerClient`** `kpl.cpp`, `ledger_client.cpp` | one device reference, the ephemeral key pair of a call | `fromDevice`, `setKey`, `getKey`, `getKeyFromName`, `getValidKeySlots`, `eraseAllSlots` | a transport, by `exchange` |
| **libkpl: USB transport** `ledger_device_usb.cpp` | `HIDDev_` | `connect`, `exchange` (`send`, `read`), `close`, `listDevices` | hidapi, 64-byte packets |
| **libkpl: TCP transport** `ledger_device_tcp.cpp` | `FD_` | the same | a proxy or the emulator, length-prefixed messages |
| **C interface** `c_api` | owned devices, KPL objects | a wrapper for each call | plugin, tests |
| **KeePass2 plugin** `kp2` | list of devices, window, background task, timer | `Initialize`, `Terminate`, `GetKey`, `openKey`, finalizers | the C interface |
| **`ErrorOr`** `errors.h` | a tag and a union of a value and an error | construction, move, assignment, destruction | everything that returns a value or an error |
| **Command-line tools** `libkpl/tools` | none | one call each | libkpl |

### What is hard here

*Device app.* One thread, but the button is pressed long after the command that
asked, with anything in between: other commands, transport errors, USB resets
that restart `main` without clearing static variables. The callback finds its
arguments in static variables that other commands also write
(`instrs.c:28`, `:83`, `:138`). A key is stored by two flash writes, and power
may go between them or in the middle of one. It is correct when the text on the
screen is always what OK does, when no key leaves or is lost without an OK to
just that, when success is reported only for what was done, and when every
command gets its answer.

*libkpl.* A reply carries nothing that says which command it answers. All rests
on one reply per command, in order; a caller that gives up waiting, or a process
that dies while the user is being asked, breaks this. It is correct when
SUCCESS is about the call that returns it, and when a call always returns.

*Transports.* What an exchange does not read when it fails is what the next one
reads first. Messages are cut into packets, or pieces of a stream; writes may
fail, and on USB a failed one counts as done. A transport is correct when the
device gets a command whole or not at all, and an exchange returns one reply,
whole, the oldest there is, or fails.

*Plugin.* A window, a timer and a background task share one device handle. It
is correct when only one of them uses the handle, a native object is not freed
while a call uses it, and the window becomes usable again.

*`ErrorOr`.* It begins and ends the lifetime of its value by hand. It is correct
when the tag is right and each value is destroyed once.

## Modules

| Module | What it is |
|---|---|
| `Approvals` | the questions the approval screen can show |
| `KeyVault` | **abstract**: what the app promises its owner; one consent, one use |
| `LedgerApp` | the device app, one action per handler, callback, flash write and exception path |
| `MCLedgerApp` | values for TLC |
| `LedgerAppProofs` | theorems about `LedgerApp`, with proofs |
| `LibKpl` | the calls of libkpl and their parsing of replies, over USB packets |
| `KplSystem` | `LedgerApp` and `LibKpl` composed: the commands the app handles are those libkpl sent |
| `MCKplSystem` | values for TLC |
| `KplSystemProofs` | theorems about `KplSystem`, with proofs |
| `Transport` | **abstract**: what `LedgerDevice::exchange` promises, over any transport |
| `TransportProofs` | theorems about `Transport`, with proofs |
| `UsbTransport` | the USB transport: messages of any number of packets, down to the bytes of their numbers |
| `MCUsbTransport` | values for TLC |
| `UsbTransportProofs` | theorems about `UsbTransport`, with proofs |
| `TcpTransport` | the TCP transport: exchanges over a stream of bytes that is cut anywhere |
| `MCTcpTransport` | values for TLC |
| `TcpTransportProofs` | theorems about `TcpTransport`, with proofs |
| `TransportLemmas` | facts about numbers and sequences that both transports need |
| `ErrorOr` | the result type of libkpl and the lifetime of its value |
| `ErrorOrProofs` | theorems about `ErrorOr`, with proofs |
| `Kp2Plugin` | the KeePass2 plugin: UI thread, windows, tasks, countdown, who uses the handle, and who frees what |
| `Kp2PluginProofs` | theorems about `Kp2Plugin`, with proofs |

### LedgerApp

`nv` is `N_storage` (`valids` is the bit field `key_valids` as a set). `pc` says
where the single thread is: `off`, `main` (before the first `io_exchange`),
`wait` (in `io_exchange`), `approved` (about to run `approve_cb_`), `storeKey`
and `markValid` (before the first and the second flash write of
`storeKeySlot`), `wipe` (before that of `nv_app_state_init`), `reply` (a reply
is staged). A handler is one action, as nothing interrupts it except a loss of
power, and power matters only around flash writes, which are actions of their
own. `inCb` is true below `touch_okay` and `touch_deny`, that is while a nested
`io_exchange` will send the reply. `asynch` is `IO_ASYNCH_REPLY` in `flags`:
with it, the staged `0x9000` of a handler that asks the user is not sent.
`eraseArgs`, `getArgs` and `nameArgs` are the three static structures; a USB
reset keeps them, a power loss clears them.

`serving` belongs to the SDK: the command that has no reply yet. The SDK hands
over no other one before. `IoError` covers whatever `io_exchange` throws and the
`0x6982` that `app_main` throws when nothing was received (`main.c:107`).

Status words are pairs of bytes, as in a reply. Data are cut at byte 32, as the
handlers do: `head` is a 32-byte word or too short, `tail` is nothing, a good
name, a bad name or too long. Encryption is a record that holds the key and the
public key it was sealed for; it fails when the curve multiplication does. `p2`
is ignored by every handler and left out. The check of `LC` against the buffer
(`main.c:51`) cannot fail for a byte and a 260-byte buffer and is left out.

### KeyVault and the refinement

`KeyVault` knows no commands, buffers or flash writes: keys go into empty slots
freely, everything else takes a consent to exactly that question and uses it
up. `LedgerApp` implements it under the mapping `vault` (the keys of the valid
slots), `consent` (the question on the screen once OK is pressed, until the
callback has taken effect) and `given` (a sealed key in the staged reply).
This holds when a flash write is not torn by a power loss.

### LibKpl and KplSystem

`call` is the call in progress, `result` what the last one returned. A call
puts one command into `toDev`; `readFirst` and `readRest` are the two halves of
`LedgerDeviceUSB::read`, as a reply with a key takes two packets (66 bytes, 57
in the first) and all others one. `hid` is `HIDDev_`; `"dead"` is a handle
whose device was reset: writes to it are lost and reported as success (the
comparison of `hid_write`'s -1 with an unsigned length), reads fail, or return
first what was in the queue, depending on the hidapi backend. `connect` drops
what the old handle had not read. With `Timed` a read may give up at any time,
as a reply may be arbitrarily late. `usedPubs` makes each generated key pair
new. The decryption yields the key if the reply was sealed for the key pair of
the call, else garbage. `refuse` stands for the calls that are given a buffer or
a name of the wrong length and send nothing. `fillAppVersion` includes the
verdict of `isProtocolCompatible`, which is any member of `Compatible`.

`KplSystem` adds what happens in between. `Ignore` is the SDK's treatment of a
command that arrives while another has no reply: it is dropped; a proxy that
queues it instead is the behaviour where `Deliver` comes later. `Vanish` is any
reset of the device as the host sees it. `Die` ends the host process.

### Transport, and the two that implement it

`Transport` has a queue in each place where a command or its answer can be: sent
(`commands`), received and not answered (`owed`), answered and not read
(`replies`). An exchange returns the head of `replies`, or fails; whatever is
lost on the way (`Losing`) is a beginning or an end of these queues, so the order
is kept. `framed` becomes false when a transport loses the place where answers
begin; what it returns after that is not said. `failed` remembers that an
exchange has failed and may have left something behind.

*UsbTransport.* `exchange` is cut wherever it calls hidapi: each `hid_write` is a
step (`sendPacket`, `writeFails` when -1 is taken for success, `writeShort`), and
so is each `hid_read_timeout` (`readFirst`, `readRest`, `readNothing`). A byte of
a message is the message and the place of the byte in it, so that replies put
together wrongly show. The two numbers of a packet are pairs of bytes that
`storeu_be` and `loadu_be` (`intmem.h`) write and read as the host does; the
device writes and reads them big-endian. `Assemble` is how the SDK of the device
puts a command together: by the numbers of the packets, starting over when one
does not fit. `connect` drops the packets the host has queued, not those that the
device has still to send. `framed` is always true here: packet 0 of a reply is
recognised.

The replies of the abstract transport (`Unread`) are those all of whose packets
are still there, side by side. A reply that has lost one is lost.

*TcpTransport.* `exchange` is cut where it may wait or fail: before the two
calls of `send` (`phase = "send"`), before the length (`"length"`) and before the
bytes (`"bytes"`). `sent` and `arrived` are the stream on its way and in the
socket; `Arrive` moves any number of bytes, so a `recv` may find any prefix. A
byte carries, for the properties only, its reply and its place in it. `FullLength`
is `ntohl(RecvLen) + sizeof(SWTy)` in the width of `RecvLen`. A `send` that takes
part of the bytes leaves the proxy with half a command, which it completes with
the next one (`Torn`). `lost` is a history variable: the directions in which part
of a message went by, so that its other end does not know where messages begin.
`framed` is `lost = {}`; only `connect` brings it back. `CheckSize` is the test
that `APDUStream::exchange` makes of the size; it is the only thing that stops a
wrapped length.

`KplSystem` keeps a USB transport of its own, in which a reply is one or two
packets: the packets of `UsbTransport` times the states of the app are out of
TLC's reach. What it takes for granted (a command arrives whole or not at all)
is `CommandWhole`.

### ErrorOr

One action for each constructor, the assignment and the destructor. `Data_` is
what is in the union: a value alive (`Live`), what its destructor has left
(`Dead`), an error, or nothing written yet. `reset` ends the value and leaves the
tag, as `errors.h:77` does. `owned` counts constructions less destructions.

### Kp2Plugin

`ui` is the call of the library that the UI thread is in; while it is in one, no
event is handled. `win` and `task` hold, for each `KeyForm` object alive, what
`openKey` and the continuation change, and the progress of its task. A window
closed during its task stays until the task is continued. `left` is what is left
of the timeout of the current read: `Second` cannot pass a timeout that has run
out, and `FirstPart` starts it anew, as `hid_read_timeout` is called once for
each packet. Every `LedgerDevice` has one handle, opened by `KPLFromDevice` and
used, with no lock, by whoever calls. A call ends with a key, a `KPLException`
or any other exception; what keys are right is the subject of `KplSystem`.

`native` and `kpl` are the objects of libkpl behind the C interface. Devices are
made by `Initialize`, for as many as are found, and belong to the providers, which
`Terminate` leaves to the garbage collector. A finalizer may run whenever nothing
refers to its C# object: for a device, no provider and no `KPL` object
(`HeldByKPL`: its field `Dev`, `ckpl.cs:90`); for a `KPL`, no window that is shown
or whose task runs.

## Runs

| Run | Instance | Shows |
|---|---|---|
| `app_faults` | 2 slots, 2 keys, 2 names, all kinds of good and refused commands; exceptions, USB resets, torn flash writes | `TypeOK`, `IndInv` (below), `ConsentInv`: the text is what OK does. `ApprovedSlotValid`: the asserts compiled out would hold. `DisclosureApproved`: keys leave only after the OK that names them. `SuccessMeansDone`. `KeptUnlessApproved`: stored keys change only below the approving screen. |
| `app_live` | the same without exceptions and with whole flash writes, with fairness | `RefinesKeyVault`. `ValidHoldsKey`, at every point power may go. `AskedIffWaiting`: question on the screen exactly while its command waits. `RequestAnswered`, `QuestionGoesAway` |
| `app_doc` | as `app_live` | violated: `protocol.md:62` gives `0x6802` for an empty slot, the app answers `0x6821` |
| `sys_sync` | 2 slots, 2 keys, good and bad names, 1 key pair, versions that agree or not; resets, no timeouts, with fairness | `ResultIsReal`: SUCCESS is true end to end. `ChangedForCaller`: slots change only for the call in progress. `CallReturns`, without any timeout |
| `sys_late` | 1 slot, 2 keys, good and bad names, timeouts, late replies, dying processes | `NeverForeignKey`: a key read is the right one or garbage. `NeverMixed`: no reply is made of two |
| `usb` | commands of 2 and of 4 packets and one too long, replies of 1 and of 3 packets, three sizes of buffers; a write that fails, timeouts, resets, packets of other protocols, with fairness | `CommandWhole`: the device carries out only commands as they were given. `ImplementsTransport`: the refinement. `OwnAnswer`: until an exchange fails, each returns the answer to its own command. `ExchangeReturns`: without a timeout, until the first failure |
| `tcp` | replies with 0 or 1 byte of data, buffers for each, timeouts, a peer that closes, sends that fail half-way, with fairness | `ImplementsTransport`, `OwnAnswer`, `ExchangeReturns` as above. `AtBoundary`: until the first failure nothing is left between exchanges. `AnswerFits`: after it, no answer is shorter than a status word or longer than its buffer |
| `tcp_short` | the same | violated: `errors.cpp:44` calls the result a timeout, a reply in two pieces gives it without any |
| `error_or` | 3 objects, 2 errors | `TagTellsTruth`: the tag says what is in the union. `NothingLeaked`: no value is written over or abandoned |
| `error_or_moved` | 2 objects | violated: an object that was moved from is valid, as the assert of `get()` (`errors.h:64`) understands it, and its value destroyed |
| `plugin` | 2 devices, 2 windows, windows closed at any time, finalizers at any time, fairness | `HandleHasOneUser`: until a window is closed during a call, the task that reads is alone with the handle. `NothingFreedInUse`: no finalizer deletes what a call uses. `CountdownMeansWaiting`: timers stop with their task. `WindowComesBack`: buttons do not stay disabled |
| `plugin_rem` | the same, 1 device | violated: the seconds announced (`plugin.cs:145`) are not the seconds left, and wrap around |

**Bounds.** Two slots and two keys are enough to tell "the slot of this
question" from "a slot" and "this key" from "the other"; two names likewise.
The device model has no counters, so these runs cover behaviours of any length.
In the composed runs `Pubs` bounds the calls of `getKey` and `getKeyFromName`:
to two a behaviour in `sys_late`, which is one to be abandoned and one to receive
its reply, and to one in `sys_sync`, where no call is abandoned; other calls are
not bounded.
`MaxCommands` and `MaxPackets` bound what may be on its way when a call starts
(one command, one packet left unread by an earlier call). `sys_late` needs one
slot only: the foreign key is that of the name, or the slot's former one.

The run of `TcpTransport` has bytes of two values and lengths of two bytes, so
`uint32_t` arithmetic becomes arithmetic modulo 4 (the theorems are for lengths of
one to four bytes of any base, so for 2^32 itself): the lengths 2 and 3 wrap around to 0 and
1, as 2^32 - 2 and 2^32 - 1 do. `MaxPending` lets an exchange start when one
reply is left over from an earlier one, or a command has not been answered.

In `UsbTransport` a byte has three values, and a packet has room for two bytes of
a message if it is the first and for one otherwise. The long command, of 5 bytes,
takes the packet numbers 0 to 3, so that one does not fit in a byte: the order of
bytes matters for it, as it does for lengths. A command of 9 bytes and a buffer of
9 are past `Max16`. `MaxFaults` bounds the writes that fail before the device is
at rest again: with two of them `CommandWhole` is false (below). `MaxPending` lets
an exchange start with a packet of an earlier reply in the queue.

Three `ErrorOr` objects are the two of a move and one that stays; the theorems
are for any number. In `Kp2Plugin` the timeout is 2 seconds and a `UInt32` ends
at 3; two windows are a new one and one that was closed and still waits.

`sys_late` uses the symmetry of the keys and of the key pairs, which no
definition tells apart; its properties are invariants.

**Fairness.** `app_live` assumes weak fairness of the device's thread (it runs
while it has power) and of the user (a person asked a question presses some
button; the code has no timeout, so without this a command waits forever).
`sys_sync` adds that a command that was sent is received, and that the host
reads what has arrived; a read of a dead handle returns. `usb` and `tcp` assume
that the host goes on with an exchange it has begun, that the device or proxy
answers a command it has received, unless it is reset or closes, and that what was
sent arrives. `plugin` assumes that time passes, that threads and the UI run and
that the 500 ms calls of `GetKey` return; a read ends by its timeout, never by an
answer that must come. No fairness is assumed for resets, power, commands,
Cancel, finalizers, timeouts, failing writes or a peer that closes.

## Proofs

`LedgerAppProofs` proves, for every number of slots from 1 to 8, every set of
keys, names, commands and exceptions, and torn or whole flash writes:

* `TypeCorrect`, `ScreenTellsTheTruth`, `AssertsHold`, `KeysNeedConsent`,
  `SuccessIsTrue`, `StoredKeysKept`: the invariants and the action property of
  `app_faults`;
* `ValidSlotsWhole` and `AppKeepsVault` (the refinement of `KeyVault`), under
  `AtomicNvm`;
* `QuestionMeansWaiting`, when no exception cuts `io_exchange` short
  (`IoExceptions = {}`): `AskedIffWaiting`. With exceptions it is false (below).

None of these is inductive. `ConsentInv`, for instance, needs to know that the
arguments of a pending callback are not changed by a command that is refused,
and `SuccessMeansDone` that a waiting command is put to the user with its own
arguments. The inductive invariant is `IndInv`, in named parts:

* `CallbackInv`: text, callback and arguments were set together. A screen that
  erases one slot names a valid one; a screen that opens one, likewise.
* `JobInv`: `storeKeySlot` fills an empty slot, or the slot of the approved
  screen; storage is wiped below an approved screen only.
* `StorageInv`, `WholeKeysInv`: initialisation precedes commands; a slot is
  marked valid after its key has been written.
* `ServingInv`: the command without a reply is being carried out, or put to the
  user, with its own arguments.

`QuestionInv`, which `QuestionMeansWaiting` adds to these, follows a question from
the command that asked: until its callback has run, the command has no reply, and
a staged `0x9000` is held back.

`Inductive` shows `Spec => []IndInv`, by one lemma per part (`CallbackStep`,
`JobStep`, `WholeKeysStep`, `ServingStep`, ...), each split by action; the
others follow from `IndInv`, or from `IndInv` and one more step. `VaultStep`
maps every step of the app to one of `KeyVault`, or a stutter.
The assumptions are those named in `LedgerApp`: words, names and data that are
meant to differ do, requests are well-formed commands, and success is not one
of the exceptions. TLC evaluates them in every run.

`KplSystemProofs` proves, for any number of calls and key pairs:

* `AppInSystem`: every behaviour of the system is one of the app alone, so what is
  proved of the app holds here too, `IndInv` first of all;
* `RepliesStayWhole` (`NeverMixed`) and `KeysAreOwn` (`NeverForeignKey`), with
  timeouts, late replies and processes that die;
* `ResultsAreReal` (`ResultIsReal`) and `NothingBehindBack` (`ChangedForCaller`),
  when no call is abandoned (`Timed = FALSE`, `MayDie = FALSE`). Otherwise
  `ResultIsReal` is false (below).

The invariants are at the end of `KplSystem`. A key that comes late must not be
taken for another: `PubInv` says that nothing under way was sealed for a key pair
that is yet to be generated, `OwnInv` that what is under way for the key pair of
the call is its own command, with nothing behind it, or its reply, with the right
key and nobody left who could change it. `StandsInv` keeps this true after the
call returns, as long as its result stands. `StreamInv` is about the packets of a
reply, which follow each other. `DutyInv` is what all this needs of the app beyond
`IndInv`: what it does, it does for a command that has no reply yet. Without
abandoned calls, `LoneInv` holds: at most one command or one reply is under way,
and it is that of the call. `LibAssumption` says that the commands libkpl sends
are among those the app may receive; TLC evaluates it in both runs.

`TransportProofs` proves `OwnAnswers`, for any commands and replies: over every
transport that implements `Transport`, each exchange returns the answer to its own
command until one fails. `OwnAnswer` is not inductive, as an old answer in
`replies` would break it; `OwnInv` says that until a failure at most one thing is
under way, in one of the three queues, and that it belongs to the exchange in
progress. `LosingKeepsOne` and `PartOfOne` show that losing parts of queues keeps
this. That the two transports implement `Transport` is model-checked; the
invariants of their runs are proved for each of them:

`TcpTransportProofs`, for bytes of any base, lengths of one to four bytes, any
commands, replies and buffers:

* `TypeCorrect`;
* `AnswersFit` (`AnswerFits`), from types alone: it holds of any stream,
  also one that is out of step, whatever `FullLength` wraps around to;
* `LeavesNothing` (`AtBoundary`) and `AnswersAreOwn` (`OwnAnswer`).

The last two rest on `AloneInv`: until an exchange fails, what is on the stream is
nothing, the command, or a prefix of what remains of its reply. `LengthOfDigits`
and its lemmas show that `ntohl` undoes `htonl`, so that the length of a reply
read from its beginning is right; this is why `Power` lists the powers of `Base`
and `LengthOf` is written as Horner's rule, without a fold.

`UsbTransportProofs`, for packets and messages of any size that 16 bits can count,
bytes of any base, and hosts of either byte order:

* `TypeCorrect`: in particular `send` stays within the command and `read` within
  the buffer. `WireNumber` and `LoadedNumber` show that what `storeu_be` writes is
  big-endian and that `loadu_be` reads it back, on both kinds of hosts;
* `CommandsWhole` (`CommandWhole`), if no more than one write fails before the
  device is at rest (`MaxFaults <= 1`). This is not for the sake of the proof:
  TLC finds it violated for 2;
* `AnswersAreOwn` (`OwnAnswer`), with any number of failing writes, if packets of
  other protocols have the number 0 (`StraySeqs`). This too is needed (below).

`StateInv` (`TypeInv`, `ProgressInv`, `AsmInv`) ties the number of the next packet
to the bytes that have been sent and read: `pos` is `FirstRoom + (seqNum - 1) *
NextRoom`, so a number cannot wrap around before a message ends. `WholeInv` adds
that the command the device puts together is a beginning of the one that is being
sent, in step with it; if it is not, a write has failed, and the exchange has
passed the number the device waits for (`OutOfStep`). `AloneInv` is about the
packets of a reply: those in the queue and those the device has yet to send are
the ones with the numbers still to be read (`Rest`), in order, and there is no
other. `CountShape` shows that the last of them is the one with which the length
is used up.

`Kp2PluginProofs` proves the four invariants of `plugin`, for any sets of devices
and windows and any timeout: `PluginTypes` (`TypeOK`), `OneUserOfHandle`
(`HandleHasOneUser`), `NothingFreed` (`NothingFreedInUse`) and `CountdownStops`
(`CountdownMeansWaiting`). `CallInv` says when the UI thread may be in a call of
the library at all, `HeldInv` that a window that is shown or has a task keeps its
KPL and its device alive, and `TaskInv` that the buttons of a window with a task
are disabled, which is all that keeps a second call from its handle.

`ErrorOrProofs` proves `TagIsRight` and `NoLeak`, for every finite set of objects
and any errors that differ from values (`ErrorOrAssumption`). They are proved
together (`LifeInv`), as `reset()` goes by the tag; `TakeStep` is what move and
assignment have in common, and counts the values alive before and after.

All invariants and action properties that the runs check are thus theorems. Only
model-checked are:

* liveness (`RequestAnswered`, `QuestionGoesAway`, `CallReturns`,
  `ExchangeReturns`, `WindowComesBack`): fairness and `ENABLED` are out of reach
  of the prover;
* `ImplementsTransport`, the refinements of `Transport` by the two transports.
  After failures any number of replies, whole or in part, may be on a stream or in
  a queue, and the mapping must say which of them are still to be had.

## What the models show about the code

* The app keeps its promises in spite of the hazard at `main.c:130`: an
  exception answers the waiting command and leaves the question on the screen.
  A later OK still does what the text says, and no reply lies; but it answers
  nobody, which is why `AskedIffWaiting` is claimed without exceptions only.
* With torn flash writes a slot may be valid without holding a whole key: the
  overwriting of a valid slot and the erasure of all slots are not atomic.
* `ResultIsReal` is false once callers give up (`Timed`) or processes die in a
  call: the late reply of the first command is then the result of the second.
  Keys are safe from this (`NeverForeignKey`), a `setKey` is not: it may report
  the success of another one.
* A TCP reply that does not arrive in one piece, as TCP is free to do, is an
  error, reported as a timeout. The bytes taken are thrown away, so every later
  exchange of the connection reads lengths from the middle of replies. No answer
  overflows its buffer or lacks a status word even then.
* A `hid_write` that fails returns -1, which `ledger_device_usb.cpp:110` compares
  as an unsigned number: the packet counts as sent, and the exchange waits for a
  reply that nobody sends. The device is left with part of a command, and drops it
  when the number of the next packet does not fit. Two failures can defeat this:
  one that ends an exchange after some packets of a command, and one of the first
  packet of the next command, whose second packet then fits. The device carries
  out a command made of both. `CommandWhole` is claimed for one failure
  (`MaxFaults`), and false for two.
* Packets after the first of a reply are taken by their number alone. A packet of
  another protocol with the number that is expected would become part of it;
  `StraySeqs` has only the number 0.
* A reconnection over USB does not end what the device is still doing: the reply
  to a command of the old handle can be the first that is read from the new one.
* An `ErrorOr` that was moved from stays valid. Its destructor then runs that of
  the value again. The values that libkpl returns this way (`KPL`) bear
  it, as their destructors do nothing; another type would not.
* The plugin disables Open and Cancel during a call, not the close box of the
  window. A window closed during a call leaves a task reading the handle that
  the next `GetKey` closes and opens again. Hence `abandoned`, the history
  variable in `HandleHasOneUser`.
* The countdown can pass 0, as every read of a reply has a timeout of its own.
* `protocol.md` and the app disagree about the status of an empty slot.
  (`protocol.md:34` also says that STORE_KEY has no data; the app requires the
  32 bytes of the key.)

## Not modelled, and the plan

Still to be proved: the refinements of `Transport`, first that of `TcpTransport`,
whose mapping takes whole replies off the front of a stream, then that of
`UsbTransport`, whose mapping looks for the replies that have lost no packet.

Left out for good:

* the curve, hashes and key derivation themselves (a model could only assume what
  they do), and `LIB_X25519_FAIL`, which no reply of the app leads to;
* the wording and drawing of screens and error texts, and names of devices;
* how devices are listed, beyond that some are found: nothing is kept of it;
* the command-line tools, which make one call each. Their faults are in the
  reading of arguments (`set.cpp:19`, `set.cpp:31`) and are listed as hazards;
* the checks for null pointers in the C interface, which no caller here meets;
* tests, build files and packaging.
