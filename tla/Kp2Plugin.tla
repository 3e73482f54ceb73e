----------------------------- MODULE Kp2Plugin -----------------------------
(***************************************************************************)
(* The KeePass2 plugin (src/kp2/LedgerKeePass): GetKey runs on the UI      *)
(* thread and shows a modal window; the window's Open button starts a task *)
(* on another thread, which reads the key; the task is continued on the    *)
(* UI thread.  A timer of the window counts down meanwhile.  The C         *)
(* interface hands each call to libkpl, which uses the one handle of the   *)
(* device and locks nothing.                                               *)
(*                                                                         *)
(* The UI thread handles one event at a time, and none while GetKey calls  *)
(* the library.  A window that is closed stays alive while its task runs.  *)
(* Native objects are deleted by the finalizers of their C# objects, which *)
(* run some time after nothing refers to these, and in any order.          *)
(***************************************************************************)
EXTENDS Integers, FiniteSets

CONSTANTS
  Devices,     \* one key provider each
  Windows,     \* a KPL object and its KeyForm; bound: how many exist at once
  NoWindow, NoDevice,
  TimeoutKey,  \* TimeoutKeyMS / 1000
  UIntMax      \* largest value of a UInt32

ASSUME PluginAssumption ==
  /\ TimeoutKey \in Nat \ {0} /\ UIntMax \in Nat /\ UIntMax > TimeoutKey
  /\ NoWindow \notin Windows /\ NoDevice \notin Devices

VARIABLES
  provs,  \* Provs_: "none", "kept", or "dropped" when the plugin is unloaded
  native, \* the LedgerDevice objects of libkpl: "none", "alive" or "freed"
  kpl,    \* the KPL objects of libkpl: "none", "alive", or "unreferenced" when
          \* nothing refers to their C# object any more
  ui,     \* the library call that GetKey is in: its name, the device and KPL
  shown,  \* the window that ShowDialog shows, or NoWindow
  win,    \* the windows
  task,   \* the task of each window: "none", "queued", "reading" or how it ended
  left,   \* seconds until the current read of a task times out
  late,   \* tasks that have got the first part of a reply
  abandoned  \* history: a window has been closed while its task ran

objects == <<provs, native, kpl>>
vars == <<objects, ui, shown, win, task, left, late, abandoned>>

Ended == {"key", "KPLException", "otherException"}
UIFree == ui.op = "none"
NoCall == [op |-> "none", dev |-> NoDevice, form |-> NoWindow]

Stopped == -1

\* A new window: buttons enabled, timer not started.  TimeSpent is that of the
\* timer, if there is one.
NewWindow(dev, slots) ==
  [dev |-> dev, slots |-> slots, enabled |-> TRUE, timeSpent |-> Stopped,
   status |-> "hint"]

\* A window nothing refers to.
NoForm == NewWindow(NoDevice, FALSE)

TypeOK ==
  /\ provs \in {"none", "kept", "dropped"}
  /\ native \in [Devices -> {"none", "alive", "freed"}]
  /\ kpl \in [Windows -> {"none", "alive", "unreferenced"}]
  /\ ui \in [op : {"none", "fromDevice", "getValidSlots"},
              dev : Devices \cup {NoDevice}, form : Windows \cup {NoWindow}]
  /\ shown \in Windows \cup {NoWindow}
  /\ win \in [Windows ->
       [dev : Devices \cup {NoDevice}, slots : BOOLEAN, enabled : BOOLEAN,
        timeSpent : {Stopped} \cup 0..UIntMax,
        status : {"hint", "accept", "countdown", "error"}]]
  /\ task \in [Windows -> {"none", "queued", "reading"} \cup Ended]
  /\ left \in [Windows -> 0..TimeoutKey]
  /\ late \in SUBSET Windows
  /\ abandoned \in BOOLEAN
-----------------------------------------------------------------------------
(* The plugin and what it owns *)

\* The list takes over the devices that are found; without memory for it, they go.
KPLLedgerDeviceListGet(found, enough) ==
  native' = [d \in Devices |-> IF enough /\ d \in found THEN "alive" ELSE native[d]]

\* One provider for each device, which keeps its LedgerDevice.  When the list
\* cannot be had, Initialize throws, and KeePass does without the plugin.
Initialize ==
  /\ provs = "none"
  /\ \E found \in SUBSET Devices, enough \in BOOLEAN :
       /\ found = {} => enough
       /\ KPLLedgerDeviceListGet(found, enough)
       /\ provs' = IF enough THEN "kept" ELSE "dropped"
  /\ UNCHANGED <<kpl, ui, shown, win, task, left, late, abandoned>>

\* KeePass ends, with no window open: it forgets the plugin.
Terminate ==
  /\ provs = "kept" /\ UIFree /\ shown = NoWindow
  /\ provs' = "dropped"
  /\ UNCHANGED <<native, kpl, ui, shown, win, task, left, late, abandoned>>

\* Mutant: the C# class KPL does not keep its LedgerDevice.
NotHeld(d) == FALSE

\* The field Dev of a KPL that something refers to.
HeldByKPL(d) ==
  \E f \in Windows : kpl[f] = "alive" /\ d = IF ui.form = f THEN ui.dev ELSE win[f].dev

\* ~LedgerDevice: KPLLedgerDeviceFree.
FinalizeDevice(d) ==
  /\ native[d] = "alive"
  /\ provs = "dropped" /\ ~HeldByKPL(d)
  /\ native' = [native EXCEPT ![d] = "freed"]
  /\ UNCHANGED <<provs, kpl, ui, shown, win, task, left, late, abandoned>>

\* ~KPL: KPLFree, which does not use the device.
FinalizeKPL(f) ==
  /\ kpl[f] = "unreferenced"
  /\ kpl' = [kpl EXCEPT ![f] = "none"]
  /\ UNCHANGED <<provs, native, ui, shown, win, task, left, late, abandoned>>
-----------------------------------------------------------------------------
(* GetKey, on the UI thread *)

\* Connects, which closes the handle that was open, and asks for the version.
KPLFromDevice(dev, f) == ui' = [op |-> "fromDevice", dev |-> dev, form |-> f]

GetKey(dev) ==
  /\ UIFree /\ shown = NoWindow
  /\ provs = "kept" /\ native[dev] # "none"
  /\ \E f \in Windows : kpl[f] = "none" /\ KPLFromDevice(dev, f)
  /\ UNCHANGED <<objects, shown, win, task, left, late, abandoned>>

getValidSlots ==
  /\ ui.op = "fromDevice"
  /\ kpl' = [kpl EXCEPT ![ui.form] = "alive"]
  /\ ui' = [ui EXCEPT !.op = "getValidSlots"]
  /\ UNCHANGED <<provs, native, shown, win, task, left, late, abandoned>>

ShowDialog ==
  /\ ui.op = "getValidSlots"
  /\ shown' = ui.form
  /\ \E slots \in BOOLEAN : win' = [win EXCEPT ![ui.form] = NewWindow(ui.dev, slots)]
  /\ ui' = NoCall
  /\ UNCHANGED <<objects, task, left, late, abandoned>>

\* KPLException: a message box, no key.
showException ==
  /\ ~UIFree
  /\ ui' = NoCall
  /\ kpl' = [kpl EXCEPT ![ui.form] = IF @ = "alive" THEN "unreferenced" ELSE @]
  /\ UNCHANGED <<provs, native, shown, win, task, left, late, abandoned>>
-----------------------------------------------------------------------------
(* Events of the window that is shown *)

Event(f) == UIFree /\ shown = f

\* Mutant: Open and Cancel stay enabled while the task runs.
KeepButtons(f) == win[f].enabled

DisableButtons(f) == FALSE

openKey(f) ==
  /\ Event(f)
  /\ win[f].enabled
  /\ win' = [win EXCEPT ![f] = [@ EXCEPT !.enabled = DisableButtons(f),
                                  !.status = "accept", !.timeSpent = 0]]
  /\ task' = [task EXCEPT ![f] = "queued"]
  /\ UNCHANGED <<objects, ui, shown, left, late, abandoned>>

typeChanged(f) ==
  /\ Event(f)
  /\ win[f].slots
  /\ win' = [win EXCEPT ![f].status = "hint"]
  /\ UNCHANGED <<objects, ui, shown, task, left, late, abandoned>>

\* Nothing refers to the window any more, nor to its KPL, unless `kept`.
ReleaseUnless(kept, f) ==
  IF kept THEN UNCHANGED <<win, kpl>>
  ELSE /\ win' = [win EXCEPT ![f] = NoForm]
       /\ kpl' = [kpl EXCEPT ![f] = "unreferenced"]

Cancel(f) ==
  /\ Event(f)
  /\ win[f].enabled
  /\ shown' = NoWindow
  /\ ReleaseUnless(task[f] # "none", f)
  /\ UNCHANGED <<provs, native, ui, task, left, late, abandoned>>

\* The close box of the window is always there.
Close(f) ==
  /\ Event(f)
  /\ shown' = NoWindow
  /\ ReleaseUnless(task[f] # "none", f)
  /\ abandoned' = (abandoned \/ task[f] # "none")
  /\ UNCHANGED <<provs, native, ui, task, left, late>>

\* Mutant: TimeSpent does not wrap around.
WideTicked(w) == [w EXCEPT !.timeSpent = @ + 1, !.status = "countdown"]

Ticked(w) ==
  [w EXCEPT !.timeSpent = (@ + 1) % (UIntMax + 1), !.status = "countdown"]

\* The seconds that a tick writes, of type UInt32.
Rem(w) == (TimeoutKey - w.timeSpent) % (UIntMax + 1)

\* Mutant: the timer is stopped only when there is a key.
StopWithKey(f) == IF task[f] = "key" THEN Stopped ELSE win[f].timeSpent

StopTimer(f) == Stopped

\* Mutant: the buttons are not enabled after an exception of another kind.
EnableAfterKpl(f) == task[f] = "KPLException"

\* Enabled before t.Exception.Handle, which throws if it is no KPLException.
EnableButtons(f) == TRUE

\* The function given to ContinueWith.  The window goes with its key; one that
\* was closed before goes without giving it to anybody.
Continue(f) ==
  /\ UIFree
  /\ task[f] \in Ended
  /\ task' = [task EXCEPT ![f] = "none"]
  /\ \/ /\ task[f] = "key" \/ shown # f
        /\ ReleaseUnless(FALSE, f)
        /\ shown' = IF shown = f THEN NoWindow ELSE shown
     \/ /\ task[f] # "key" /\ shown = f
        /\ win' = [win EXCEPT ![f] =
                     [@ EXCEPT !.timeSpent = StopTimer(f), !.enabled = EnableButtons(f),
                        !.status = IF task[f] = "KPLException" THEN "error"
                                   ELSE win[f].status]]
        /\ UNCHANGED <<shown, kpl>>
  /\ UNCHANGED <<provs, native, ui, left, late, abandoned>>
-----------------------------------------------------------------------------
(* The task, on a thread of the pool *)

Start(f) ==
  /\ task[f] = "queued"
  /\ task' = [task EXCEPT ![f] = "reading"]
  /\ left' = [left EXCEPT ![f] = TimeoutKey]
  /\ UNCHANGED <<objects, ui, shown, win, late, abandoned>>

\* The first packet of a reply, or its length over TCP; the timeout starts anew.
FirstPart(f) ==
  /\ task[f] = "reading" /\ f \notin late
  /\ late' = late \cup {f}
  /\ left' = [left EXCEPT ![f] = TimeoutKey]
  /\ UNCHANGED <<objects, ui, shown, win, task, abandoned>>

Forget(f) ==
  /\ left' = [left EXCEPT ![f] = 0] /\ late' = late \ {f}
  /\ UNCHANGED <<objects, ui, shown, win, abandoned>>

\* The call returns or fails.
Finish(f) ==
  /\ task[f] = "reading"
  /\ \E how \in Ended :
       /\ how = "key" => f \in late
       /\ task' = [task EXCEPT ![f] = how]
  /\ Forget(f)

\* Its read has waited for the whole timeout.
TimeOut(f) ==
  /\ task[f] = "reading" /\ left[f] = 0
  /\ task' = [task EXCEPT ![f] = "KPLException"]
  /\ Forget(f)

\* A second passes.  The timers of windows do not tick while the UI is busy; a
\* closed window that waits for its task still counts.
Second ==
  /\ \A f \in Windows : task[f] = "reading" => left[f] > 0
  /\ left' = [f \in Windows |-> IF task[f] = "reading" THEN left[f] - 1 ELSE left[f]]
  /\ win' = [f \in Windows |->
               IF UIFree /\ win[f].timeSpent # Stopped THEN Ticked(win[f]) ELSE win[f]]
  /\ UNCHANGED <<objects, ui, shown, task, late, abandoned>>

Init ==
  /\ provs = "none"
  /\ native = [d \in Devices |-> "none"] /\ kpl = [f \in Windows |-> "none"]
  /\ ui = NoCall /\ shown = NoWindow
  /\ win = [f \in Windows |-> NewWindow(NoDevice, FALSE)]
  /\ task = [f \in Windows |-> "none"]
  /\ left = [f \in Windows |-> 0] /\ late = {} /\ abandoned = FALSE

Next ==
  \/ Initialize \/ Terminate
  \/ \E d \in Devices : GetKey(d) \/ FinalizeDevice(d)
  \/ getValidSlots \/ ShowDialog \/ showException
  \/ \E f \in Windows :
       \/ openKey(f) \/ typeChanged(f) \/ Cancel(f) \/ Close(f) \/ Continue(f)
       \/ FinalizeKPL(f)
       \/ Start(f) \/ FirstPart(f) \/ Finish(f) \/ TimeOut(f)
  \/ Second

Spec == Init /\ [][Next]_vars

\* Time passes, threads run, and the calls of GetKey return by their timeout.
Fairness ==
  /\ WF_vars(Second)
  /\ WF_vars(getValidSlots \/ ShowDialog \/ showException)
  /\ \A f \in Windows :
       WF_vars(Continue(f)) /\ WF_vars(Start(f)) /\ WF_vars(TimeOut(f))

FairSpec == Spec /\ Fairness
-----------------------------------------------------------------------------
(* Properties *)

\* While a task reads from a device nobody else uses its handle: neither the UI
\* thread, whose connect would close it under the task, nor another task.  No
\* lock sees to it, only the buttons that openKey disables.  It does not disable
\* the close box: this holds until a window is closed during a call.
HandleHasOneUser ==
  ~abandoned => \A f \in Windows : task[f] = "reading" =>
    /\ ui.dev # win[f].dev
    /\ \A g \in Windows \ {f} : task[g] = "reading" => win[g].dev # win[f].dev

\* No finalizer deletes a device or a KPL object that a call is using, although
\* the C interface counts no references and a task may outlive its window and the
\* whole plugin: the task keeps the window, the window its KPL, and that the device.
NothingFreedInUse ==
  /\ ui.op # "none" => native[ui.dev] = "alive"
  /\ \A f \in Windows : task[f] = "reading" =>
       kpl[f] = "alive" /\ native[win[f].dev] = "alive"

\* The countdown is on the screen only while there is something to wait for.
CountdownMeansWaiting ==
  \A f \in Windows : win[f].timeSpent # Stopped => task[f] # "none"

\* A window is usable again, or gone, once its task is over, in whatever way: no
\* sequence of failures leaves the user with disabled buttons.
WindowComesBack ==
  \A f \in Windows : (shown = f /\ ~win[f].enabled) ~> (shown # f \/ win[f].enabled)

\* The window says how many seconds remain of the 60.
CountdownInRange ==
  \A f \in Windows :
    (win[f].status = "countdown" /\ win[f].timeSpent # Stopped) => Rem(win[f]) <= TimeoutKey
-----------------------------------------------------------------------------
(* The inductive invariant the safety proofs rest on (Kp2PluginProofs).    *)

\* The UI thread is in the library only before there is a window, for one whose
\* KPL is new; the plugin is loaded then.
CallInv ==
  /\ UIFree => ui = NoCall
  /\ ~UIFree =>
       /\ shown = NoWindow /\ provs = "kept"
       /\ ui.dev \in Devices /\ ui.form \in Windows
       /\ native[ui.dev] # "none" /\ task[ui.form] = "none"
  /\ ui.op = "fromDevice" => kpl[ui.form] = "none"
  /\ ui.op = "getValidSlots" => kpl[ui.form] = "alive"

\* A window that is shown, or has a task, holds its KPL and that its device;
\* as long as the plugin is loaded none is freed.
HeldInv ==
  /\ \A f \in Windows : shown = f \/ task[f] # "none" =>
       /\ kpl[f] = "alive"
       /\ win[f].dev \in Devices /\ native[win[f].dev] = "alive"
  /\ provs # "dropped" => \A d \in Devices : native[d] # "freed"

\* A window with a task has its buttons disabled, and is shown unless a window
\* has been closed under its task.
TaskInv ==
  \A f \in Windows : task[f] # "none" => ~win[f].enabled /\ (abandoned \/ shown = f)

IndInv == TypeOK /\ CallInv /\ HeldInv /\ TaskInv /\ CountdownMeansWaiting
=============================================================================
