--------------------------- MODULE Kp2PluginProofs ---------------------------
(***************************************************************************)
(* Machine-checked proofs about Kp2Plugin, for every set of devices and of *)
(* windows, every timeout and every width of the countdown.                *)
(***************************************************************************)
EXTENDS Kp2Plugin, TLAPS

\* What win, task and the calls of the library may hold.
WindowRecord ==
  [dev : Devices \cup {NoDevice}, slots : BOOLEAN, enabled : BOOLEAN,
   timeSpent : {Stopped} \cup 0..UIntMax,
   status : {"hint", "accept", "countdown", "error"}]
TaskValues == {"none", "queued", "reading"} \cup Ended

\* A new window is a window, in any state of its timer and its buttons.
LEMMA NewWindowType ==
  ASSUME NEW d \in Devices \cup {NoDevice}, NEW b \in BOOLEAN
  PROVE  /\ NewWindow(d, b) \in WindowRecord
         /\ NewWindow(d, b).dev = d /\ NewWindow(d, b).timeSpent = Stopped
         /\ NewWindow(d, b).enabled
  BY DEF NewWindow, WindowRecord

\* Setting the timer, the buttons and the status leaves a window a window.
LEMMA ChangedWindowType ==
  ASSUME NEW w \in WindowRecord, NEW t \in {Stopped} \cup 0..UIntMax, NEW e \in BOOLEAN,
         NEW s \in {"hint", "accept", "countdown", "error"}
  PROVE  /\ [w EXCEPT !.timeSpent = t, !.enabled = e, !.status = s] \in WindowRecord
         /\ [w EXCEPT !.enabled = e, !.status = s, !.timeSpent = t] \in WindowRecord
  BY DEF WindowRecord

\* A tick keeps the countdown an unsigned number, and the device.
LEMMA TickedType ==
  ASSUME NEW w \in WindowRecord, w.timeSpent # Stopped
  PROVE  /\ Ticked(w) \in WindowRecord
         /\ Ticked(w).dev = w.dev /\ Ticked(w).enabled = w.enabled
<1>1. w.timeSpent \in 0..UIntMax
  BY DEF WindowRecord
<1>2. (w.timeSpent + 1) % (UIntMax + 1) \in 0..UIntMax
  BY <1>1, PluginAssumption
<1> QED
  BY <1>2 DEF Ticked, WindowRecord

LEMMA InitInv == Init => IndInv
<1> SUFFICES ASSUME Init PROVE IndInv
  OBVIOUS
<1>1. TypeOK
  <2>1. win \in [Windows -> WindowRecord]
    BY NewWindowType DEF Init
  <2>2. ui \in [op : {"none", "fromDevice", "getValidSlots"},
               dev : Devices \cup {NoDevice}, form : Windows \cup {NoWindow}]
    BY DEF Init, NoCall
  <2>3. left \in [Windows -> 0..TimeoutKey]
    BY PluginAssumption DEF Init
  <2> QED
    BY <2>1, <2>2, <2>3 DEF Init, TypeOK, WindowRecord
<1>2. CallInv /\ HeldInv /\ TaskInv /\ CountdownMeansWaiting
  BY PluginAssumption
     DEF Init, CallInv, HeldInv, TaskInv, CountdownMeansWaiting, NoCall, UIFree, NewWindow
<1> QED
  BY <1>1, <1>2 DEF IndInv
-----------------------------------------------------------------------------
(* The plugin and its objects *)

LEMMA InitializeStep == IndInv /\ Initialize => IndInv'
<1> SUFFICES ASSUME IndInv, Initialize PROVE IndInv'
  OBVIOUS
<1> USE DEF IndInv, Initialize, KPLLedgerDeviceListGet
<1>1. TypeOK'
  BY DEF TypeOK
<1>2. \A d \in Devices : native'[d] = native[d] \/ native'[d] = "alive"
  BY DEF TypeOK
<1>3. CallInv'
  BY DEF CallInv, UIFree
<1>4. HeldInv'
  BY <1>2 DEF HeldInv, TypeOK
<1>5. TaskInv' /\ CountdownMeansWaiting'
  BY DEF TaskInv, CountdownMeansWaiting
<1> QED
  BY <1>1, <1>3, <1>4, <1>5

LEMMA TerminateStep == IndInv /\ Terminate => IndInv'
BY DEF IndInv, Terminate, TypeOK, CallInv, UIFree, HeldInv, TaskInv, CountdownMeansWaiting

\* ~LedgerDevice runs for a device that no KPL object in use refers to.
LEMMA FinalizeDeviceStep ==
  ASSUME IndInv, NEW d \in Devices, FinalizeDevice(d)
  PROVE  IndInv'
<1> USE DEF IndInv, FinalizeDevice
<1>1. TypeOK'
  BY DEF TypeOK
<1>2. CallInv'
  BY DEF CallInv, UIFree
<1>3. ASSUME NEW f \in Windows, shown = f \/ task[f] # "none" PROVE win[f].dev # d
  <2>1. kpl[f] = "alive"
    BY <1>3 DEF HeldInv
  <2>2. ui.form # f
    BY <1>3, PluginAssumption DEF CallInv, UIFree, NoCall
  <2> QED
    BY <2>1, <2>2 DEF HeldByKPL
<1>4. HeldInv'
  BY <1>3 DEF HeldInv, TypeOK
<1>5. TaskInv' /\ CountdownMeansWaiting'
  BY DEF TaskInv, CountdownMeansWaiting
<1> QED
  BY <1>1, <1>2, <1>4, <1>5

\* ~KPL runs for an object that no window in use refers to.
LEMMA FinalizeKPLStep ==
  ASSUME IndInv, NEW f \in Windows, FinalizeKPL(f)
  PROVE  IndInv'
BY DEF IndInv, FinalizeKPL, TypeOK, CallInv, UIFree, HeldInv, TaskInv, CountdownMeansWaiting
-----------------------------------------------------------------------------
(* GetKey *)

LEMMA GetKeyStep ==
  ASSUME IndInv, NEW d \in Devices, GetKey(d)
  PROVE  IndInv'
<1> USE DEF IndInv, GetKey, UIFree
<1>1. PICK f \in Windows : kpl[f] = "none" /\ KPLFromDevice(d, f)
  OBVIOUS
<1>2. ui' = [op |-> "fromDevice", dev |-> d, form |-> f]
  BY <1>1 DEF KPLFromDevice
<1>3. TypeOK'
  BY <1>2 DEF TypeOK, objects
<1>4. CallInv'
  BY <1>1, <1>2 DEF CallInv, HeldInv, objects
<1>5. HeldInv' /\ TaskInv' /\ CountdownMeansWaiting'
  BY DEF HeldInv, TaskInv, CountdownMeansWaiting, objects
<1> QED
  BY <1>3, <1>4, <1>5

LEMMA GetValidSlotsStep == IndInv /\ getValidSlots => IndInv'
<1> SUFFICES ASSUME IndInv, getValidSlots PROVE IndInv'
  OBVIOUS
<1> USE DEF IndInv, getValidSlots
<1>1. ui.form \in Windows /\ ui.op = "fromDevice"
  BY DEF CallInv, UIFree
<1>2. ui' = [op |-> "getValidSlots", dev |-> ui.dev, form |-> ui.form]
  BY <1>1 DEF TypeOK
<1>3. TypeOK'
  BY <1>1, <1>2 DEF TypeOK
<1>4. CallInv'
  BY <1>1, <1>2 DEF CallInv, UIFree, TypeOK
<1>5. HeldInv' /\ TaskInv' /\ CountdownMeansWaiting'
  BY <1>1 DEF HeldInv, TaskInv, CountdownMeansWaiting, TypeOK
<1> QED
  BY <1>3, <1>4, <1>5

LEMMA ShowDialogStep == IndInv /\ ShowDialog => IndInv'
<1> SUFFICES ASSUME IndInv, ShowDialog PROVE IndInv'
  OBVIOUS
<1> USE DEF IndInv, ShowDialog
<1> DEFINE f == ui.form
<1>1. /\ f \in Windows /\ ui.dev \in Devices /\ task[f] = "none" /\ kpl[f] = "alive"
      /\ shown = NoWindow /\ native[ui.dev] = "alive"
  BY DEF CallInv, HeldInv, UIFree, TypeOK
<1>2. PICK slots \in BOOLEAN : win' = [win EXCEPT ![f] = NewWindow(ui.dev, slots)]
  OBVIOUS
<1>3. NewWindow(ui.dev, slots) \in WindowRecord /\ NewWindow(ui.dev, slots).dev = ui.dev
      /\ NewWindow(ui.dev, slots).timeSpent = Stopped
  BY <1>1, NewWindowType
<1>4. /\ win'[f] = NewWindow(ui.dev, slots)
      /\ \A g \in Windows \ {f} : win'[g] = win[g]
  BY <1>1, <1>2 DEF TypeOK
<1>5. TypeOK'
  <2>1. win' \in [Windows -> WindowRecord]
    BY <1>2, <1>3 DEF TypeOK, WindowRecord
  <2>2. ui' \in [op : {"none", "fromDevice", "getValidSlots"},
                dev : Devices \cup {NoDevice}, form : Windows \cup {NoWindow}]
    BY DEF NoCall
  <2> QED
    BY <1>1, <2>1, <2>2 DEF TypeOK, WindowRecord, objects
<1>6. CallInv'
  BY DEF CallInv, UIFree, NoCall
<1>7. HeldInv'
  BY <1>1, <1>3, <1>4 DEF HeldInv, objects
<1>8. TaskInv'
  BY <1>1, <1>4, PluginAssumption DEF TaskInv
<1>9. CountdownMeansWaiting'
  BY <1>3, <1>4 DEF CountdownMeansWaiting
<1> QED
  BY <1>5, <1>6, <1>7, <1>8, <1>9

LEMMA ShowExceptionStep == IndInv /\ showException => IndInv'
<1> SUFFICES ASSUME IndInv, showException PROVE IndInv'
  OBVIOUS
<1> USE DEF IndInv, showException
<1>1. ui.form \in Windows /\ task[ui.form] = "none" /\ shown = NoWindow
  BY DEF CallInv
<1>2. TypeOK'
  BY <1>1 DEF TypeOK, NoCall
<1>3. CallInv'
  BY DEF CallInv, UIFree, NoCall
<1>4. HeldInv'
  BY <1>1, PluginAssumption DEF HeldInv, TypeOK
<1>5. TaskInv' /\ CountdownMeansWaiting'
  BY DEF TaskInv, CountdownMeansWaiting
<1> QED
  BY <1>2, <1>3, <1>4, <1>5
-----------------------------------------------------------------------------
(* Windows.  Each of these steps changes one window at most.               *)

\* A change of status or buttons that keeps the device of the window.
LEMMA OpenKeyStep ==
  ASSUME IndInv, NEW f \in Windows, openKey(f)
  PROVE  IndInv'
<1> USE DEF IndInv, openKey, Event, objects
<1>1. /\ \A g \in Windows \ {f} : win'[g] = win[g] /\ task'[g] = task[g]
      /\ win'[f].dev = win[f].dev /\ ~win'[f].enabled /\ task'[f] = "queued"
  BY DEF TypeOK, DisableButtons
<1>2. TypeOK'
  <2>1. [win[f] EXCEPT !.enabled = FALSE, !.status = "accept", !.timeSpent = 0] \in WindowRecord
    <3>1. win[f] \in WindowRecord
      BY DEF TypeOK, WindowRecord
    <3>2. 0 \in 0..UIntMax
      BY PluginAssumption
    <3> QED
      BY <3>1, <3>2, ChangedWindowType
  <2>2. win' \in [Windows -> WindowRecord]
    BY <2>1 DEF TypeOK, WindowRecord, DisableButtons
  <2> QED
    BY <2>2 DEF TypeOK, WindowRecord
<1>3. CallInv'
  BY DEF CallInv, UIFree, NoCall
<1>4. HeldInv' /\ TaskInv' /\ CountdownMeansWaiting'
  BY <1>1 DEF HeldInv, TaskInv, CountdownMeansWaiting
<1> QED
  BY <1>2, <1>3, <1>4

LEMMA TypeChangedStep ==
  ASSUME IndInv, NEW f \in Windows, typeChanged(f)
  PROVE  IndInv'
<1> USE DEF IndInv, typeChanged, Event, objects
<1>1. \A g \in Windows : /\ win'[g].dev = win[g].dev /\ win'[g].enabled = win[g].enabled
                         /\ win'[g].timeSpent = win[g].timeSpent
  BY DEF TypeOK
<1>2. TypeOK'
  <2>1. [win[f] EXCEPT !.status = "hint"] \in WindowRecord
    BY DEF TypeOK, WindowRecord
  <2>2. win' \in [Windows -> WindowRecord]
    BY <2>1 DEF TypeOK, WindowRecord
  <2> QED
    BY <2>2 DEF TypeOK, WindowRecord
<1>3. CallInv'
  BY DEF CallInv, UIFree
<1>4. HeldInv' /\ TaskInv' /\ CountdownMeansWaiting'
  BY <1>1 DEF HeldInv, TaskInv, CountdownMeansWaiting
<1> QED
  BY <1>2, <1>3, <1>4

\* A window without a task that is not shown any more can go, and its KPL.
LEMMA ReleaseInv ==
  ASSUME IndInv, NEW f \in Windows, UIFree, ReleaseUnless(FALSE, f),
         UNCHANGED <<provs, native, ui, left, late>>,
         shown' \in {shown, NoWindow}, shown' # f,
         task' = [task EXCEPT ![f] = "none"],
         abandoned' \in BOOLEAN, abandoned => abandoned',
         \A g \in Windows \ {f} : abandoned' \/ task[g] = "none" \/ shown' = shown
  PROVE  IndInv'
<1> USE DEF IndInv, ReleaseUnless
<1>1. NoForm \in WindowRecord /\ NoForm.timeSpent = Stopped
  BY NewWindowType DEF NoForm
<1>2. /\ win'[f] = NoForm /\ kpl'[f] = "unreferenced" /\ task'[f] = "none"
      /\ \A g \in Windows \ {f} : win'[g] = win[g] /\ kpl'[g] = kpl[g] /\ task'[g] = task[g]
  BY DEF TypeOK
<1>3. TypeOK'
  <2>1. win' \in [Windows -> WindowRecord]
    BY <1>1 DEF TypeOK, WindowRecord
  <2> QED
    BY <2>1 DEF TypeOK, WindowRecord
<1>4. CallInv'
  BY DEF CallInv, UIFree, NoCall
<1>5. HeldInv'
  BY <1>2, PluginAssumption DEF HeldInv
<1>6. TaskInv' /\ CountdownMeansWaiting'
  BY <1>1, <1>2 DEF TaskInv, CountdownMeansWaiting
<1> QED
  BY <1>3, <1>4, <1>5, <1>6

\* The button Cancel is enabled: the window has no task.
LEMMA CancelStep ==
  ASSUME IndInv, NEW f \in Windows, Cancel(f)
  PROVE  IndInv'
<1> USE DEF IndInv, Cancel, Event
<1>1. task[f] = "none" /\ task' = [task EXCEPT ![f] = "none"]
  BY DEF TaskInv, TypeOK
<1>2. \A g \in Windows \ {f} : abandoned \/ task[g] = "none"
  BY DEF TaskInv
<1> QED
  BY <1>1, <1>2, ReleaseInv, PluginAssumption DEF TypeOK

\* The close box: a task that runs keeps the window.
LEMMA CloseStep ==
  ASSUME IndInv, NEW f \in Windows, Close(f)
  PROVE  IndInv'
<1> USE DEF IndInv, Close, Event
<1>1. \A g \in Windows \ {f} : abandoned \/ task[g] = "none"
  BY DEF TaskInv
<1>2. CASE task[f] = "none"
  <2>1. task' = [task EXCEPT ![f] = "none"]
    BY <1>2 DEF TypeOK
  <2> QED
    BY <1>1, <1>2, <2>1, ReleaseInv, PluginAssumption DEF TypeOK
<1>3. CASE task[f] # "none"
  <2>1. UNCHANGED <<win, kpl>> /\ abandoned' /\ shown' = NoWindow
    BY <1>3 DEF ReleaseUnless
  <2> QED
    BY <2>1, PluginAssumption
       DEF TypeOK, CallInv, UIFree, NoCall, HeldInv, TaskInv, CountdownMeansWaiting
<1> QED
  BY <1>2, <1>3

\* What follows a task: the window goes, or is usable again.
LEMMA ContinueStep ==
  ASSUME IndInv, NEW f \in Windows, Continue(f)
  PROVE  IndInv'
<1> USE DEF IndInv, Continue
<1>1. CASE ReleaseUnless(FALSE, f) /\ shown' = IF shown = f THEN NoWindow ELSE shown
  <2>1. \A g \in Windows \ {f} : abandoned \/ task[g] = "none" \/ shown' = shown
    BY <1>1 DEF TaskInv
  <2> QED
    BY <1>1, <2>1, ReleaseInv, PluginAssumption DEF TypeOK
<1>2. CASE /\ UNCHANGED <<shown, kpl>>
           /\ win' = [win EXCEPT ![f] =
                 [@ EXCEPT !.timeSpent = StopTimer(f), !.enabled = EnableButtons(f),
                    !.status = IF task[f] = "KPLException" THEN "error"
                               ELSE win[f].status]]
  <2>1. /\ \A g \in Windows \ {f} : win'[g] = win[g] /\ task'[g] = task[g]
        /\ win'[f].dev = win[f].dev /\ win'[f].timeSpent = Stopped /\ task'[f] = "none"
    BY <1>2 DEF TypeOK, StopTimer
  <2>2. TypeOK'
    <3>1. win[f] \in WindowRecord
      BY DEF TypeOK, WindowRecord
    <3>2. PICK s \in {"hint", "accept", "countdown", "error"} :
            win'[f] = [win[f] EXCEPT !.timeSpent = Stopped, !.enabled = TRUE, !.status = s]
      BY <1>2, <3>1 DEF TypeOK, StopTimer, EnableButtons, WindowRecord
    <3>3. win'[f] \in WindowRecord
      <4>1. Stopped \in {Stopped} \cup 0..UIntMax /\ TRUE \in BOOLEAN
        OBVIOUS
      <4>2. [win[f] EXCEPT !.timeSpent = Stopped, !.enabled = TRUE, !.status = s]
              \in WindowRecord
        BY <3>1, <4>1, ChangedWindowType, Zenon
      <4> QED
        BY <3>2, <4>2, Zenon
    <3>4. win' \in [Windows -> WindowRecord]
      BY <1>2, <2>1, <3>3 DEF TypeOK, WindowRecord
    <3> QED
      BY <1>2, <3>4 DEF TypeOK, WindowRecord
  <2>3. CallInv'
    BY <1>2 DEF CallInv, UIFree, NoCall
  <2>4. HeldInv' /\ TaskInv' /\ CountdownMeansWaiting'
    BY <1>2, <2>1 DEF HeldInv, TaskInv, CountdownMeansWaiting
  <2> QED
    BY <2>2, <2>3, <2>4
<1> QED
  BY <1>1, <1>2
-----------------------------------------------------------------------------
(* Tasks and time *)

\* A task goes on, or ends, and stays the task of its window.
LEMMA TaskStep ==
  ASSUME IndInv, NEW f \in Windows,
         Start(f) \/ FirstPart(f) \/ Finish(f) \/ TimeOut(f)
  PROVE  IndInv'
<1>1. /\ UNCHANGED <<objects, ui, shown, win, abandoned>>
      /\ task[f] # "none"
      /\ \E v \in TaskValues \ {"none"} : task' = [task EXCEPT ![f] = v]
      /\ \E n \in 0..TimeoutKey : left' = [left EXCEPT ![f] = n]
      /\ late' \in SUBSET Windows
  <2>1. CASE Start(f)
    <3>1. TimeoutKey \in 0..TimeoutKey /\ "reading" \in TaskValues
      BY PluginAssumption DEF TaskValues
    <3> QED
      BY <2>1, <3>1 DEF Start, IndInv, TypeOK, objects
  <2>2. CASE FirstPart(f)
    <3>1. task' = [task EXCEPT ![f] = "reading"]
      BY <2>2 DEF FirstPart, IndInv, TypeOK
    <3>2. TimeoutKey \in 0..TimeoutKey /\ "reading" \in TaskValues
      BY PluginAssumption DEF TaskValues
    <3> QED
      BY <2>2, <3>1, <3>2 DEF FirstPart, IndInv, TypeOK, objects
  <2>3. CASE Finish(f)
    <3>1. 0 \in 0..TimeoutKey /\ Ended \subseteq TaskValues \ {"none"}
      BY PluginAssumption DEF TaskValues, Ended
    <3> QED
      BY <2>3, <3>1 DEF Finish, Forget, IndInv, TypeOK, objects
  <2>4. CASE TimeOut(f)
    <3>1. 0 \in 0..TimeoutKey /\ "KPLException" \in TaskValues \ {"none"}
      BY PluginAssumption DEF TaskValues, Ended
    <3> QED
      BY <2>4, <3>1 DEF TimeOut, Forget, IndInv, TypeOK, objects
  <2> QED
    BY <2>1, <2>2, <2>3, <2>4
<1>2. PICK v \in TaskValues \ {"none"} : task' = [task EXCEPT ![f] = v]
  BY <1>1
<1>3. \A g \in Windows : task'[g] = "none" <=> task[g] = "none"
  BY <1>1, <1>2 DEF IndInv, TypeOK
<1>4. TypeOK'
  BY <1>1, <1>2 DEF IndInv, TypeOK, TaskValues, objects
<1>5. CallInv'
  BY <1>1, <1>3 DEF IndInv, CallInv, UIFree, objects
<1>6. HeldInv' /\ TaskInv' /\ CountdownMeansWaiting'
  BY <1>1, <1>3 DEF IndInv, HeldInv, TaskInv, CountdownMeansWaiting, objects
<1> QED
  BY <1>4, <1>5, <1>6 DEF IndInv

LEMMA SecondStep == IndInv /\ Second => IndInv'
<1> SUFFICES ASSUME IndInv, Second PROVE IndInv'
  OBVIOUS
<1> USE DEF IndInv, Second, objects
<1>1. \A f \in Windows :
        /\ win'[f] \in WindowRecord
        /\ win'[f].dev = win[f].dev /\ win'[f].enabled = win[f].enabled
        /\ win[f].timeSpent = Stopped => win'[f].timeSpent = Stopped
  <2> SUFFICES ASSUME NEW f \in Windows
               PROVE  /\ win'[f] \in WindowRecord
                      /\ win'[f].dev = win[f].dev /\ win'[f].enabled = win[f].enabled
                      /\ win[f].timeSpent = Stopped => win'[f].timeSpent = Stopped
    OBVIOUS
  <2>1. win[f] \in WindowRecord
    BY DEF TypeOK, WindowRecord
  <2>2. win'[f] = win[f] \/ (win'[f] = Ticked(win[f]) /\ win[f].timeSpent # Stopped)
    OBVIOUS
  <2> QED
    BY <2>1, <2>2, TickedType
<1>2. TypeOK'
  <2>1. win' \in [Windows -> WindowRecord]
    BY <1>1
  <2>2. left' \in [Windows -> 0..TimeoutKey]
    BY PluginAssumption DEF TypeOK
  <2> QED
    BY <2>1, <2>2 DEF TypeOK, WindowRecord
<1>3. CallInv'
  BY DEF CallInv, UIFree
<1>4. HeldInv' /\ TaskInv' /\ CountdownMeansWaiting'
  BY <1>1 DEF HeldInv, TaskInv, CountdownMeansWaiting
<1> QED
  BY <1>2, <1>3, <1>4
-----------------------------------------------------------------------------
(* The theorems *)

LEMMA Step == IndInv /\ [Next]_vars => IndInv'
<1> SUFFICES ASSUME IndInv, [Next]_vars PROVE IndInv'
  OBVIOUS
<1>1. CASE UNCHANGED vars
  BY <1>1 DEF vars, objects, IndInv, TypeOK, CallInv, UIFree, HeldInv, TaskInv,
              CountdownMeansWaiting
<1>2. CASE Initialize \/ Terminate
  BY <1>2, InitializeStep, TerminateStep
<1>3. ASSUME NEW d \in Devices, GetKey(d) \/ FinalizeDevice(d) PROVE IndInv'
  BY <1>3, GetKeyStep, FinalizeDeviceStep
<1>4. CASE getValidSlots \/ ShowDialog \/ showException
  BY <1>4, GetValidSlotsStep, ShowDialogStep, ShowExceptionStep
<1>5. ASSUME NEW f \in Windows,
             openKey(f) \/ typeChanged(f) \/ Cancel(f) \/ Close(f) \/ Continue(f)
      PROVE  IndInv'
  BY <1>5, OpenKeyStep, TypeChangedStep, CancelStep, CloseStep, ContinueStep
<1>6. ASSUME NEW f \in Windows, FinalizeKPL(f) PROVE IndInv'
  BY <1>6, FinalizeKPLStep
<1>7. ASSUME NEW f \in Windows, Start(f) \/ FirstPart(f) \/ Finish(f) \/ TimeOut(f)
      PROVE  IndInv'
  BY <1>7, TaskStep
<1>8. CASE Second
  BY <1>8, SecondStep
<1> QED
  BY <1>1, <1>2, <1>3, <1>4, <1>5, <1>6, <1>7, <1>8 DEF Next

\* Windows, tasks and objects of libkpl stay consistent, whatever the user
\* presses, whenever windows are closed, calls fail and finalizers run.
THEOREM Inductive == Spec => []IndInv
  BY InitInv, Step, PTL DEF Spec

\* The plugin keeps its types; TimeSpent wraps around within its UInt32.
THEOREM PluginTypes == Spec => []TypeOK
<1>1. IndInv => TypeOK
  BY DEF IndInv
<1> QED
  BY <1>1, Inductive, PTL

\* Until a window is closed during a call, whoever reads from a device is the
\* only one to use its handle: the buttons that openKey disables are enough,
\* for any number of devices and windows.
THEOREM OneUserOfHandle == Spec => []HandleHasOneUser
<1>1. IndInv => HandleHasOneUser
  <2> SUFFICES ASSUME IndInv, ~abandoned, NEW f \in Windows, task[f] = "reading"
               PROVE  /\ ui.dev # win[f].dev
                      /\ \A g \in Windows \ {f} : task[g] = "reading" => win[g].dev # win[f].dev
    BY DEF HandleHasOneUser
  <2>1. shown = f /\ \A g \in Windows \ {f} : task[g] = "none"
    BY DEF IndInv, TaskInv
  <2>2. UIFree /\ win[f].dev \in Devices
    BY <2>1, PluginAssumption DEF IndInv, CallInv, HeldInv
  <2>3. ui.dev = NoDevice
    BY <2>2 DEF IndInv, CallInv, NoCall
  <2> QED
    BY <2>1, <2>2, <2>3, PluginAssumption
<1> QED
  BY <1>1, Inductive, PTL

\* No finalizer frees a device or a KPL object that a call uses, although the C
\* interface counts no references: C# objects that keep each other are enough,
\* through any number of windows closed and after the plugin is unloaded.
THEOREM NothingFreed == Spec => []NothingFreedInUse
<1>1. IndInv => NothingFreedInUse
  BY DEF IndInv, CallInv, HeldInv, NothingFreedInUse, UIFree, TypeOK
<1> QED
  BY <1>1, Inductive, PTL

\* A timer runs only while its window has a task.
THEOREM CountdownStops == Spec => []CountdownMeansWaiting
<1>1. IndInv => CountdownMeansWaiting
  BY DEF IndInv
<1> QED
  BY <1>1, Inductive, PTL
=============================================================================
