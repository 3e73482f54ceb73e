----------------------------- MODULE Approvals -----------------------------
(***************************************************************************)
(* The questions the device can put to its user, as the two text lines of  *)
(* the approval screen identify them (ApproveLine1 and ApproveLine2,       *)
(* src/app/src/approve.c:6).  The wording is dropped; what the text names, *)
(* a slot or a database name, is kept.                                     *)
(***************************************************************************)

\* Both lines are zero-initialised: nothing has been asked yet.
Blank == [title |-> "blank"]

\* "Slot #X already set." / "Erase?"
EraseSlot(slot) == [title |-> "erase slot", slot |-> slot]

\* "Database open slot" / "Slot #X"
OpenSlot(slot) == [title |-> "open slot", slot |-> slot]

\* "Database open name" / "'name'"
OpenName(name) == [title |-> "open name", name |-> name]

\* "Erase all slots?" / "They will be erased forever!"
EraseAll == [title |-> "erase all"]

Questions(slots, names) ==
  {EraseSlot(s) : s \in slots} \cup {OpenSlot(s) : s \in slots}
    \cup {OpenName(n) : n \in names} \cup {EraseAll}
=============================================================================
