------------------------------- MODULE ErrorOr -------------------------------
(***************************************************************************)
(* ErrorOr<T> (src/libkpl/include/kpl/errors.h): a tagged union of a value *)
(* and an error, which begins and ends the lifetime of the value itself.   *)
(* Objects are made, moved, assigned and destroyed in any order in which   *)
(* the language allows to write these down.  A destructor that runs on a   *)
(* value that is no more changes nothing here.                             *)
(***************************************************************************)
EXTENDS Integers, FiniteSets

CONSTANTS
  Objects,  \* the variables that hold an ErrorOr
  Errors    \* values of Result

VARIABLES
  exists,   \* the objects between their construction and destruction
  Valid_,
  Data_,    \* what is in the union: an error, a value of T, or neither
  owned     \* history: the values constructed and not destroyed

vars == <<exists, Valid_, Data_, owned>>

Live == "value"        \* a value of T in its lifetime
Dead == "destroyed"    \* what its destructor has left
Unset == "unset"       \* never written

ASSUME ErrorOrAssumption ==
  /\ IsFiniteSet(Objects)
  /\ {Live, Dead, Unset} \cap Errors = {}

\* What reading Error_ yields, of whatever was written last.
errorValue(o) == IF Data_[o] \in Errors THEN Data_[o] ELSE Unset
-----------------------------------------------------------------------------
\* o becomes an ErrorOr with this tag and this in its union.
Become(o, valid, data) ==
  /\ exists' = exists \cup {o}
  /\ Valid_' = [Valid_ EXCEPT ![o] = valid]
  /\ Data_' = [Data_ EXCEPT ![o] = data]

\* ErrorOr(), which does not set Error_.
Default(o) ==
  /\ o \notin exists
  /\ Become(o, FALSE, Unset)
  /\ UNCHANGED owned

\* ErrorOr(ErrorTag, Result)
FromResult(o, err) ==
  /\ o \notin exists
  /\ Become(o, FALSE, err)
  /\ UNCHANGED owned

\* ErrorOr(ErrorTag, ErrorOr<U> const &)
FromErrorOf(o, p) ==
  /\ o \notin exists /\ p \in exists
  /\ Become(o, FALSE, errorValue(p))
  /\ UNCHANGED owned

\* ErrorOr(Args &&...)
FromValue(o) ==
  /\ o \notin exists
  /\ Become(o, TRUE, Live)
  /\ owned' = owned + 1

\* reset() ends the lifetime of the value, and leaves the tag as it was.
reset(o) == IF Valid_[o] THEN Dead ELSE Data_[o]
Ends(o) == IF Valid_[o] /\ Data_[o] = Live THEN 1 ELSE 0

\* Mutant: a source in error does not clear the tag.
SetTag(o, p) == Valid_[o] \/ Valid_[p]

CopyTag(o, p) == Valid_[p]

\* What the move constructor and the assignment have in common: the value of p
\* is moved and then destroyed, its error is copied.
Take(o, p, ended) ==
  /\ exists' = exists \cup {o}
  /\ Valid_' = [Valid_ EXCEPT ![o] = CopyTag(o, p)]
  /\ \/ /\ Valid_[p]
        /\ Data_' = [Data_ EXCEPT ![o] = Live, ![p] = reset(p)]
        /\ owned' = owned - ended + 1 - Ends(p)
     \/ /\ ~Valid_[p]
        /\ Data_' = [Data_ EXCEPT ![o] = errorValue(p)]
        /\ owned' = owned - ended

\* ErrorOr(ErrorOr &&)
Move(o, p) ==
  /\ o \notin exists /\ p \in exists
  /\ Take(o, p, 0)

\* Mutant: operator= does not reset what it assigns to.
NoReset(o) == 0

ResetFirst(o) == Ends(o)

\* operator=(ErrorOr &&)
Assign(o, p) ==
  /\ {o, p} \subseteq exists
  /\ \/ o = p /\ UNCHANGED vars
     \/ o # p /\ Take(o, p, ResetFirst(o))

Destroy(o) ==
  /\ o \in exists
  /\ exists' = exists \ {o}
  /\ Data_' = [Data_ EXCEPT ![o] = Unset]
  /\ owned' = owned - Ends(o)
  /\ Valid_' = [Valid_ EXCEPT ![o] = FALSE]

Init ==
  /\ exists = {} /\ owned = 0
  /\ Valid_ = [o \in Objects |-> FALSE]
  /\ Data_ = [o \in Objects |-> Unset]

Next ==
  \E o \in Objects :
    \/ Default(o) \/ FromValue(o) \/ Destroy(o)
    \/ \E err \in Errors : FromResult(o, err)
    \/ \E p \in Objects : FromErrorOf(o, p) \/ Move(o, p) \/ Assign(o, p)

Spec == Init /\ [][Next]_vars
-----------------------------------------------------------------------------
(* Properties *)

\* The tag of a union tells what was written to it last, through all moves and
\* assignments between errors and values: operator bool never takes an error
\* for a value or the other way round.
TagTellsTruth == \A o \in exists : Valid_[o] <=> Data_[o] \in {Live, Dead}

\* No value is overwritten or abandoned before its destructor has run, although
\* reset() is called by hand: each one alive is in some object.
NothingLeaked == owned = Cardinality({o \in exists : Data_[o] = Live})

\* get() asserts that the object is valid, and returns the value: it is then in
\* its lifetime, so that the destructor, too, finds a value to destroy.
ValidIsAlive == \A o \in exists : Valid_[o] => Data_[o] = Live
=============================================================================
