---------------------------- MODULE ErrorOrProofs ----------------------------
(***************************************************************************)
(* Theorems about ErrorOr, for every finite set of objects and every set   *)
(* of errors.                                                              *)
(***************************************************************************)
EXTENDS ErrorOr, FiniteSetTheorems, TLAPS

Types ==
  /\ exists \subseteq Objects
  /\ Valid_ \in [Objects -> BOOLEAN]
  /\ Data_ \in [Objects -> {Live, Dead, Unset} \cup Errors]
  /\ owned \in Int

\* NothingLeaked needs the tag, as reset() goes by it.
LifeInv == Types /\ TagTellsTruth /\ NothingLeaked

Alive == {o \in exists : Data_[o] = Live}

\* The names of what is in a union are different.
LEMMA Distinct ==
  /\ Live # Dead /\ Live # Unset /\ Dead # Unset
  /\ Live \notin Errors /\ Dead \notin Errors /\ Unset \notin Errors
BY ErrorOrAssumption DEF Live, Dead, Unset

LEMMA AliveFinite == ASSUME Types PROVE IsFiniteSet(Alive)
BY ErrorOrAssumption, FS_Subset DEF Types, Alive

\* reset() ends the lifetime of a value exactly in the objects that have one.
LEMMA EndsAlive ==
  ASSUME LifeInv, NEW o \in exists
  PROVE  Ends(o) = IF o \in Alive THEN 1 ELSE 0
BY DEF LifeInv, Types, TagTellsTruth, Alive, Ends

\* Error_ is an error when the tag says so, or was never set.
LEMMA ErrorIsNoValue ==
  ASSUME NEW p \in Objects
  PROVE  errorValue(p) \in {Unset} \cup Errors
BY DEF errorValue

LEMMA InitLife == Init => LifeInv
<1> SUFFICES ASSUME Init PROVE LifeInv
  OBVIOUS
<1>1. Types /\ TagTellsTruth
  BY DEF Init, Types, TagTellsTruth
<1>2. Alive = {}
  BY DEF Init, Alive
<1>3. NothingLeaked
  BY <1>2, FS_EmptySet DEF Init, NothingLeaked, Alive
<1> QED
  BY <1>1, <1>3 DEF LifeInv

\* An object that becomes an error, where there was none.
LEMMA ErrorStep ==
  ASSUME LifeInv, NEW o \in Objects, o \notin exists,
         NEW err \in {Unset} \cup Errors,
         Become(o, FALSE, err), UNCHANGED owned
  PROVE  LifeInv'
<1>1. Types' /\ TagTellsTruth'
  BY Distinct DEF LifeInv, Types, TagTellsTruth, Become
<1>2. Alive' = Alive
  BY Distinct DEF LifeInv, Types, Alive, Become
<1>3. NothingLeaked'
  BY <1>2 DEF LifeInv, NothingLeaked, Alive
<1> QED
  BY <1>1, <1>3 DEF LifeInv

LEMMA ValueStep ==
  ASSUME LifeInv, NEW o \in Objects, FromValue(o)
  PROVE  LifeInv'
<1>1. Types' /\ TagTellsTruth'
  BY Distinct DEF LifeInv, Types, TagTellsTruth, FromValue, Become
<1>2. Alive' = Alive \cup {o} /\ o \notin Alive
  BY Distinct DEF LifeInv, Types, Alive, FromValue, Become
<1>3. Cardinality(Alive') = Cardinality(Alive) + 1
  BY <1>2, AliveFinite, FS_AddElement DEF LifeInv
<1>4. NothingLeaked'
  BY <1>3 DEF LifeInv, NothingLeaked, Alive, FromValue
<1> QED
  BY <1>1, <1>4 DEF LifeInv

LEMMA DestroyStep ==
  ASSUME LifeInv, NEW o \in Objects, Destroy(o)
  PROVE  LifeInv'
<1>1. o \in exists /\ owned' = owned - Ends(o)
  BY DEF Destroy
<1>2. Types' /\ TagTellsTruth'
  BY Distinct, <1>1 DEF LifeInv, Types, TagTellsTruth, Destroy, Ends
<1>3. Alive' = Alive \ {o}
  BY Distinct DEF LifeInv, Types, Alive, Destroy
<1>4. Cardinality(Alive') = Cardinality(Alive) - (IF o \in Alive THEN 1 ELSE 0)
  BY <1>3, AliveFinite, FS_RemoveElement, FS_CardinalityType DEF LifeInv
<1>5. NothingLeaked'
  BY <1>1, <1>4, EndsAlive DEF LifeInv, NothingLeaked, Alive
<1> QED
  BY <1>2, <1>5 DEF LifeInv

\* Moves and assignments: ended is what the object assigned to loses.
LEMMA TakeStep ==
  ASSUME LifeInv, NEW o \in Objects, NEW p \in exists, o # p,
         NEW ended \in Int, ended = (IF o \in Alive THEN 1 ELSE 0),
         Take(o, p, ended)
  PROVE  LifeInv'
<1> USE DEF LifeInv
<1>1. CASE Valid_[p]
  <2>1. /\ exists' = exists \cup {o}
        /\ Valid_' = [Valid_ EXCEPT ![o] = TRUE]
        /\ Data_' = [Data_ EXCEPT ![o] = Live, ![p] = Dead]
        /\ owned' = owned - ended + 1 - Ends(p)
    BY <1>1 DEF Take, CopyTag, reset, Types
  <2>2. Types' /\ TagTellsTruth'
    BY <2>1, <1>1, Distinct DEF Types, TagTellsTruth, Ends
  <2>3. Alive' = (Alive \ {p}) \cup {o}
    BY <2>1, Distinct DEF Types, Alive
  <2> DEFINE Rest == (Alive \ {p}) \ {o}
  <2>4. /\ IsFiniteSet(Alive \ {p})
        /\ Cardinality(Alive \ {p}) = Cardinality(Alive) - (IF p \in Alive THEN 1 ELSE 0)
    BY AliveFinite, FS_RemoveElement, FS_CardinalityType
  <2>5. /\ IsFiniteSet(Rest)
        /\ Cardinality(Rest) = Cardinality(Alive \ {p}) - ended
    <3>1. o \in Alive \ {p} <=> o \in Alive
      OBVIOUS
    <3>2. Cardinality(Alive \ {p}) \in Nat
      BY <2>4, FS_CardinalityType
    <3>3. Cardinality(Rest)
            = IF o \in Alive \ {p} THEN Cardinality(Alive \ {p}) - 1 ELSE Cardinality(Alive \ {p})
      BY <2>4, FS_RemoveElement
    <3> HIDE DEF Rest
    <3>4. Cardinality(Rest) = Cardinality(Alive \ {p}) - ended
      BY <3>1, <3>2, <3>3
    <3>5. IsFiniteSet(Rest)
      BY <2>4, FS_RemoveElement DEF Rest
    <3> QED
      BY <3>4, <3>5
  <2>6. Alive' = Rest \cup {o} /\ o \notin Rest
    BY <2>3
  <2>7. Cardinality(Alive') = Cardinality(Rest) + 1
    BY <2>5, <2>6, FS_AddElement
  <2>8. Cardinality(Alive) \in Nat
    BY AliveFinite, FS_CardinalityType
  <2>9. NothingLeaked'
    BY <2>1, <2>4, <2>5, <2>7, <2>8, EndsAlive DEF NothingLeaked, Alive
  <2> QED
    BY <2>2, <2>9
<1>2. CASE ~Valid_[p]
  <2>1. /\ exists' = exists \cup {o}
        /\ Valid_' = [Valid_ EXCEPT ![o] = FALSE]
        /\ Data_' = [Data_ EXCEPT ![o] = errorValue(p)]
        /\ owned' = owned - ended
    BY <1>2 DEF Take, CopyTag, Types
  <2>2. errorValue(p) \in {Unset} \cup Errors
    BY ErrorIsNoValue DEF Types
  <2>3. Types' /\ TagTellsTruth'
    BY <2>1, <2>2, Distinct DEF Types, TagTellsTruth
  <2>4. Alive' = Alive \ {o}
    BY <2>1, <2>2, Distinct DEF Types, Alive
  <2>5. Cardinality(Alive') = Cardinality(Alive) - ended
    BY <2>4, AliveFinite, FS_RemoveElement, FS_CardinalityType
  <2>6. NothingLeaked'
    BY <2>1, <2>5 DEF NothingLeaked, Alive
  <2> QED
    BY <2>3, <2>6
<1> QED
  BY <1>1, <1>2

LEMMA LifeStep == LifeInv /\ [Next]_vars => LifeInv'
<1> SUFFICES ASSUME LifeInv, [Next]_vars PROVE LifeInv'
  OBVIOUS
<1>1. CASE UNCHANGED vars
  BY <1>1 DEF vars, LifeInv, Types, TagTellsTruth, NothingLeaked
<1>2. ASSUME NEW o \in Objects, Default(o) PROVE LifeInv'
  BY <1>2, ErrorStep DEF Default
<1>3. ASSUME NEW o \in Objects, FromValue(o) PROVE LifeInv'
  BY <1>3, ValueStep
<1>4. ASSUME NEW o \in Objects, Destroy(o) PROVE LifeInv'
  BY <1>4, DestroyStep
<1>5. ASSUME NEW o \in Objects, NEW err \in Errors, FromResult(o, err) PROVE LifeInv'
  BY <1>5, ErrorStep DEF FromResult
<1>6. ASSUME NEW o \in Objects, NEW p \in Objects, FromErrorOf(o, p) PROVE LifeInv'
  BY <1>6, ErrorStep, ErrorIsNoValue DEF FromErrorOf
<1>7. ASSUME NEW o \in Objects, NEW p \in Objects, Move(o, p) PROVE LifeInv'
  <2>1. o \notin exists /\ p \in exists /\ Take(o, p, 0)
    BY <1>7 DEF Move
  <2>2. o # p /\ o \notin Alive
    BY <2>1 DEF Alive
  <2> QED
    BY <2>1, <2>2, TakeStep
<1>8. ASSUME NEW o \in Objects, NEW p \in Objects, Assign(o, p) PROVE LifeInv'
  <2>1. CASE o = p
    BY <2>1, <1>8, <1>1 DEF Assign
  <2>2. CASE o # p
    <3>1. o \in exists /\ p \in exists /\ Take(o, p, Ends(o))
      BY <2>2, <1>8 DEF Assign, ResetFirst
    <3>2. Ends(o) = IF o \in Alive THEN 1 ELSE 0
      BY <3>1, EndsAlive
    <3> QED
      BY <2>2, <3>1, <3>2, TakeStep
  <2> QED
    BY <2>1, <2>2
<1> QED
  BY <1>1, <1>2, <1>3, <1>4, <1>5, <1>6, <1>7, <1>8 DEF Next

LEMMA LifeAlways == Spec => []LifeInv
BY InitLife, LifeStep, PTL DEF Spec

\* The tag tells what is in the union, after any sequence of constructions,
\* moves, assignments and destructions of any number of objects: operator bool
\* and hasError never mistake an error for a value.
THEOREM TagIsRight == Spec => []TagTellsTruth
<1>1. LifeInv => TagTellsTruth
  BY DEF LifeInv
<1> QED
  BY <1>1, LifeAlways, PTL

\* Nor is any value abandoned or written over before its destructor has run: as
\* many have been constructed and not destroyed as there are in the objects.
THEOREM NoLeak == Spec => []NothingLeaked
<1>1. LifeInv => NothingLeaked
  BY DEF LifeInv
<1> QED
  BY <1>1, LifeAlways, PTL
=============================================================================
