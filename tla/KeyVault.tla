------------------------------ MODULE KeyVault ------------------------------
(***************************************************************************)
(* What the LedgerKeePass device app promises the owner of the device,     *)
(* whatever messages, buffers and flash writes are used to keep it:        *)
(*                                                                         *)
(*   - an empty slot may be filled without a question;                     *)
(*   - anything that loses or reveals a key takes one consent of the user  *)
(*     to exactly that question, and a consent is good for one use.        *)
(*                                                                         *)
(* LedgerApp implements this specification when a flash write is not torn  *)
(* by a loss of power (see RefinesKeyVault in LedgerApp).                  *)
(***************************************************************************)
EXTENDS Approvals

CONSTANTS
  Slots,      \* the slots a key can be kept in
  Keys,       \* the keys and public keys that occur
  NoKey,      \* what an empty slot holds
  Names,      \* the database names keys are derived from
  NameKey     \* the key of each name

VARIABLES
  vault,      \* the key in each slot, or NoKey
  consent,    \* the question the user has just said yes to, or Blank
  given       \* the key being handed out, for whom it is sealed, or Nothing

vars == <<vault, consent, given>>

Nothing == [sealed |-> FALSE]
Sealed(key, pub) == [sealed |-> TRUE, key |-> key, pub |-> pub]

Init ==
  /\ vault = [s \in Slots |-> NoKey]
  /\ consent = Blank
  /\ given = Nothing

\* A key goes into an empty slot.
Put(s, k) ==
  /\ vault[s] = NoKey
  /\ vault' = [vault EXCEPT ![s] = k]
  /\ UNCHANGED <<consent, given>>

\* The user says yes to the question on the screen.
Agree(q) ==
  /\ consent = Blank
  /\ given = Nothing
  /\ consent' = q
  /\ UNCHANGED <<vault, given>>

\* The four uses of a consent.
Overwrite(s, k) ==
  /\ consent = EraseSlot(s)
  /\ vault[s] # NoKey
  /\ vault' = [vault EXCEPT ![s] = k]
  /\ consent' = Blank
  /\ UNCHANGED given

HandOut(s, pub) ==
  /\ consent = OpenSlot(s)
  /\ vault[s] # NoKey
  /\ given' = Sealed(vault[s], pub)
  /\ consent' = Blank
  /\ UNCHANGED vault

Derive(n, pub) ==
  /\ consent = OpenName(n)
  /\ given' = Sealed(NameKey[n], pub)
  /\ consent' = Blank
  /\ UNCHANGED vault

Clear ==
  /\ consent = EraseAll
  /\ vault' = [s \in Slots |-> NoKey]
  /\ consent' = Blank
  /\ UNCHANGED given

\* The operation is over, or was given up (an error, a reset, a power loss).
Finish ==
  /\ consent' = Blank
  /\ given' = Nothing
  /\ UNCHANGED vault

Next ==
  \/ \E s \in Slots, k \in Keys : Put(s, k) \/ Overwrite(s, k) \/ HandOut(s, k)
  \/ \E n \in Names, k \in Keys : Derive(n, k)
  \/ \E q \in Questions(Slots, Names) : Agree(q)
  \/ Clear
  \/ Finish

Spec == Init /\ [][Next]_vars
=============================================================================
