---------------------------- MODULE MCKplSystem ----------------------------
(***************************************************************************)
(* Values for the constants of KplSystem that a cfg cannot write.          *)
(***************************************************************************)
EXTENDS KplSystem, TLC

CONSTANTS n1, nk

MCNameKey == n1 :> nk

\* Every command libkpl can send with the arguments of this instance.
MCRequests ==
  {Lib!STORE_KEY(s, k) : s \in SlotArgs, k \in Keys}
    \cup {Lib!GET_KEY(s, p) : s \in SlotArgs, p \in Pubs}
    \cup {Lib!GET_KEY_FROM_NAME(n, p) : n \in NameArgs, p \in Pubs}
    \cup {Lib!GET_APP_CONFIGURATION, Lib!GET_VALID_KEY_SLOTS, Lib!ERASE_ALL_SLOTS}

NoExceptions == {}

\* No definition tells the keys, or the key pairs, from each other.
MCSymmetry == Permutations(Keys) \cup Permutations(Pubs)
=============================================================================
