---------------------------- MODULE MCLedgerApp ----------------------------
(***************************************************************************)
(* Values for the constants of LedgerApp that a cfg cannot write.          *)
(***************************************************************************)
EXTENDS LedgerApp, TLC

CONSTANTS w1, w2, n1, n2, bad, long

MCNameKey == (n1 :> w1) @@ (n2 :> w2)

Command(ins, p1, head, tail) ==
  [cla |-> CLA, ins |-> ins, p1 |-> p1, head |-> head, tail |-> tail]
Plain(ins) == Command(ins, 0, ShortHead, NoTail)

\* Commands the handlers refuse: a slot one too high, data one part too short
\* or too long, an unprintable name, an instruction or a class that is unknown.
Refused ==
  {Command(ins, p1, w1, NoTail) : ins \in {INS_STORE_KEY, INS_GET_KEY}, p1 \in {SlotCount}}
    \cup {Command(ins, 0, ShortHead, NoTail) : ins \in {INS_STORE_KEY, INS_GET_KEY}}
    \cup {Command(ins, 0, w2, n1) : ins \in {INS_STORE_KEY, INS_GET_KEY}}
    \cup {Command(INS_GET_KEY_FROM_NAME, 0, w2, t) : t \in {NoTail, long, bad}}
    \cup {Plain(INS_LAST), [Plain(INS_STORE_KEY) EXCEPT !.cla = 0]}

Served ==
  {Command(ins, s, w, NoTail) : ins \in {INS_STORE_KEY, INS_GET_KEY},
                                s \in Slots, w \in {w1, w2}}
    \cup {Command(INS_GET_KEY_FROM_NAME, 0, w1, n) : n \in {n1, n2}}
    \cup {Command(INS_GET_KEY_FROM_NAME, 0, w2, n1)}
    \cup {Plain(i) : i \in {INS_GET_APP_CONFIGURATION, INS_GET_VALID_SLOTS,
                            INS_ERASE_ALL_SLOTS}}

\* INVALID_STATE of the SDK, and what app_main throws if io_exchange returns 0.
Exceptions == {<<0, 9>>, <<105, 130>>}
NoExceptions == {}

MCRequests == Served \cup Refused
=============================================================================
