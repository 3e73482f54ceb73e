----------------------------- MODULE Transport -----------------------------
(***************************************************************************)
(* What LedgerDevice::exchange (src/libkpl/include/kpl/ledger_device.h)    *)
(* promises its callers, over any transport: the device gets a command     *)
(* whole or not at all and answers what it has got in order; an exchange   *)
(* returns the oldest answer that is not lost, or fails.  One that fails   *)
(* may leave an answer behind, which a later one then returns; connect may *)
(* or may not put an end to that.                                          *)
(*                                                                         *)
(* A transport may lose the beginnings of answers (framed = FALSE) when an *)
(* exchange fails; what it then returns may be part of one, or of several. *)
(***************************************************************************)
EXTENDS Naturals, Sequences

CONSTANTS
  Commands,
  Replies   \* what the device can answer

VARIABLES
  busy,      \* an exchange is in progress
  command,   \* its command, or that of the last one
  commands,  \* sent, and not received by the device
  owed,      \* received by the device, and not answered
  replies,   \* answers that have not been read, with what they answer
  answer,    \* what the last exchange returned
  failed,    \* an exchange has failed and may have left something behind
  framed     \* the transport knows where answers begin

vars == <<busy, command, commands, owed, replies, answer, failed, framed>>

None == [res |-> "none"]
Failure == [res |-> "failure"]
Garbled == [res |-> "garbled"]
Success(reply) == [res |-> "success", reply |-> reply]

\* s is part of t: what came first, or last, may be lost.
PartOf(s, t) == \E i \in 1..(Len(t) + 1), j \in 0..Len(t) : s = SubSeq(t, i, j)

Losing == PartOf(commands', commands) /\ PartOf(owed', owed) /\ PartOf(replies', replies)

NothingLeft == commands' = <<>> /\ owed' = <<>> /\ replies' = <<>>

Connect ==
  /\ ~busy
  /\ Losing
  /\ answer' = None
  /\ \/ UNCHANGED <<failed, framed>>
     \/ failed' = FALSE /\ framed' = TRUE /\ NothingLeft
  /\ UNCHANGED <<busy, command>>

Begin(c) ==
  /\ ~busy
  /\ busy' = TRUE /\ command' = c /\ answer' = None
  /\ commands' \in {Append(commands, c), commands}
  /\ UNCHANGED <<owed, replies, failed, framed>>

Receive ==
  /\ commands # <<>>
  /\ owed' = Append(owed, Head(commands))
  /\ commands' = Tail(commands)
  /\ UNCHANGED <<busy, command, replies, answer, failed, framed>>

Reply(r) ==
  /\ owed # <<>>
  /\ replies' = Append(replies, [to |-> Head(owed), is |-> r])
  /\ owed' = Tail(owed)
  /\ UNCHANGED <<busy, command, commands, answer, failed, framed>>

Lose ==
  /\ Losing
  /\ UNCHANGED <<busy, command, answer, failed, framed>>

Succeed ==
  /\ busy /\ replies # <<>>
  /\ busy' = FALSE
  /\ answer' = Success(Head(replies))
  /\ replies' = Tail(replies)
  /\ UNCHANGED <<command, commands, owed, failed, framed>>

Fail ==
  /\ busy
  /\ busy' = FALSE
  /\ answer' = Failure /\ failed' = TRUE /\ framed' \in {framed, FALSE}
  /\ Losing
  /\ UNCHANGED command

\* An exchange refused before anything is sent.
Refuse(c) ==
  /\ ~busy
  /\ command' = c
  /\ answer' = Failure /\ failed' \in {failed, TRUE}
  /\ UNCHANGED <<busy, commands, owed, replies, framed>>

Garble ==
  /\ ~framed /\ busy
  /\ busy' = FALSE
  /\ answer' = Garbled
  /\ Losing
  /\ UNCHANGED <<command, failed, framed>>

Init ==
  /\ busy = FALSE /\ command \in Commands
  /\ commands = <<>> /\ owed = <<>> /\ replies = <<>>
  /\ answer = None /\ failed = FALSE /\ framed = TRUE

Next ==
  \/ Connect
  \/ \E c \in Commands : Begin(c) \/ Refuse(c)
  \/ Receive \/ Lose \/ Succeed \/ Fail \/ Garble
  \/ \E r \in Replies : Reply(r)

Spec == Init /\ [][Next]_vars
-----------------------------------------------------------------------------
\* Nothing in an answer says which command it answers; still, until an exchange
\* fails, each one returns the answer to its own command.
OwnAnswer == (~failed /\ answer.res = "success") => answer.reply.to = command
=============================================================================
