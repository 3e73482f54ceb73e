-------------------------- MODULE TransportProofs --------------------------
(***************************************************************************)
(* Theorems about Transport, for any commands and replies.  A transport    *)
(* that implements it inherits them.                                       *)
(***************************************************************************)
EXTENDS Transport, SequenceTheorems, TLAPS

\* What may be under way for one command: nothing, or one thing.
AtMost(s, x) == s = <<>> \/ s = <<x>>
OneReply == replies = <<>> \/ \E r \in Replies : replies = <<[to |-> command, is |-> r]>>

\* Until an exchange fails: there is at most the command in progress, or its
\* answer, and nothing between two exchanges.
OwnInv ==
  ~failed =>
    /\ framed
    /\ AtMost(commands, command) /\ AtMost(owed, command) /\ OneReply
    /\ commands # <<>> => owed = <<>> /\ replies = <<>>
    /\ owed # <<>> => replies = <<>>
    /\ ~busy => commands = <<>> /\ owed = <<>> /\ replies = <<>>
    /\ answer.res = "success" => answer.reply.to = command

\* A part of nothing is nothing; of one thing, it is that or nothing.
LEMMA PartOfOne ==
  ASSUME NEW s, NEW t, NEW x, PartOf(s, t), AtMost(t, x)
  PROVE  AtMost(s, x) /\ (t = <<>> => s = <<>>)
<1>1. PICK i \in 1..(Len(t) + 1), j \in 0..Len(t) : s = SubSeq(t, i, j)
  BY DEF PartOf
<1>2. CASE t = <<>>
  <2>1. Len(t) = 0
    BY <1>2
  <2>2. i = 1 /\ j = 0
    BY <1>1, <2>1
  <2>3. s = <<>>
    BY <1>1, <1>2, <2>2
  <2> QED
    BY <2>3 DEF AtMost
<1>3. CASE t = <<x>>
  <2>1. Len(t) = 1 /\ t # <<>>
    BY <1>3
  <2>2. (i = 1 \/ i = 2) /\ (j = 0 \/ j = 1)
    BY <1>1, <2>1
  <2>3. CASE i = 1 /\ j = 1
    <3>1. <<x>> \in Seq({x})
      OBVIOUS
    <3>2. SubSeq(<<x>>, 1, Len(<<x>>)) = <<x>>
      BY <3>1, SubSeqFull
    <3> QED
      BY <1>1, <1>3, <2>1, <2>3, <3>2 DEF AtMost
  <2>4. CASE j < i
    <3>1. SubSeq(<<x>>, i, j) = <<>>
      BY <2>4, SubSeqEmpty
    <3> QED
      BY <1>1, <1>3, <3>1 DEF AtMost
  <2> QED
    BY <2>1, <2>2, <2>3, <2>4
<1> QED
  BY <1>2, <1>3 DEF AtMost

\* Losing disturbs nothing that OwnInv says of what is under way.
LEMMA LosingKeepsOne ==
  ASSUME Losing, ~failed, OwnInv, UNCHANGED command
  PROVE  /\ AtMost(commands', command') /\ AtMost(owed', command') /\ OneReply'
         /\ commands = <<>> => commands' = <<>>
         /\ owed = <<>> => owed' = <<>>
         /\ replies = <<>> => replies' = <<>>
<1>1. AtMost(commands', command) /\ (commands = <<>> => commands' = <<>>)
  BY PartOfOne DEF Losing, OwnInv
<1>2. AtMost(owed', command) /\ (owed = <<>> => owed' = <<>>)
  BY PartOfOne DEF Losing, OwnInv
<1>3. OneReply' /\ (replies = <<>> => replies' = <<>>)
  <2>1. PartOf(replies', replies)
    BY DEF Losing
  <2>2. CASE replies = <<>>
    <3>1. replies' = <<>>
      BY <2>1, <2>2, PartOfOne DEF AtMost
    <3> QED
      BY <2>2, <3>1 DEF OneReply
  <2>3. CASE \E r \in Replies : replies = <<[to |-> command, is |-> r]>>
    <3>1. PICK r \in Replies : replies = <<[to |-> command, is |-> r]>>
      BY <2>3
    <3>2. AtMost(replies', [to |-> command, is |-> r])
      BY <2>1, <3>1, PartOfOne DEF AtMost
    <3>3. replies # <<>>
      BY <3>1
    <3> QED
      BY <3>2, <3>3 DEF AtMost, OneReply
  <2> QED
    BY <2>2, <2>3 DEF OwnInv, OneReply
<1> QED
  BY <1>1, <1>2, <1>3

\* One lemma for each kind of step.
LEMMA InitOwn == Init => OwnInv
BY DEF Init, OwnInv, AtMost, OneReply, None

LEMMA ConnectOwn == OwnInv /\ Connect => OwnInv'
<1> SUFFICES ASSUME OwnInv, Connect, ~failed' PROVE OwnInv'
  BY DEF OwnInv
<1>1. CASE UNCHANGED <<failed, framed>>
  BY <1>1, LosingKeepsOne DEF Connect, OwnInv, None
<1>2. CASE failed' = FALSE /\ framed' = TRUE /\ NothingLeft
  BY <1>2 DEF Connect, OwnInv, NothingLeft, AtMost, OneReply, None
<1> QED
  BY <1>1, <1>2 DEF Connect

LEMMA BeginOwn == ASSUME NEW c, OwnInv, Begin(c) PROVE OwnInv'
<1> SUFFICES ASSUME ~failed PROVE OwnInv'
  BY DEF Begin, OwnInv
<1>1. commands = <<>> /\ owed = <<>> /\ replies = <<>> /\ framed
  BY DEF OwnInv, Begin
<1>2. commands' = <<c>> \/ commands' = <<>>
  BY <1>1 DEF Begin
<1> QED
  BY <1>1, <1>2 DEF Begin, OwnInv, AtMost, OneReply, None

LEMMA ReceiveOwn == OwnInv /\ Receive => OwnInv'
<1> SUFFICES ASSUME OwnInv, Receive, ~failed PROVE OwnInv'
  BY DEF Receive, OwnInv
<1>1. commands = <<command>> /\ owed = <<>> /\ replies = <<>> /\ busy
  BY DEF OwnInv, Receive, AtMost
<1>2. owed' = <<command>> /\ commands' = <<>>
  BY <1>1 DEF Receive
<1> QED
  BY <1>1, <1>2 DEF Receive, OwnInv, AtMost, OneReply

LEMMA ReplyOwn == ASSUME NEW r \in Replies, OwnInv, Reply(r) PROVE OwnInv'
<1> SUFFICES ASSUME ~failed PROVE OwnInv'
  BY DEF Reply, OwnInv
<1>1. owed = <<command>> /\ commands = <<>> /\ replies = <<>> /\ busy
  BY DEF OwnInv, Reply, AtMost
<1>2. replies' = <<[to |-> command, is |-> r]>> /\ owed' = <<>>
  BY <1>1 DEF Reply
<1> QED
  BY <1>1, <1>2 DEF Reply, OwnInv, AtMost, OneReply

LEMMA SucceedOwn == OwnInv /\ Succeed => OwnInv'
<1> SUFFICES ASSUME OwnInv, Succeed, ~failed' PROVE OwnInv'
  BY DEF OwnInv
<1>0. ~failed
  BY DEF Succeed
<1>1. PICK r \in Replies : replies = <<[to |-> command, is |-> r]>>
  BY <1>0 DEF OwnInv, Succeed, OneReply
<1>2. commands = <<>> /\ owed = <<>>
  BY <1>0, <1>1 DEF OwnInv
<1>3. replies' = <<>> /\ answer'.reply = [to |-> command, is |-> r]
  BY <1>1 DEF Succeed, Success
<1> QED
  BY <1>0, <1>2, <1>3 DEF Succeed, OwnInv, AtMost, OneReply

LEMMA LoseOwn == OwnInv /\ Lose => OwnInv'
BY LosingKeepsOne DEF Lose, OwnInv

LEMMA RefuseOwn == ASSUME NEW c, OwnInv, Refuse(c) PROVE OwnInv'
<1> SUFFICES ASSUME ~failed' PROVE OwnInv'
  BY DEF OwnInv
<1>1. ~failed
  BY DEF Refuse
<1>2. framed /\ ~busy /\ commands = <<>> /\ owed = <<>> /\ replies = <<>>
  BY <1>1 DEF Refuse, OwnInv
<1> QED
  BY <1>1, <1>2 DEF Refuse, OwnInv, AtMost, OneReply, Failure

\* The induction step, for every action of Next.
LEMMA StepOwn == OwnInv /\ [Next]_vars => OwnInv'
<1> SUFFICES ASSUME OwnInv, [Next]_vars PROVE OwnInv'
  OBVIOUS
<1>1. CASE Connect
  BY <1>1, ConnectOwn
<1>2. ASSUME NEW c \in Commands, Begin(c) PROVE OwnInv'
  BY <1>2, BeginOwn
<1>3. ASSUME NEW c \in Commands, Refuse(c) PROVE OwnInv'
  BY <1>3, RefuseOwn
<1>4. CASE Receive
  BY <1>4, ReceiveOwn
<1>5. CASE Lose
  BY <1>5, LoseOwn
<1>6. CASE Succeed
  BY <1>6, SucceedOwn
<1>7. CASE Fail
  BY <1>7 DEF Fail, OwnInv
<1>8. CASE Garble
  BY <1>8 DEF Garble, OwnInv
<1>9. ASSUME NEW r \in Replies, Reply(r) PROVE OwnInv'
  BY <1>9, ReplyOwn
<1>10. CASE UNCHANGED vars
  BY <1>10 DEF vars, OwnInv, AtMost, OneReply
<1> QED
  BY <1>1, <1>2, <1>3, <1>4, <1>5, <1>6, <1>7, <1>8, <1>9, <1>10 DEF Next

\* A reply does not say which command it answers (APDUStream::exchange gets no
\* more than its bytes); still, over every transport that implements Transport,
\* each exchange returns the answer to its own command until one fails.
THEOREM OwnAnswers == Spec => []OwnAnswer
<1>1. OwnInv => OwnAnswer
  BY DEF OwnInv, OwnAnswer
<1> QED
  BY <1>1, InitOwn, StepOwn, PTL DEF Spec
=============================================================================
