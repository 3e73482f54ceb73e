-------------------------- MODULE TransportLemmas ---------------------------
(***************************************************************************)
(* Facts about numbers and sequences that the proofs about the transports  *)
(* share.                                                                  *)
(***************************************************************************)
EXTENDS Integers, Sequences, SequencesExt, FiniteSetsExt, SequenceTheorems, TLAPS

LEMMA Division ==
  ASSUME NEW b \in Nat, b > 0, NEW n \in Nat
  PROVE  n \div b \in Nat /\ n % b \in 0..(b - 1) /\ n = b * (n \div b) + (n % b)
OBVIOUS

\* The quotient and the remainder are the only ones.
LEMMA DivisionUnique ==
  ASSUME NEW b \in Nat, b > 0, NEW q \in Nat, NEW r \in 0..(b - 1)
  PROVE  (b * q + r) \div b = q /\ (b * q + r) % b = r
OBVIOUS

LEMMA DivisionBound ==
  ASSUME NEW b \in Nat, b > 0, NEW n \in Nat, NEW m \in Nat, n < b * m
  PROVE  n \div b < m
OBVIOUS

LEMMA QuotientZero ==
  ASSUME NEW b \in Nat, NEW n \in Nat, n < b PROVE n \div b = 0
OBVIOUS

\* Division by a product is division by one factor after the other.
LEMMA DivisionTwice ==
  ASSUME NEW b \in Nat, b > 0, NEW c \in Nat, c > 0, NEW n \in Nat
  PROVE  n \div (b * c) = (n \div b) \div c
<1> DEFINE q == n \div b
           s == n % b
           p == q \div c
           t == q % c
<1>1. q \in Nat /\ s \in 0..(b - 1) /\ n = b * q + s
  BY Division
<1>2. p \in Nat /\ t \in 0..(c - 1) /\ q = c * p + t
  BY <1>1, Division
<1> HIDE DEF q, s, p, t
<1>3. n = (b * c) * p + (b * t + s)
  BY <1>1, <1>2
<1>4. b * t + s \in 0..(b * c - 1)
  BY <1>1, <1>2
<1>5. b * c \in Nat /\ b * c > 0
  OBVIOUS
<1>6. n \div (b * c) = p
  BY <1>2, <1>3, <1>4, <1>5, DivisionUnique
<1> QED
  BY <1>6 DEF p, q
-----------------------------------------------------------------------------
LEMMA MinOfTwo == \A a, b \in Int : Min({a, b}) = IF a <= b THEN a ELSE b
BY DEF Min

LEMMA MaxOfTwo == \A a, b \in Int : Max({a, b}) = IF a <= b THEN b ELSE a
BY DEF Max

LEMMA PrefixPointwise ==
  ASSUME NEW S, NEW s \in Seq(S), NEW t \in Seq(S)
  PROVE  IsPrefix(s, t) <=> Len(s) <= Len(t) /\ \A i \in 1..Len(s) : s[i] = t[i]
BY DEF IsPrefix

LEMMA ElementType ==
  ASSUME NEW S, NEW s \in Seq(S) PROVE \A i \in 1..Len(s) : i \in Nat /\ s[i] \in S
OBVIOUS

LEMMA RangeType ==
  ASSUME NEW S, NEW s \in Seq(S) PROVE Range(s) \subseteq S
<1>1. DOMAIN s = 1..Len(s)
  OBVIOUS
<1> QED
  BY <1>1, ElementType DEF Range

\* What a prefix has in front is what the whole has in front, and its rest is a
\* prefix of the rest of the whole.
LEMMA PrefixCut ==
  ASSUME NEW S, NEW a \in Seq(S), NEW b \in Seq(S), NEW t \in Seq(S),
         IsPrefix(a \o b, t), NEW n \in Nat, n <= Len(a)
  PROVE  /\ SubSeq(a, 1, n) = SubSeq(t, 1, n)
         /\ IsPrefix(SubSeq(a, n + 1, Len(a)) \o b, SubSeq(t, n + 1, Len(t)))
<1> DEFINE rest == SubSeq(a, n + 1, Len(a))
           whole == SubSeq(t, n + 1, Len(t))
<1>1. a \o b \in Seq(S) /\ Len(a \o b) = Len(a) + Len(b)
  OBVIOUS
<1>2. Len(a) + Len(b) <= Len(t) /\ \A i \in 1..(Len(a) + Len(b)) : (a \o b)[i] = t[i]
  BY <1>1, PrefixPointwise
<1>3. \A i \in 1..Len(a) : a[i] = t[i]
  BY <1>2
<1>4. SubSeq(a, 1, n) = SubSeq(t, 1, n)
  BY <1>2, <1>3
<1>5. rest \in Seq(S) /\ Len(rest) = Len(a) - n /\ whole \in Seq(S) /\ Len(whole) = Len(t) - n
  BY <1>2
<1>6. rest \o b \in Seq(S) /\ Len(rest \o b) = Len(a) - n + Len(b)
  BY <1>5
<1>7. \A i \in 1..(Len(a) - n + Len(b)) : (rest \o b)[i] = whole[i]
  <2> SUFFICES ASSUME NEW i \in 1..(Len(a) - n + Len(b)) PROVE (rest \o b)[i] = whole[i]
    OBVIOUS
  <2>1. whole[i] = t[n + i] /\ (a \o b)[n + i] = t[n + i]
    BY <1>2, <1>5
  <2>2. (rest \o b)[i] = (a \o b)[n + i]
    BY <1>5
  <2> QED
    BY <2>1, <2>2
<1> HIDE DEF rest, whole
<1>8. Len(rest \o b) <= Len(whole) /\ \A i \in 1..Len(rest \o b) : (rest \o b)[i] = whole[i]
  BY <1>2, <1>5, <1>6, <1>7
<1>9. IsPrefix(rest \o b, whole)
  BY <1>5, <1>6, <1>8, PrefixPointwise
<1> QED
  BY <1>4, <1>9 DEF rest, whole

LEMMA PrefixShorter ==
  ASSUME NEW S, NEW a \in Seq(S), NEW b \in Seq(S), NEW t \in Seq(S),
         IsPrefix(a \o b, t), NEW n \in 0..Len(b)
  PROVE  IsPrefix(a \o SubSeq(b, 1, n), t)
<1> DEFINE c == SubSeq(b, 1, n)
<1>1. c \in Seq(S) /\ Len(c) <= Len(b) /\ \A i \in 1..Len(c) : c[i] = b[i]
  OBVIOUS
<1>0. a \o b \in Seq(S) /\ Len(a \o b) = Len(a) + Len(b)
  OBVIOUS
<1>2. Len(a) + Len(b) <= Len(t) /\ \A i \in 1..(Len(a) + Len(b)) : (a \o b)[i] = t[i]
  BY <1>0, PrefixPointwise
<1> HIDE DEF c
<1>3. a \o c \in Seq(S) /\ Len(a \o c) = Len(a) + Len(c)
  BY <1>1
<1>4. \A i \in 1..(Len(a) + Len(c)) : (a \o c)[i] = (a \o b)[i]
  BY <1>1
<1>5. \A i \in 1..Len(a \o c) : (a \o c)[i] = t[i]
  <2> SUFFICES ASSUME NEW i \in 1..(Len(a) + Len(c)) PROVE (a \o c)[i] = t[i]
    BY <1>3
  <2>1. i \in 1..(Len(a) + Len(b))
    BY <1>1
  <2> QED
    BY <1>2, <1>4, <2>1
<1>6. Len(a \o c) <= Len(t)
  BY <1>1, <1>2, <1>3
<1>7. IsPrefix(a \o c, t)
  BY <1>3, <1>5, <1>6, PrefixPointwise
<1> QED
  BY <1>7 DEF c
=============================================================================
