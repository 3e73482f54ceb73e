------------------------- MODULE TcpTransportProofs -------------------------
(***************************************************************************)
(* Theorems about TcpTransport, for any commands, replies and buffers, and *)
(* lengths of one to four bytes of any number of values.                   *)
(***************************************************************************)
EXTENDS TcpTransport, TransportLemmas

-----------------------------------------------------------------------------
(* Numbers *)

LEMMA ModulusType == Modulus \in Nat /\ Modulus > 0
<1>1. Base \in Nat /\ Base > 1 /\ LenBytes \in 1..4
  BY TcpAssumption
<1>2. Base * Base \in Nat /\ Base * Base > 0
  BY <1>1
<1>3. Base * Base * Base \in Nat /\ Base * Base * Base > 0
  BY <1>1, <1>2
<1>4. Base * Base * Base * Base \in Nat /\ Base * Base * Base * Base > 0
  BY <1>1, <1>3
<1> QED
  BY <1>1, <1>2, <1>3, <1>4 DEF Modulus, Power

LEMMA PowerType == \A k \in 0..4 : Power(k) \in Nat /\ Power(k) > 0
<1>1. Base \in Nat /\ Base > 1
  BY TcpAssumption
<1>2. Base * Base \in Nat /\ Base * Base > 0
  BY <1>1
<1>3. Base * Base * Base \in Nat /\ Base * Base * Base > 0
  BY <1>1, <1>2
<1>4. Base * Base * Base * Base \in Nat /\ Base * Base * Base * Base > 0
  BY <1>1, <1>3
<1> QED
  BY <1>1, <1>2, <1>3, <1>4 DEF Power

\* ntohl undoes htonl.
LEMMA LengthOfDigits ==
  ASSUME NEW n \in Nat, n < Modulus,
         NEW bytes, \A i \in 1..LenBytes : bytes[i].v = Digits(n)[i]
  PROVE  LengthOf(bytes) = n
<1> DEFINE q1 == n \div Base
           q2 == q1 \div Base
           q3 == q2 \div Base
<1>0. Base \in Nat /\ Base > 1 /\ LenBytes \in 1..4
  BY TcpAssumption
<1>1. q1 \in Nat /\ n % Base \in 0..(Base - 1) /\ n = Base * q1 + (n % Base)
  BY <1>0, Division
<1>2. q2 \in Nat /\ q1 % Base \in 0..(Base - 1) /\ q1 = Base * q2 + (q1 % Base)
  BY <1>0, <1>1, Division
<1>3. q3 \in Nat /\ q2 % Base \in 0..(Base - 1) /\ q2 = Base * q3 + (q2 % Base)
  BY <1>0, <1>2, Division
<1>4. /\ n \div Power(0) = n /\ n \div Power(1) = q1
      /\ n \div Power(2) = q2 /\ n \div Power(3) = q3
  <2>1. n \div 1 = n
    OBVIOUS
  <2>2. n \div (Base * Base) = q2
    BY <1>0, DivisionTwice
  <2>3. n \div (Base * Base * Base) = q3
    <3>1. Base * Base \in Nat /\ Base * Base > 0
      BY <1>0
    <3>2. n \div (Base * Base * Base) = (n \div (Base * Base)) \div Base
      BY <1>0, <3>1, DivisionTwice
    <3> QED
      BY <2>2, <3>2
  <2>4. Power(0) = 1 /\ Power(1) = Base /\ Power(2) = Base * Base /\ Power(3) = Base * Base * Base
    BY DEF Power
  <2> QED
    BY <2>1, <2>2, <2>3, <2>4
<1> DEFINE digit(k) == IF k < LenBytes THEN (n \div Power(k)) % Base ELSE 0
<1>5. \A k \in 0..3 : Place(bytes, k) = digit(k)
  <2> SUFFICES ASSUME NEW k \in 0..3, k < LenBytes PROVE bytes[LenBytes - k].v = digit(k)
    BY DEF Place
  <2>1. LenBytes - k \in 1..LenBytes /\ LenBytes - (LenBytes - k) = k
    BY <1>0
  <2> QED
    BY <2>1 DEF Digits
<1>6. LengthOf(bytes) = digit(0) + Base * (digit(1) + Base * (digit(2) + Base * digit(3)))
  BY <1>5 DEF LengthOf
<1>7. digit(0) = n % Base
  BY <1>0, <1>4
<1> HIDE DEF q1, q2, q3
<1>8. CASE LenBytes = 1
  <2>1. n < Base /\ digit(1) = 0 /\ digit(2) = 0 /\ digit(3) = 0
    BY <1>8, <1>0 DEF Modulus, Power
  <2>2. q1 = 0
    BY <1>0, <2>1, QuotientZero DEF q1
  <2> QED
    BY <1>0, <1>1, <1>6, <1>7, <2>1, <2>2
<1>9. CASE LenBytes = 2
  <2>1. n < Base * Base /\ digit(1) = q1 % Base /\ digit(2) = 0 /\ digit(3) = 0
    BY <1>9, <1>0, <1>4 DEF Modulus, Power
  <2>2. q2 = 0
    <3>1. q1 < Base
      BY <1>0, <2>1, DivisionBound DEF q1
    <3> QED
      BY <1>0, <1>1, <3>1, QuotientZero DEF q2
  <2> QED
    BY <1>0, <1>1, <1>2, <1>6, <1>7, <2>1, <2>2
<1>10. CASE LenBytes = 3
  <2>1. /\ n < Base * Base * Base
        /\ digit(1) = q1 % Base /\ digit(2) = q2 % Base /\ digit(3) = 0
    BY <1>10, <1>0, <1>4 DEF Modulus, Power
  <2>2. q3 = 0
    <3>1. Base * Base \in Nat /\ n < Base * (Base * Base)
      BY <1>0, <2>1
    <3>2. q1 < Base * Base
      BY <1>0, <3>1, DivisionBound DEF q1
    <3>3. q2 < Base
      BY <1>0, <1>1, <3>2, DivisionBound DEF q2
    <3> QED
      BY <1>0, <1>2, <3>3, QuotientZero DEF q3
  <2> QED
    BY <1>0, <1>1, <1>2, <1>3, <1>6, <1>7, <2>1, <2>2
<1>11. CASE LenBytes = 4
  <2>1. /\ n < Base * Base * Base * Base
        /\ digit(1) = q1 % Base /\ digit(2) = q2 % Base /\ digit(3) = q3 % Base
    BY <1>11, <1>0, <1>4 DEF Modulus, Power
  <2>2. q3 < Base
    <3>1. Base * Base * Base \in Nat /\ n < Base * (Base * Base * Base)
      BY <1>0, <2>1
    <3>2. q1 < Base * (Base * Base)
      BY <1>0, <3>1, DivisionBound DEF q1
    <3>3. q2 < Base * Base
      BY <1>0, <1>1, <3>2, DivisionBound DEF q2
    <3> QED
      BY <1>0, <1>2, <3>3, DivisionBound DEF q3
  <2>3. q3 % Base = q3
    BY <1>0, <1>3, <2>2
  <2> HIDE DEF digit
  <2>4. digit(2) + Base * digit(3) = q2
    <3>1. digit(2) = q2 % Base /\ digit(3) = q3
      BY <2>1, <2>3
    <3>2. q2 = Base * q3 + (q2 % Base) /\ q2 % Base \in Int /\ Base * q3 \in Int
      BY <1>0, <1>3
    <3> QED
      BY <3>1, <3>2
  <2>5. digit(1) + Base * (digit(2) + Base * digit(3)) = q1
    BY <1>0, <1>2, <2>1, <2>4
  <2> QED
    BY <1>0, <1>1, <1>6, <1>7, <2>5
<1> QED
  BY <1>0, <1>8, <1>9, <1>10, <1>11

LEMMA DigitsType == \A n \in Nat : Digits(n) \in [1..LenBytes -> 0..(Base - 1)]
<1> SUFFICES ASSUME NEW n \in Nat, NEW i \in 1..LenBytes
             PROVE  (n \div Power(LenBytes - i)) % Base \in 0..(Base - 1)
  BY DEF Digits
<1>1. Base \in Nat /\ Base > 1 /\ LenBytes \in 1..4
  BY TcpAssumption
<1>2. Power(LenBytes - i) \in Nat /\ Power(LenBytes - i) > 0
  BY <1>1, PowerType
<1>3. n \div Power(LenBytes - i) \in Nat
  BY <1>2, Division
<1> QED
  BY <1>1, <1>3, Division

LEMMA FullLengthType ==
  ASSUME NEW bytes \in Seq(StreamByte), Len(bytes) = LenBytes
  PROVE  FullLength(bytes) \in 0..(Modulus - 1)
<1>1. Base \in Nat /\ Base > 1 /\ LenBytes \in 1..4
  BY TcpAssumption
<1>2. \A i \in 1..LenBytes : bytes[i].v \in Nat
  <2> SUFFICES ASSUME NEW i \in 1..LenBytes PROVE bytes[i].v \in Nat
    OBVIOUS
  <2>1. bytes[i] \in StreamByte
    OBVIOUS
  <2> QED
    BY <1>1, <2>1 DEF StreamByte
<1>3. \A k \in 0..3 : Place(bytes, k) \in Nat
  BY <1>1, <1>2 DEF Place
<1>4. LengthOf(bytes) \in Nat
  <2>1. Place(bytes, 2) + Base * Place(bytes, 3) \in Nat
    BY <1>1, <1>3
  <2>2. Place(bytes, 1) + Base * (Place(bytes, 2) + Base * Place(bytes, 3)) \in Nat
    BY <1>1, <1>3, <2>1
  <2> QED
    BY <1>1, <1>3, <2>2 DEF LengthOf
<1>5. LengthOf(bytes) + SW \in Nat
  BY <1>4 DEF SW
<1> QED
  BY <1>5, ModulusType, Division DEF FullLength
-----------------------------------------------------------------------------
(* Messages *)

LEMMA MessageShape ==
  ASSUME NEW reply \in ReplyTo
  PROVE  /\ Message(reply) \in Seq(StreamByte)
         /\ Len(Message(reply)) = LenBytes + Len(reply.is)
         /\ \A i \in 1..LenBytes : Message(reply)[i].v = Digits(Len(reply.is) - SW)[i]
         /\ \A i \in 1..Len(reply.is) : Message(reply)[LenBytes + i].of = reply
<1> DEFINE n == Len(reply.is) - SW
           length == [i \in 1..LenBytes |-> [v |-> Digits(n)[i], of |-> reply, place |-> 0]]
           body == [i \in DOMAIN reply.is |-> [v |-> reply.is[i], of |-> reply, place |-> i]]
<1>1. Base \in Nat /\ Base > 1 /\ LenBytes \in 1..4
  BY TcpAssumption
<1>2. reply.is \in Seq(0..(Base - 1)) /\ n \in Nat
  BY TcpAssumption DEF ReplyTo, SW
<1>3. length \in Seq(StreamByte) /\ Len(length) = LenBytes
  <2>1. \A i \in 1..LenBytes : length[i] \in StreamByte
    <3>1. \A i \in 1..LenBytes : Digits(n)[i] \in 0..(Base - 1)
      BY <1>2, DigitsType
    <3> QED
      BY <3>1 DEF StreamByte
  <2>2. LenBytes \in Nat /\ length \in [1..LenBytes -> StreamByte]
    BY <1>1, <2>1
  <2> HIDE DEF length
  <2> QED
    BY <2>2
<1>4. body \in Seq(StreamByte) /\ Len(body) = Len(reply.is)
  <2>1. Len(reply.is) \in Nat /\ DOMAIN reply.is = 1..Len(reply.is)
    BY <1>2
  <2>2. \A i \in 1..Len(reply.is) : body[i] \in StreamByte
    <3>1. \A i \in 1..Len(reply.is) : i \in Nat /\ reply.is[i] \in 0..(Base - 1)
      BY <1>2, ElementType
    <3>2. \A i \in 1..Len(reply.is) : body[i] = [v |-> reply.is[i], of |-> reply, place |-> i]
      BY <2>1
    <3> HIDE DEF body
    <3>3. \A v \in 0..(Base - 1), i \in Nat : [v |-> v, of |-> reply, place |-> i] \in StreamByte
      BY DEF StreamByte
    <3> QED
      BY <3>1, <3>2, <3>3
  <2>3. body \in [1..Len(reply.is) -> StreamByte]
    BY <2>1, <2>2
  <2> HIDE DEF body
  <2> QED
    BY <2>1, <2>3
<1>5. Message(reply) = length \o body
  BY DEF Message
<1>6. /\ \A i \in 1..LenBytes : length[i].v = Digits(n)[i]
      /\ \A i \in 1..Len(reply.is) : body[i].of = reply
  BY <1>2
<1> HIDE DEF length, body
<1>7. \A i \in 1..LenBytes : (length \o body)[i] = length[i]
  BY <1>3, <1>4
<1>8. \A i \in 1..Len(reply.is) : (length \o body)[LenBytes + i] = body[i]
  BY <1>1, <1>3, <1>4
<1>9. length \o body \in Seq(StreamByte) /\ Len(length \o body) = LenBytes + Len(reply.is)
  BY <1>3, <1>4
<1> QED
  BY <1>5, <1>6, <1>7, <1>8, <1>9

LEMMA BodyShape ==
  ASSUME NEW reply \in ReplyTo
  PROVE  /\ Body(reply) \in Seq(StreamByte)
         /\ Len(Body(reply)) = Len(reply.is)
         /\ Body(reply) = SubSeq(Message(reply), LenBytes + 1, Len(Message(reply)))
         /\ Body(reply)[1].of = reply
<1>1. LenBytes \in 1..4 /\ reply.is \in Seq(0..(Base - 1)) /\ Len(reply.is) >= 2
  BY TcpAssumption DEF ReplyTo, SW
<1>2. Body(reply) = SubSeq(Message(reply), LenBytes + 1, Len(Message(reply)))
  BY <1>1, MessageShape DEF Body
<1>3. /\ SubSeq(Message(reply), LenBytes + 1, LenBytes + Len(reply.is)) \in Seq(StreamByte)
      /\ Len(SubSeq(Message(reply), LenBytes + 1, LenBytes + Len(reply.is))) = Len(reply.is)
      /\ SubSeq(Message(reply), LenBytes + 1, LenBytes + Len(reply.is))[1] = Message(reply)[LenBytes + 1]
  BY <1>1, MessageShape
<1>4. Message(reply)[LenBytes + 1].of = reply
  BY <1>1, MessageShape
<1> QED
  BY <1>2, <1>3, <1>4 DEF Body

\* What recv hands over, and what it leaves.
LEMMA RecvShape ==
  ASSUME arrived \in Seq(StreamByte), NEW n \in Nat, Consume(n)
  PROVE  /\ Recv(n) \in Seq(StreamByte) /\ arrived' \in Seq(StreamByte)
         /\ Len(Recv(n)) <= n
         /\ ~Short(Recv(n), n) =>
              /\ Len(Recv(n)) = n /\ n <= Len(arrived)
              /\ Recv(n) = SubSeq(arrived, 1, n)
              /\ arrived' = SubSeq(arrived, n + 1, Len(arrived))
<1>1. Len(arrived) \in Nat
  OBVIOUS
<1>2. CASE n <= Len(arrived)
  <2>1. Recv(n) = SubSeq(arrived, 1, n)
    BY <1>1, <1>2, MinOfTwo DEF Recv
  <2>2. Recv(n) \in Seq(StreamByte) /\ Len(Recv(n)) = n
    BY <1>1, <1>2, <2>1
  <2>3. arrived' = SubSeq(arrived, n + 1, Len(arrived))
    BY <2>2 DEF Consume
  <2>4. arrived' \in Seq(StreamByte)
    BY <1>1, <2>3
  <2> QED
    BY <1>2, <2>1, <2>2, <2>3, <2>4
<1>3. CASE ~(n <= Len(arrived))
  <2>1. Recv(n) = SubSeq(arrived, 1, Len(arrived))
    BY <1>1, <1>3, MinOfTwo DEF Recv
  <2>2. Recv(n) \in Seq(StreamByte) /\ Len(Recv(n)) = Len(arrived)
    BY <1>1, <2>1
  <2>3. arrived' \in Seq(StreamByte)
    BY <1>1, <2>2 DEF Consume
  <2> QED
    BY <1>1, <1>3, <2>2, <2>3 DEF Short
<1> QED
  BY <1>2, <1>3
-----------------------------------------------------------------------------
(* Types *)

LEMMA InitType == Init => TypeInv
<1> SUFFICES ASSUME Init PROVE TypeInv
  OBVIOUS
<1>1. size \in Nat /\ Modulus \in Nat /\ Modulus > 0
  BY TcpAssumption, ModulusType DEF Init
<1>2. \A S : <<>> \in Seq(S)
  OBVIOUS
<1>3. result \in [res : Results, bytes : Seq(StreamByte)]
  BY <1>2 DEF Init, Results
<1>4. <<>> \in Seq(Commands \cup {Torn}) /\ <<>> \in Seq(StreamByte)
  BY <1>2
<1>5. fd \in {"closed", "open", "eof"} /\ phase = "idle" /\ timed \in BOOLEAN /\ failed \in BOOLEAN
  BY DEF Init
<1>6. recvLen \in 0..(Modulus - 1) /\ recvLen <= size /\ recvLen = 0
  BY <1>1 DEF Init
<1> QED
  BY <1>3, <1>4, <1>5, <1>6 DEF Init, TypeInv

\* However an exchange returns.
LEMMA ReturnType ==
  ASSUME TypeInv, NEW res \in Results, NEW bytes \in Seq(StreamByte), Return(res, bytes),
         UNCHANGED <<fd, command, size, timed>>,
         commands' \in Seq(Commands \cup {Torn}), owed' \in Seq(Commands \cup {Torn}),
         sent' \in Seq(StreamByte), arrived' \in Seq(StreamByte), lost' \subseteq {"send", "read"}
  PROVE  TypeInv'
<1>1. size \in Nat /\ Modulus \in Nat /\ Modulus > 0
  BY TcpAssumption, ModulusType DEF TypeInv
<1>2. result' \in [res : Results, bytes : Seq(StreamByte)]
  BY DEF Return
<1>3. phase' = "idle" /\ recvLen' = 0
  BY DEF Return
<1>4. failed' \in BOOLEAN
  BY DEF Return, TypeInv
<1> QED
  BY <1>1, <1>2, <1>3, <1>4 DEF TypeInv

LEMMA SentType ==
  ASSUME TypeInv, NEW c \in Commands \cup {Torn}
  PROVE  Sent(c) \in Seq(Commands \cup {Torn})
BY DEF TypeInv, Sent

LEMMA TypeStep == TypeInv /\ [Next]_vars => TypeInv'
<1> SUFFICES ASSUME TypeInv, [Next]_vars PROVE TypeInv'
  OBVIOUS
<1>0. <<>> \in Seq(Commands \cup {Torn}) /\ <<>> \in Seq(StreamByte)
  OBVIOUS
<1>1. CASE connect
  BY <1>0, <1>1 DEF connect, NewSocket, TypeInv, Results
<1>2. ASSUME NEW c \in Commands, NEW n \in BufSizes, NEW t \in BOOLEAN, exchange(c, n, t)
      PROVE  TypeInv'
  <2>1. phase = "idle" /\ recvLen = 0 /\ n \in Nat /\ Modulus \in Nat /\ Modulus > 0
    BY <1>2, TcpAssumption, ModulusType DEF exchange, TypeInv
  <2>2. result' \in [res : Results, bytes : Seq(StreamByte)]
    <3>1. \E res \in Results : result' = [res |-> res, bytes |-> <<>>]
      BY <1>2 DEF exchange, Return, Results
    <3> QED
      BY <1>0, <3>1
  <2>3. failed' \in BOOLEAN /\ recvLen' = 0 /\ phase' \in {"idle", "send"}
    BY <1>2, <2>1 DEF exchange, Return, TypeInv, Results
  <2> QED
    BY <1>2, <2>1, <2>2, <2>3 DEF exchange, stream, TypeInv
<1>3. CASE sendAll
  <2>1. commands' \in Seq(Commands \cup {Torn})
    BY <1>3, SentType DEF sendAll, TypeInv
  <2> QED
    BY <1>3, <2>1 DEF sendAll, TypeInv
<1>4. CASE sendFails
  <2>1. commands' \in Seq(Commands \cup {Torn})
    BY <1>4, SentType DEF sendFails, TypeInv
  <2>2. lost' \subseteq {"send", "read"}
    BY <1>4 DEF sendFails, TypeInv
  <2> QED
    BY <1>0, <1>4, <2>1, <2>2, ReturnType DEF sendFails, TypeInv, Results
<1>5. CASE readLength
  <2>0. LenBytes \in Nat /\ size \in Nat
    BY TcpAssumption DEF TypeInv
  <2>1. Recv(LenBytes) \in Seq(StreamByte) /\ arrived' \in Seq(StreamByte)
    BY <1>5, <2>0, RecvShape DEF readLength, TypeInv
  <2>2. lost' \subseteq {"send", "read"}
    BY <1>5 DEF readLength, Lose, TypeInv
  <2>3. CASE \E res \in Results : Return(res, <<>>)
    BY <1>0, <1>5, <2>1, <2>2, <2>3, ReturnType DEF readLength, TypeInv
  <2>4. CASE /\ ~Short(Recv(LenBytes), LenBytes) /\ ~TooLong(FullLength(Recv(LenBytes)))
             /\ recvLen' = FullLength(Recv(LenBytes)) /\ phase' = "bytes"
             /\ Unfinished /\ UNCHANGED lost
    <3>1. Len(Recv(LenBytes)) = LenBytes
      BY <1>5, <2>0, <2>4, RecvShape DEF readLength, TypeInv
    <3>2. recvLen' \in 0..(Modulus - 1)
      BY <2>1, <2>4, <3>1, FullLengthType
    <3>3. recvLen' <= size
      BY <2>0, <2>4, <3>2, ModulusType DEF TooLong, TypeInv
    <3> QED
      BY <1>5, <2>1, <2>4, <3>2, <3>3 DEF readLength, Unfinished, TypeInv
  <2> QED
    BY <1>5, <2>3, <2>4 DEF readLength, Results
<1>6. CASE readBytes
  <2>0. recvLen \in Nat
    BY ModulusType DEF TypeInv
  <2>1. Recv(recvLen) \in Seq(StreamByte) /\ arrived' \in Seq(StreamByte)
    BY <1>6, <2>0, RecvShape DEF readBytes, TypeInv
  <2>2. lost' \subseteq {"send", "read"}
    BY <1>6 DEF readBytes, Lose, TypeInv
  <2>3. \E res \in Results, bytes \in Seq(StreamByte) : Return(res, bytes)
    BY <1>0, <1>6, <2>1 DEF readBytes, CheckSize, Results
  <2> QED
    BY <1>6, <2>1, <2>2, <2>3, ReturnType DEF readBytes, TypeInv
<1>7. CASE readNothing
  <2>1. lost' \subseteq {"send", "read"}
    BY <1>7 DEF readNothing, Lose, TypeInv
  <2> QED
    BY <1>0, <1>7, <2>1, ReturnType DEF readNothing, stream, TypeInv, Results
<1>8. CASE Receive
  <2>1. commands' \in Seq(Commands \cup {Torn}) /\ owed' \in Seq(Commands \cup {Torn})
    <3>1. Head(commands) \in Commands \cup {Torn} /\ Tail(commands) \in Seq(Commands \cup {Torn})
      BY <1>8 DEF Receive, TypeInv
    <3>2. Append(owed, Head(commands)) \in Seq(Commands \cup {Torn})
      BY <3>1 DEF TypeInv
    <3> QED
      BY <1>8, <3>1, <3>2 DEF Receive, TypeInv
  <2> QED
    BY <1>8, <2>1 DEF Receive, TypeInv
<1>9. ASSUME NEW r \in Replies, Serve(r) PROVE TypeInv'
  <2>1. [to |-> Head(owed), is |-> r] \in ReplyTo
    BY <1>9 DEF Serve, ReplyTo, TypeInv
  <2>2. Message([to |-> Head(owed), is |-> r]) \in Seq(StreamByte)
    BY <2>1, MessageShape
  <2>3. sent' \in Seq(StreamByte) /\ owed' \in Seq(Commands \cup {Torn})
    BY <1>9, <2>2 DEF Serve, TypeInv
  <2> QED
    BY <1>9, <2>3 DEF Serve, TypeInv
<1>10. CASE Arrive
  <2>1. PICK n \in 1..Len(sent) : /\ arrived' = arrived \o SubSeq(sent, 1, n)
                                  /\ sent' = SubSeq(sent, n + 1, Len(sent))
    BY <1>10 DEF Arrive, TypeInv
  <2>2. arrived' \in Seq(StreamByte) /\ sent' \in Seq(StreamByte)
    BY <2>1 DEF TypeInv
  <2> QED
    BY <1>10, <2>2 DEF Arrive, TypeInv
<1>11. CASE PeerCloses
  <2>1. sent' \in Seq(StreamByte)
    BY <1>11 DEF PeerCloses, TypeInv
  <2> QED
    BY <1>0, <1>11, <2>1 DEF PeerCloses, TypeInv
<1>12. CASE UNCHANGED vars
  BY <1>12 DEF vars, TypeInv
<1> QED
  BY <1>1, <1>2, <1>3, <1>4, <1>5, <1>6, <1>7, <1>8, <1>9, <1>10, <1>11, <1>12
  DEF Next, Send, Read
-----------------------------------------------------------------------------
(* The size of answers *)

LEMMA FitsStep == TypeInv /\ AnswerFits /\ [Next]_vars => AnswerFits'
<1> SUFFICES ASSUME TypeInv, AnswerFits, [Next]_vars, Succeeded' PROVE Len(result'.bytes) \in SW..size'
  BY DEF AnswerFits
<1>1. CASE UNCHANGED <<result, size>>
  BY <1>1 DEF AnswerFits, Succeeded
<1>2. CASE readBytes
  <2>1. recvLen \in Nat /\ size \in Nat /\ recvLen <= size
    BY TcpAssumption, ModulusType DEF TypeInv
  <2>2. Recv(recvLen) \in Seq(StreamByte) /\ Len(Recv(recvLen)) <= recvLen
    BY <1>2, <2>1, RecvShape DEF readBytes, TypeInv
  <2>3. CheckSize(Recv(recvLen)) /\ size' = size
    BY <1>2 DEF readBytes, Return, Succeeded
  <2>4. result'.bytes = Recv(recvLen) /\ Len(Recv(recvLen)) >= SW
    BY <2>3 DEF CheckSize, Return, Succeeded
  <2> QED
    BY <2>1, <2>2, <2>3, <2>4 DEF SW
<1>3. CASE \E res \in {"none", "TRANSPORT_TIMEOUT", "TRANSPORT_GENERIC_ERROR",
                      "PROTOCOL_BAD_LENGTH", "LIB_BAD_LENGTH"} : result'.res = res
  BY <1>3 DEF Succeeded
<1>4. CASE connect
  BY <1>3, <1>4 DEF connect
<1>5. ASSUME NEW c \in Commands, NEW n \in BufSizes, NEW t \in BOOLEAN, exchange(c, n, t)
      PROVE  Len(result'.bytes) \in SW..size'
  BY <1>3, <1>5 DEF exchange, Return
<1>6. CASE Send
  BY <1>1, <1>3, <1>6 DEF Send, sendAll, sendFails, Return
<1>7. CASE readLength
  BY <1>1, <1>3, <1>7 DEF readLength, Return, Unfinished
<1>8. CASE readNothing
  BY <1>3, <1>8 DEF readNothing, Return
<1>9. CASE Receive \/ Arrive \/ PeerCloses \/ \E r \in Replies : Serve(r)
  BY <1>1, <1>9 DEF Receive, Arrive, PeerCloses, Serve
<1>10. CASE UNCHANGED vars
  BY <1>1, <1>10 DEF vars
<1> QED
  BY <1>2, <1>4, <1>5, <1>6, <1>7, <1>8, <1>9, <1>10 DEF Next, Read
-----------------------------------------------------------------------------
(* A connection without a failure *)

\* The length of a reply is read right, or as one that no reply has.
LEMMA LengthRead ==
  ASSUME NEW reply \in ReplyTo, NEW got \in Seq(StreamByte),
         got = SubSeq(Message(reply), 1, LenBytes)
  PROVE  FullLength(got) = Len(reply.is) \/ FullLength(got) < SW
<1> DEFINE n == Len(reply.is) - SW
<1>1. n \in Nat /\ n < Modulus /\ Len(reply.is) = n + SW
  BY TcpAssumption, ModulusType DEF ReplyTo, SW
<1>2. LenBytes \in 1..4 /\ Message(reply) \in Seq(StreamByte) /\ Len(Message(reply)) >= LenBytes
  BY TcpAssumption, MessageShape DEF ReplyTo, SW
<1>3. \A i \in 1..LenBytes : got[i] = Message(reply)[i]
  BY <1>2
<1>4. \A i \in 1..LenBytes : got[i].v = Digits(n)[i]
  BY <1>3, MessageShape
<1> HIDE DEF n
<1>5. LengthOf(got) = n
  BY <1>1, <1>4, LengthOfDigits
<1>6. FullLength(got) = (n + SW) % Modulus
  BY <1>5 DEF FullLength
<1>7. CASE n + SW < Modulus
  <2>1. (Modulus * 0 + (n + SW)) % Modulus = n + SW
    BY <1>1, <1>7, ModulusType, DivisionUnique DEF SW
  <2> QED
    BY <1>1, <1>6, <2>1, ModulusType DEF SW
<1>8. CASE ~(n + SW < Modulus)
  <2>1. n + SW - Modulus \in 0..(SW - 1)
    BY <1>1, <1>8, ModulusType DEF SW
  <2>2. CASE Modulus = 1
    BY <1>1, <1>6, <2>2 DEF SW
  <2>3. CASE Modulus # 1
    <3>1. (Modulus * 1 + (n + SW - Modulus)) % Modulus = n + SW - Modulus
      BY <1>1, <2>1, <2>3, ModulusType, DivisionUnique DEF SW
    <3> QED
      BY <1>1, <1>6, <2>1, <3>1, ModulusType DEF SW
  <2> QED
    BY <2>2, <2>3
<1> QED
  BY <1>7, <1>8

LEMMA Returned ==
  ASSUME NEW res, NEW bytes, Return(res, bytes), ~failed'
  PROVE  ~failed /\ res = "SUCCESS" /\ phase' = "idle" /\ result' = [res |-> res, bytes |-> bytes]
BY DEF Return

LEMMA CommandReply == \A c \in Commands, r \in Replies : [to |-> c, is |-> r] \in ReplyTo
BY DEF ReplyTo

LEMMA AloneConnect == TypeInv /\ AloneInv /\ connect => AloneInv'
BY DEF AloneInv, connect, NewSocket, stream, Succeeded

LEMMA AloneExchange ==
  ASSUME NEW c \in Commands, NEW n \in BufSizes, NEW t \in BOOLEAN,
         TypeInv, AloneInv, exchange(c, n, t)
  PROVE  AloneInv'
<1> SUFFICES ASSUME ~failed' PROVE AloneInv'
  BY DEF AloneInv
<1>1. ~failed /\ phase = "idle" /\ phase' = "send" /\ result'.res = "none"
  BY Returned DEF exchange
<1> QED
  BY <1>1 DEF AloneInv, exchange, stream, Succeeded

LEMMA AloneSend == TypeInv /\ AloneInv /\ Send => AloneInv'
<1> SUFFICES ASSUME TypeInv, AloneInv, Send, ~failed' PROVE AloneInv'
  BY DEF AloneInv
<1>1. sendAll /\ ~failed
  BY Returned DEF Send, sendFails, sendAll
<1>2. lost = {} /\ stream = <<<<>>, <<>>, <<>>, <<>>>> /\ phase' = "length"
  BY <1>1 DEF AloneInv, sendAll
<1>3. commands' = <<>> \/ commands' = <<command>>
  BY <1>1, <1>2 DEF sendAll, Sent, stream
<1>4. CommandUnderWay'
  BY <1>1, <1>2, <1>3 DEF sendAll, stream, CommandUnderWay
<1> QED
  BY <1>1, <1>2, <1>4 DEF AloneInv, sendAll, Succeeded

LEMMA AloneLength == TypeInv /\ AloneInv /\ readLength => AloneInv'
<1> SUFFICES ASSUME TypeInv, AloneInv, readLength, ~failed' PROVE AloneInv'
  BY DEF AloneInv
<1> DEFINE got == Recv(LenBytes)
<1>1. /\ ~failed /\ ~Short(got, LenBytes)
      /\ recvLen' = FullLength(got) /\ phase' = "bytes" /\ UNCHANGED <<result, lost>>
  BY Returned DEF readLength, Unfinished
<1>2. phase = "length" /\ arrived # <<>> /\ UNCHANGED <<commands, owed, sent, command>>
  BY DEF readLength
<1>3. PICK r \in Replies : ReplyUnderWay([to |-> command, is |-> r])
  BY <1>1, <1>2 DEF AloneInv, CommandUnderWay
<1> DEFINE reply == [to |-> command, is |-> r]
<1>4. reply \in ReplyTo /\ reply.is = r
  BY CommandReply DEF TypeInv
<1> HIDE DEF got, reply
<1>5. commands = <<>> /\ owed = <<>> /\ IsPrefix(arrived \o sent, Message(reply))
  BY <1>2, <1>3 DEF ReplyUnderWay, reply
<1>6. /\ LenBytes \in Nat /\ arrived \in Seq(StreamByte) /\ sent \in Seq(StreamByte)
      /\ Message(reply) \in Seq(StreamByte)
  BY <1>4, TcpAssumption, MessageShape DEF TypeInv
<1>7. /\ got \in Seq(StreamByte) /\ LenBytes <= Len(arrived) /\ got = SubSeq(arrived, 1, LenBytes)
      /\ arrived' = SubSeq(arrived, LenBytes + 1, Len(arrived))
  BY <1>1, <1>6, RecvShape DEF readLength, got
<1>8. /\ SubSeq(arrived, 1, LenBytes) = SubSeq(Message(reply), 1, LenBytes)
      /\ IsPrefix(SubSeq(arrived, LenBytes + 1, Len(arrived)) \o sent,
                  SubSeq(Message(reply), LenBytes + 1, Len(Message(reply))))
  BY <1>5, <1>6, <1>7, PrefixCut
<1>9. IsPrefix(arrived' \o sent, Body(reply))
  BY <1>4, <1>7, <1>8, BodyShape
<1>10. recvLen' = Len(reply.is) \/ recvLen' < SW
  BY <1>1, <1>4, <1>7, <1>8, LengthRead
<1>11. (\E q \in Replies : ReplyUnderWay([to |-> command, is |-> q]))'
  <2>1. reply = [to |-> command', is |-> r] /\ reply.is = r
    BY <1>2 DEF reply
  <2>2. IsPrefix(arrived' \o sent', Body([to |-> command', is |-> r]))
    BY <1>2, <1>9, <2>1
  <2>3. /\ commands' = <<>> /\ owed' = <<>> /\ phase' = "bytes"
        /\ recvLen' = Len(r) \/ recvLen' < SW
    BY <1>1, <1>2, <1>5, <1>10, <2>1
  <2> QED
    BY <2>2, <2>3 DEF ReplyUnderWay
<1> QED
  BY <1>1, <1>2, <1>11 DEF AloneInv, Succeeded

LEMMA AloneBytes == TypeInv /\ AloneInv /\ readBytes => AloneInv'
<1> SUFFICES ASSUME TypeInv, AloneInv, readBytes, ~failed' PROVE AloneInv'
  BY DEF AloneInv
<1> DEFINE got == Recv(recvLen)
<1>1. /\ ~failed /\ ~Short(got, recvLen) /\ CheckSize(got) /\ UNCHANGED lost
      /\ Len(got) >= SW /\ result'.bytes = got /\ phase' = "idle"
  <2>1. ~Short(got, recvLen) /\ CheckSize(got) /\ UNCHANGED lost
    BY Returned DEF readBytes
  <2> HIDE DEF got
  <2>2. ~failed /\ Len(got) >= SW /\ phase' = "idle" /\ result'.bytes = got
    BY <2>1, Returned DEF CheckSize
  <2> QED
    BY <2>1, <2>2
<1>2. phase = "bytes" /\ UNCHANGED <<commands, owed, sent, command>>
  BY DEF readBytes
<1>3. PICK r \in Replies : ReplyUnderWay([to |-> command, is |-> r])
  BY <1>1, <1>2 DEF AloneInv
<1> DEFINE reply == [to |-> command, is |-> r]
<1>4. reply \in ReplyTo /\ reply.is = r /\ Len(r) \in Nat
  BY CommandReply, TcpAssumption DEF TypeInv
<1> HIDE DEF got, reply
<1>5. /\ commands = <<>> /\ owed = <<>> /\ IsPrefix(arrived \o sent, Body(reply))
      /\ recvLen = Len(r) \/ recvLen < SW
  BY <1>2, <1>3, <1>4 DEF ReplyUnderWay, reply
<1>6. /\ recvLen \in Nat /\ arrived \in Seq(StreamByte) /\ sent \in Seq(StreamByte)
      /\ Body(reply) \in Seq(StreamByte) /\ Len(Body(reply)) = Len(r)
  BY <1>4, ModulusType, BodyShape DEF TypeInv
<1>7. /\ recvLen <= Len(arrived) /\ Len(got) = recvLen /\ got = SubSeq(arrived, 1, recvLen)
      /\ arrived' \in Seq(StreamByte)
      /\ arrived' = SubSeq(arrived, recvLen + 1, Len(arrived))
  BY <1>1, <1>6, RecvShape DEF readBytes, got
<1>8. recvLen = Len(Body(reply))
  BY <1>1, <1>5, <1>6, <1>7 DEF SW
<1>9. /\ SubSeq(arrived, 1, recvLen) = SubSeq(Body(reply), 1, recvLen)
      /\ IsPrefix(SubSeq(arrived, recvLen + 1, Len(arrived)) \o sent,
                  SubSeq(Body(reply), recvLen + 1, Len(Body(reply))))
  BY <1>5, <1>6, <1>7, PrefixCut
<1>10. got = Body(reply)
  BY <1>6, <1>7, <1>8, <1>9
<1>11. IsPrefix(arrived' \o sent, <<>>)
  <2>1. SubSeq(Body(reply), recvLen + 1, Len(Body(reply))) = <<>>
    BY <1>6, <1>8
  <2> QED
    BY <1>7, <1>9, <2>1
<1>12. Len(arrived' \o sent) <= 0
  BY <1>11 DEF IsPrefix
<1>13. arrived' = <<>> /\ sent = <<>>
  BY <1>6, <1>7, <1>12
<1>14. stream' = <<<<>>, <<>>, <<>>, <<>>>>
  BY <1>2, <1>5, <1>13 DEF stream
<1>15. result'.bytes = Body([to |-> command', is |-> r])
  BY <1>1, <1>2, <1>10 DEF reply
<1> QED
  BY <1>1, <1>2, <1>14, <1>15 DEF AloneInv, Body, Message

\* What the proxy and the network do, seen from the exchange in progress.
LEMMA AloneOutside ==
  ASSUME TypeInv, AloneInv, ~failed,
         UNCHANGED <<phase, command, recvLen, result, failed, lost>>,
         stream = <<<<>>, <<>>, <<>>, <<>>>> => UNCHANGED stream,
         phase = "length" /\ CommandUnderWay =>
           CommandUnderWay' \/ \E r \in Replies : ReplyUnderWay([to |-> command, is |-> r])',
         \A r \in Replies : ReplyUnderWay([to |-> command, is |-> r])
                              => ReplyUnderWay([to |-> command, is |-> r])'
  PROVE  AloneInv'
<1>1. phase \in {"idle", "send"} => stream' = <<<<>>, <<>>, <<>>, <<>>>>
  BY DEF AloneInv
<1>2. phase \in {"length", "bytes"} =>
        \/ phase = "length" /\ CommandUnderWay'
        \/ \E r \in Replies : ReplyUnderWay([to |-> command, is |-> r])'
  BY DEF AloneInv
<1>3. Succeeded' => \E r \in Replies : result'.bytes = Body([to |-> command', is |-> r])
  BY DEF AloneInv, Succeeded
<1> QED
  BY <1>1, <1>2, <1>3 DEF AloneInv

LEMMA AloneReceive == TypeInv /\ AloneInv /\ Receive => AloneInv'
<1> SUFFICES ASSUME TypeInv, AloneInv, Receive, ~failed PROVE AloneInv'
  BY DEF AloneInv, Receive
<1>1. stream # <<<<>>, <<>>, <<>>, <<>>>>
  BY DEF Receive, stream
<1>2. ASSUME CommandUnderWay PROVE CommandUnderWay'
  <2>1. commands = <<command>> /\ owed = <<>>
    BY <1>2 DEF Receive, CommandUnderWay
  <2>2. commands' = <<>> /\ owed' \in {<<>>, <<command>>}
    BY <2>1 DEF Receive
  <2> QED
    BY <1>2, <2>2 DEF Receive, CommandUnderWay
<1>3. \A r : ~ReplyUnderWay([to |-> command, is |-> r])
  BY DEF Receive, ReplyUnderWay
<1> QED
  BY <1>1, <1>2, <1>3, AloneOutside DEF Receive

LEMMA AloneServe ==
  ASSUME NEW r \in Replies, TypeInv, AloneInv, Serve(r) PROVE AloneInv'
<1> SUFFICES ASSUME ~failed PROVE AloneInv'
  BY DEF AloneInv, Serve
<1>1. stream # <<<<>>, <<>>, <<>>, <<>>>>
  BY DEF Serve, stream
<1>2. ASSUME CommandUnderWay, phase = "length" PROVE ReplyUnderWay([to |-> command, is |-> r])'
  <2>1. owed = <<command>> /\ commands = <<>> /\ sent = <<>> /\ arrived = <<>>
    BY <1>2 DEF Serve, CommandUnderWay
  <2> DEFINE m == Message([to |-> command, is |-> r])
  <2>2. m \in Seq(StreamByte)
    BY CommandReply, MessageShape DEF TypeInv
  <2>3. sent' = <<>> \o m /\ arrived' = <<>> /\ owed' = <<>> /\ commands' = <<>>
    BY <2>1 DEF Serve
  <2> HIDE DEF m
  <2>4. arrived' \o sent' = m
    BY <2>2, <2>3
  <2>5. IsPrefix(arrived' \o sent', m)
    BY <2>2, <2>4 DEF IsPrefix
  <2> QED
    BY <1>2, <2>3, <2>5 DEF ReplyUnderWay, Serve, m
<1>3. \A q : ~ReplyUnderWay([to |-> command, is |-> q])
  BY DEF Serve, ReplyUnderWay
<1> QED
  BY <1>1, <1>2, <1>3, AloneOutside DEF Serve

LEMMA AloneArrive == TypeInv /\ AloneInv /\ Arrive => AloneInv'
<1> SUFFICES ASSUME TypeInv, AloneInv, Arrive, ~failed' PROVE AloneInv'
  BY DEF AloneInv
<1>0. ~failed
  BY DEF Arrive
<1>1. stream # <<<<>>, <<>>, <<>>, <<>>>> /\ ~CommandUnderWay
  BY DEF Arrive, stream, CommandUnderWay
<1>2. arrived' \o sent' = arrived \o sent
  <2>1. PICK n \in 1..Len(sent) : /\ arrived' = arrived \o SubSeq(sent, 1, n)
                                  /\ sent' = SubSeq(sent, n + 1, Len(sent))
    BY DEF Arrive
  <2>2. arrived \in Seq(StreamByte) /\ sent \in Seq(StreamByte)
    BY DEF TypeInv
  <2> DEFINE first == SubSeq(sent, 1, n)
             rest == SubSeq(sent, n + 1, Len(sent))
  <2>3. first \in Seq(StreamByte) /\ rest \in Seq(StreamByte) /\ first \o rest = sent
    BY <2>2
  <2>4. arrived' = arrived \o first /\ sent' = rest
    BY <2>1
  <2> HIDE DEF first, rest
  <2>5. \A a, b, c \in Seq(StreamByte) : (a \o b) \o c = a \o (b \o c)
    BY ConcatAssociative
  <2> QED
    BY <2>2, <2>3, <2>4, <2>5
<1>3. \A r \in Replies : ReplyUnderWay([to |-> command, is |-> r])
                           => ReplyUnderWay([to |-> command, is |-> r])'
  BY <1>2 DEF Arrive, ReplyUnderWay
<1> QED
  BY <1>1, <1>3, <1>0, AloneOutside DEF Arrive

LEMMA AlonePeerCloses == TypeInv /\ AloneInv /\ PeerCloses => AloneInv'
<1> SUFFICES ASSUME TypeInv, AloneInv, PeerCloses, ~failed' PROVE AloneInv'
  BY DEF AloneInv
<1>0. ~failed
  BY DEF PeerCloses
<1>1. arrived \in Seq(StreamByte) /\ sent \in Seq(StreamByte) /\ command \in Commands
  BY DEF TypeInv
<1>2. PICK n \in 0..Len(sent) : sent' = SubSeq(sent, 1, n)
  BY DEF PeerCloses
<1>3. sent = <<>> => sent' = <<>>
  BY <1>1, <1>2
<1>4. stream = <<<<>>, <<>>, <<>>, <<>>>> => UNCHANGED stream
  BY <1>3 DEF PeerCloses, stream
<1>5. CommandUnderWay => CommandUnderWay'
  BY <1>3 DEF PeerCloses, CommandUnderWay
<1>6. ASSUME NEW r \in Replies, ReplyUnderWay([to |-> command, is |-> r])
      PROVE  ReplyUnderWay([to |-> command, is |-> r])'
  <2> DEFINE reply == [to |-> command, is |-> r]
  <2>1. reply \in ReplyTo
    BY <1>1, CommandReply
  <2>2. Message(reply) \in Seq(StreamByte) /\ Body(reply) \in Seq(StreamByte)
    BY <2>1, MessageShape, BodyShape
  <2>3. IsPrefix(arrived \o sent, Message(reply)) => IsPrefix(arrived \o sent', Message(reply))
    BY <1>1, <1>2, <2>2, PrefixShorter
  <2>4. IsPrefix(arrived \o sent, Body(reply)) => IsPrefix(arrived \o sent', Body(reply))
    BY <1>1, <1>2, <2>2, PrefixShorter
  <2> QED
    BY <1>6, <2>3, <2>4 DEF ReplyUnderWay, PeerCloses
<1> QED
  BY <1>4, <1>5, <1>6, <1>0, AloneOutside DEF PeerCloses

LEMMA AloneStep == TypeInv /\ AloneInv /\ [Next]_vars => AloneInv'
<1> SUFFICES ASSUME TypeInv, AloneInv, [Next]_vars PROVE AloneInv'
  OBVIOUS
<1>1. CASE readNothing
  <2>1. failed'
    BY <1>1, Returned DEF readNothing
  <2> QED
    BY <2>1 DEF AloneInv
<1>2. CASE UNCHANGED vars
  BY <1>2 DEF AloneInv, CommandUnderWay, ReplyUnderWay, Succeeded, vars, stream
<1> QED
  BY <1>1, <1>2, AloneConnect, AloneExchange, AloneSend, AloneLength, AloneBytes, AloneReceive,
     AloneServe, AloneArrive, AlonePeerCloses DEF Next, Read
-----------------------------------------------------------------------------
(* Theorems *)

THEOREM Inductive == Spec => [](TypeInv /\ AnswerFits /\ AloneInv)
<1>1. Init => TypeInv /\ AnswerFits /\ AloneInv
  BY InitType DEF Init, AnswerFits, AloneInv, stream, Succeeded
<1>2. TypeInv /\ AnswerFits /\ AloneInv /\ [Next]_vars => (TypeInv /\ AnswerFits /\ AloneInv)'
  BY TypeStep, FitsStep, AloneStep
<1> QED
  BY <1>1, <1>2, PTL DEF Spec

\* The stream consists of bytes of replies to commands that were sent, and an
\* exchange never waits for more bytes than its buffer takes.
THEOREM TypeCorrect == Spec => []TypeOK
<1>1. TypeInv => TypeOK
  <2> SUFFICES ASSUME TypeInv PROVE TypeOK
    OBVIOUS
  <2>1. Range(commands \o owed) \subseteq Commands \cup {Torn}
    <3>1. commands \o owed \in Seq(Commands \cup {Torn})
      BY DEF TypeInv
    <3> QED
      BY <3>1, RangeType
  <2>2. Range(sent \o arrived \o result.bytes) \subseteq StreamByte
    <3>1. sent \o arrived \o result.bytes \in Seq(StreamByte)
      BY DEF TypeInv
    <3> QED
      BY <3>1, RangeType
  <2>3. \A b \in StreamByte : b.v \in 0..(Base - 1) /\ b.of.to \in Commands \cup {Torn} /\ b.of.is \in Replies
    BY DEF StreamByte, ReplyTo
  <2> QED
    BY <2>1, <2>2, <2>3 DEF TypeInv, TypeOK
<1> QED
  BY <1>1, Inductive, PTL

\* Whatever lengths are read from a stream that is out of step, and however they
\* wrap around: no answer overflows its buffer or lacks a status word.
THEOREM AnswersFit == Spec => []AnswerFits
BY Inductive, PTL

\* An exchange that succeeds on a connection that has not failed leaves nothing.
THEOREM LeavesNothing == Spec => []AtBoundary
<1>1. AloneInv => AtBoundary
  BY DEF AloneInv, AtBoundary
<1> QED
  BY <1>1, Inductive, PTL

\* Wherever TCP cuts the stream: until one has failed, every exchange returns
\* the answer to its own command.
THEOREM AnswersAreOwn == Spec => []OwnAnswer
<1>1. TypeInv /\ AloneInv => OwnAnswer
  <2> SUFFICES ASSUME TypeInv, AloneInv, ~failed, Succeeded PROVE result.bytes[1].of.to = command
    BY DEF OwnAnswer, T!OwnAnswer, Succeeded
  <2>1. PICK r \in Replies : result.bytes = Body([to |-> command, is |-> r])
    BY DEF AloneInv
  <2>2. result.bytes[1].of = [to |-> command, is |-> r]
    BY <2>1, CommandReply, BodyShape DEF TypeInv
  <2> QED
    BY <2>2
<1> QED
  BY <1>1, Inductive, PTL
=============================================================================
