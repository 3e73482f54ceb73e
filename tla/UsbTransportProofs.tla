------------------------- MODULE UsbTransportProofs -------------------------
(***************************************************************************)
(* Theorems about UsbTransport, for messages and packets of any size and   *)
(* hosts of either byte order.                                             *)
(***************************************************************************)
EXTENDS UsbTransport, TransportLemmas

-----------------------------------------------------------------------------
(* Numbers *)

LEMMA Max16Type == Base \in Nat /\ Base > 1 /\ Base * Base \in Nat /\ Max16 \in Nat /\ Max16 = Base * Base - 1
<1>1. Base \in Nat /\ Base > 1
  BY UsbAssumption
<1>2. Base * Base \in Nat /\ Base * Base > 0
  BY <1>1
<1> QED
  BY <1>1, <1>2 DEF Max16

\* A number on the wire is that number, whatever the byte order of the host.
LEMMA WireNumber ==
  ASSUME NEW v \in 0..Max16
  PROVE  /\ BigEndian(v) \in Pair /\ Number(BigEndian(v)) = v
         /\ storeu_be(v) = BigEndian(v)
<1> DEFINE q == v \div Base
           r == v % Base
<1>1. Base \in Nat /\ Base > 1 /\ v \in Nat /\ v < Base * Base
  BY Max16Type
<1>2. q \in Nat /\ r \in 0..(Base - 1) /\ v = Base * q + r
  BY <1>1, Division
<1>3. q \in 0..(Base - 1)
  BY <1>1, <1>2, DivisionBound
<1>4. BigEndian(v) = <<q, r>> /\ bswap(v) = r * Base + q
  BY DEF BigEndian, bswap
<1> HIDE DEF q, r
<1>5. BigEndian(v) \in Pair /\ Number(BigEndian(v)) = v
  BY <1>1, <1>2, <1>3, <1>4 DEF Pair, Number
<1>6. (r * Base + q) % Base = q /\ (r * Base + q) \div Base = r
  <2>1. r * Base + q = Base * r + q /\ r \in Nat
    BY <1>1, <1>2
  <2> QED
    BY <1>1, <1>3, <2>1, DivisionUnique
<1>7. storeu_be(v) = <<q, r>>
  BY <1>4, <1>6 DEF storeu_be, storeu, Memory, bswap_be, q, r
<1> QED
  BY <1>4, <1>5, <1>7

\* What the host loads is the number on the wire.
LEMMA LoadedNumber ==
  ASSUME NEW b \in Pair
  PROVE  loadu_be(b) = Number(b) /\ Number(b) \in 0..Max16
<1>1. PICK x \in 0..(Base - 1), y \in 0..(Base - 1) : b = <<x, y>>
  BY DEF Pair
<1>2. Base \in Nat /\ Base > 1
  BY Max16Type
<1>3. Number(b) = x * Base + y
  BY <1>1 DEF Number
<1>4. x * Base + y \in 0..(Base * Base - 1)
  <2>1. x * Base \in Nat /\ x * Base <= (Base - 1) * Base
    BY <1>2
  <2> QED
    BY <1>2, <2>1
<1>5. bswap(x + Base * y) = x * Base + y
  <2>1. x + Base * y = Base * y + x
    BY <1>2
  <2>2. (x + Base * y) % Base = x /\ (x + Base * y) \div Base = y
    BY <1>2, <2>1, DivisionUnique
  <2> QED
    BY <2>2 DEF bswap
<1>6. loadu_be(b) = x * Base + y
  BY <1>1, <1>2, <1>5 DEF loadu_be, loadu, bswap_be
<1> QED
  BY <1>3, <1>4, <1>6, Max16Type
-----------------------------------------------------------------------------
(* Messages and packets *)

LEMMA CommandBytes ==
  ASSUME NEW c \in Commands
  PROVE  /\ LenOf(c) = CommandLen[c] /\ CommandLen[c] \in Nat /\ CommandLen[c] > 0
         /\ Bytes(c) \in Seq(MessageByte) /\ Len(Bytes(c)) = CommandLen[c]
         /\ \A i \in 1..CommandLen[c] : Bytes(c)[i].of = c
<1>1. LenOf(c) = CommandLen[c] /\ CommandLen[c] \in Nat /\ CommandLen[c] > 0
  BY UsbAssumption DEF LenOf
<1>2. \A i \in 1..CommandLen[c] : [of |-> c, place |-> i] \in MessageByte
  BY <1>1 DEF MessageByte, Messages
<1>3. Bytes(c) = [i \in 1..CommandLen[c] |-> [of |-> c, place |-> i]]
  BY <1>1 DEF Bytes
<1>4. Bytes(c) \in [1..CommandLen[c] -> MessageByte]
  BY <1>2, <1>3
<1>5. Bytes(c) \in Seq(MessageByte) /\ Len(Bytes(c)) = CommandLen[c]
  BY <1>1, <1>4
<1> QED
  BY <1>1, <1>3, <1>5

LEMMA ReplyBytes ==
  ASSUME NEW reply \in ReplyMessages
  PROVE  /\ reply.is \in 2..Max16
         /\ Bytes(reply) \in Seq(MessageByte) /\ Len(Bytes(reply)) = reply.is
         /\ \A i \in 1..reply.is : Bytes(reply)[i].of = reply
<1>1. reply \notin Commands /\ reply.is \in 2..Max16
  BY UsbAssumption, Max16Type DEF ReplyMessages
<1>2. LenOf(reply) = reply.is /\ reply.is \in Nat
  BY <1>1 DEF LenOf
<1>3. \A i \in 1..reply.is : [of |-> reply, place |-> i] \in MessageByte
  BY <1>2 DEF MessageByte, Messages
<1>4. Bytes(reply) = [i \in 1..reply.is |-> [of |-> reply, place |-> i]]
  BY <1>2 DEF Bytes
<1>5. Bytes(reply) \in [1..reply.is -> MessageByte]
  BY <1>3, <1>4
<1>6. Bytes(reply) \in Seq(MessageByte) /\ Len(Bytes(reply)) = reply.is
  BY <1>2, <1>5
<1> QED
  BY <1>1, <1>4, <1>6

\* Part of a message consists of its bytes.
LEMMA PartOfMessage ==
  ASSUME NEW m, NEW n \in Nat, Bytes(m) \in Seq(MessageByte), Len(Bytes(m)) = n,
         \A i \in 1..n : Bytes(m)[i].of = m,
         NEW i \in Nat, NEW j \in Nat, j <= n
  PROVE  /\ SubSeq(Bytes(m), i + 1, j) \in Seq(MessageByte)
         /\ Len(SubSeq(Bytes(m), i + 1, j)) = IF i < j THEN j - i ELSE 0
         /\ \A k \in DOMAIN SubSeq(Bytes(m), i + 1, j) : SubSeq(Bytes(m), i + 1, j)[k].of = m
<1> DEFINE b == Bytes(m)
           s == SubSeq(b, i + 1, j)
<1> HIDE DEF b
<1>1. b \in Seq(MessageByte) /\ Len(b) = n /\ \A k \in 1..n : b[k].of = m
  BY DEF b
<1>2. s \in Seq(MessageByte) /\ Len(s) = (IF i < j THEN j - i ELSE 0)
  BY <1>1
<1>3. \A k \in 1..Len(s) : s[k] = b[i + k] /\ i + k \in 1..n
  BY <1>1, <1>2
<1>4. DOMAIN s = 1..Len(s)
  BY <1>2
<1> HIDE DEF s
<1>5. \A k \in DOMAIN s : s[k].of = m
  BY <1>1, <1>3, <1>4
<1> QED
  BY <1>2, <1>5 DEF s, b

\* The packets of a reply are enough for it, and no more.
LEMMA CountShape ==
  ASSUME NEW reply \in ReplyMessages
  PROVE  /\ Count(reply) \in Nat /\ Count(reply) > 0 /\ Count(reply) <= Max16
         /\ reply.is <= FirstRoom => Count(reply) = 1
         /\ \A k \in Nat :
              k > 0 /\ FirstRoom + (k - 1) * NextRoom < reply.is /\ reply.is <= FirstRoom + k * NextRoom
                => Count(reply) = k + 1
<1>1. reply.is \in 2..Max16 /\ Max16 \in Nat
  BY ReplyBytes, Max16Type
<1>2. FirstRoom \in Nat /\ FirstRoom > 0 /\ NextRoom \in Nat /\ NextRoom > 0
  BY UsbAssumption
<1>3. CASE reply.is <= FirstRoom
  <2>1. Max({0, reply.is - FirstRoom}) = 0
    BY <1>1, <1>2, <1>3, MaxOfTwo
  <2>2. (NextRoom * 0 + (NextRoom - 1)) \div NextRoom = 0
    BY <1>2, DivisionUnique
  <2>3. Count(reply) = 1
    BY <1>2, <2>1, <2>2 DEF Count
  <2>4. ASSUME NEW k \in Nat, k > 0 PROVE ~(FirstRoom + (k - 1) * NextRoom < reply.is)
    BY <1>1, <1>2, <1>3, <2>4
  <2> QED
    BY <1>1, <2>3, <2>4
<1>4. CASE reply.is > FirstRoom
  <2> DEFINE m == reply.is - FirstRoom
  <2>1. m \in Nat /\ m > 0 /\ m < reply.is
    BY <1>1, <1>2, <1>4
  <2>2. Max({0, reply.is - FirstRoom}) = m
    BY <2>1, MaxOfTwo
  <2> HIDE DEF m
  <2>3. Count(reply) = 1 + (m + NextRoom - 1) \div NextRoom
    BY <2>2 DEF Count
  <2>4. m + NextRoom - 1 \in Nat /\ m + NextRoom - 1 < NextRoom * (m + 1)
    <3>1. NextRoom * m >= m
      BY <1>2, <2>1
    <3> QED
      BY <1>2, <2>1, <3>1
  <2>5. (m + NextRoom - 1) \div NextRoom \in Nat /\ (m + NextRoom - 1) \div NextRoom < m + 1
    BY <1>2, <2>1, <2>4, Division, DivisionBound
  <2>6. Count(reply) \in Nat /\ Count(reply) > 0 /\ Count(reply) <= Max16
    BY <1>1, <2>1, <2>3, <2>5
  <2>7. ASSUME NEW k \in Nat, k > 0, FirstRoom + (k - 1) * NextRoom < reply.is,
               reply.is <= FirstRoom + k * NextRoom
        PROVE  Count(reply) = k + 1
    <3>1. m > (k - 1) * NextRoom /\ m <= k * NextRoom
      BY <1>1, <1>2, <2>7 DEF m
    <3> DEFINE r == m - 1 - (k - 1) * NextRoom
    <3>2. (k - 1) * NextRoom \in Int /\ k * NextRoom = (k - 1) * NextRoom + NextRoom
      BY <1>2
    <3>3. r \in 0..(NextRoom - 1)
      BY <1>2, <2>1, <3>1, <3>2
    <3>4. m + NextRoom - 1 = NextRoom * k + r
      BY <1>2, <2>1, <3>2
    <3> HIDE DEF r
    <3>5. (m + NextRoom - 1) \div NextRoom = k
      BY <1>2, <3>3, <3>4, DivisionUnique
    <3> QED
      BY <2>3, <3>5
  <2> QED
    BY <1>1, <1>2, <1>4, <2>6, <2>7
<1> QED
  BY <1>1, <1>2, <1>3, <1>4

LEMMA PacketType ==
  ASSUME NEW seq \in Pair, NEW len \in Pair, NEW data \in Seq(MessageByte)
  PROVE  Packet(seq, len, data) \in AnyPackets
BY DEF Packet, AnyPackets

LEMMA PacketFields ==
  ASSUME NEW seq, NEW len, NEW data
  PROVE  /\ Packet(seq, len, data).ours /\ Packet(seq, len, data).seq = seq
         /\ Packet(seq, len, data).len = len /\ Packet(seq, len, data).data = data
BY DEF Packet

LEMMA NoLenType == NoLen \in Pair /\ Number(NoLen) = 0
BY Max16Type DEF NoLen, Pair, Number

\* Every packet of a reply has its own number and bytes of that reply only, and
\* the first one has its length.
LEMMA PacketsShape ==
  ASSUME NEW reply \in ReplyMessages
  PROVE  /\ Packets(reply) \in Seq(AnyPackets) /\ Len(Packets(reply)) = Count(reply)
         /\ \A k \in 1..Count(reply) :
              /\ Packets(reply)[k].ours /\ Number(Packets(reply)[k].seq) = k - 1
              /\ \A i \in DOMAIN Packets(reply)[k].data : Packets(reply)[k].data[i].of = reply
         /\ Number(Packets(reply)[1].len) = reply.is
<1> DEFINE upto(k) == Min({reply.is, FirstRoom + (k - 1) * NextRoom})
           packet(k) ==
             IF k = 1
               THEN Packet(BigEndian(0), BigEndian(reply.is), SubSeq(Bytes(reply), 1, upto(1)))
               ELSE Packet(BigEndian(k - 1), NoLen, SubSeq(Bytes(reply), upto(k - 1) + 1, upto(k)))
<1>1. reply.is \in Nat /\ reply.is \in 0..Max16 /\ FirstRoom \in Nat /\ NextRoom \in Nat /\ Max16 \in Nat
  BY ReplyBytes, Max16Type, UsbAssumption
<1>2. \A k \in Nat : k > 0 => upto(k) \in Nat /\ upto(k) <= reply.is
  <2> SUFFICES ASSUME NEW k \in Nat, k > 0 PROVE upto(k) \in Nat /\ upto(k) <= reply.is
    OBVIOUS
  <2>1. FirstRoom + (k - 1) * NextRoom \in Nat
    <3>1. k - 1 \in Nat
      OBVIOUS
    <3>2. (k - 1) * NextRoom \in Nat
      BY <1>1, <3>1
    <3> QED
      BY <1>1, <3>2
  <2> QED
    BY <1>1, <2>1, MinOfTwo
<1> HIDE DEF upto
<1>3. Count(reply) \in Nat /\ Count(reply) > 0 /\ Count(reply) <= Max16
  BY CountShape
<1>4. Packets(reply) = [k \in 1..Count(reply) |-> packet(k)]
  BY DEF Packets, upto
<1>5. ASSUME NEW k \in 1..Count(reply)
      PROVE  /\ packet(k) \in AnyPackets
             /\ packet(k).ours /\ packet(k).seq = BigEndian(k - 1)
             /\ \A i \in DOMAIN packet(k).data : packet(k).data[i].of = reply
  <2>0. /\ Bytes(reply) \in Seq(MessageByte) /\ Len(Bytes(reply)) = reply.is
        /\ \A i \in 1..reply.is : Bytes(reply)[i].of = reply
    BY ReplyBytes
  <2>1. k - 1 \in 0..Max16 /\ k \in Nat /\ k > 0
    BY <1>1, <1>3
  <2>2. CASE k = 1
    <3> DEFINE data == SubSeq(Bytes(reply), 0 + 1, upto(1))
    <3>1. packet(k) = Packet(BigEndian(0), BigEndian(reply.is), data) /\ k - 1 = 0
      BY <2>2
    <3>2. data \in Seq(MessageByte) /\ \A i \in DOMAIN data : data[i].of = reply
      <4>1. upto(1) \in Nat /\ upto(1) <= reply.is
        BY <1>2
      <4> HIDE DEF packet
      <4> QED
        BY <1>1, <2>0, <4>1, PartOfMessage
    <3> HIDE DEF data, packet
    <3>3. Packet(BigEndian(0), BigEndian(reply.is), data) \in AnyPackets
      BY <1>1, <3>2, WireNumber, PacketType
    <3> QED
      BY <3>1, <3>2, <3>3, PacketFields
  <2>3. CASE k # 1
    <3> DEFINE data == SubSeq(Bytes(reply), upto(k - 1) + 1, upto(k))
    <3>1. packet(k) = Packet(BigEndian(k - 1), NoLen, data)
      BY <2>3
    <3>2. upto(k - 1) \in Nat /\ upto(k) \in Nat /\ upto(k) <= reply.is
      BY <1>2, <2>1, <2>3
    <3>3. data \in Seq(MessageByte) /\ \A i \in DOMAIN data : data[i].of = reply
      <4> HIDE DEF packet
      <4> QED
        BY <1>1, <2>0, <3>2, PartOfMessage
    <3> HIDE DEF data, packet
    <3>4. Packet(BigEndian(k - 1), NoLen, data) \in AnyPackets
      BY <2>1, <3>3, WireNumber, NoLenType, PacketType
    <3> QED
      BY <3>1, <3>3, <3>4, PacketFields
  <2> QED
    BY <2>2, <2>3
<1>6. packet(1).len = BigEndian(reply.is)
  BY DEF Packet
<1> HIDE DEF packet
<1>7. Packets(reply) \in [1..Count(reply) -> AnyPackets]
  BY <1>4, <1>5
<1>8. \A k \in 1..Count(reply) : Packets(reply)[k] = packet(k)
  BY <1>4
<1>9. Packets(reply) \in Seq(AnyPackets) /\ Len(Packets(reply)) = Count(reply)
  BY <1>3, <1>7
<1>10. \A k \in 1..Count(reply) : Number(BigEndian(k - 1)) = k - 1
  BY <1>1, <1>3, WireNumber
<1>11. Number(Packets(reply)[1].len) = reply.is
  BY <1>1, <1>3, <1>6, <1>8, WireNumber
<1> QED
  BY <1>5, <1>8, <1>9, <1>10, <1>11

\* The packet that send has in Buf.
LEMMA ChunkShape ==
  ASSUME TypeInv, ProgressInv, phase = "send"
  PROVE  /\ CommandLen[command] \in Nat /\ pos + Len(Chunk) <= CommandLen[command]
         /\ Chunk \in Seq(MessageByte) /\ Len(Chunk) \in Nat /\ Len(Chunk) > 0
         /\ pos + Len(Chunk) < CommandLen[command] => pos + Len(Chunk) = FirstRoom + seqNum * NextRoom
         /\ \A i \in DOMAIN Chunk : Chunk[i].of = command
         /\ Beginning(command, pos) \o Chunk = Beginning(command, pos + Len(Chunk))
         /\ NextNumber = seqNum + 1 /\ (seqNum = 0 <=> pos = 0)
         /\ Number(PacketToSend.seq) = seqNum /\ PacketToSend.data = Chunk
         /\ seqNum = 0 => Number(PacketToSend.len) = CommandLen[command]
<1> DEFINE n == CommandLen[command]
           to == Min({LenOf(command), pos + Room})
<1>1. /\ LenOf(command) = n /\ n \in Nat /\ n > 0 /\ n <= Max16 /\ pos \in Nat /\ pos < n
      /\ seqNum \in Nat /\ seqNum \in 0..Max16 /\ Max16 \in Nat
      /\ Bytes(command) \in Seq(MessageByte) /\ Len(Bytes(command)) = n
  BY CommandBytes, Max16Type DEF TypeInv, ProgressInv
<1>2. FirstRoom \in Nat /\ FirstRoom > 0 /\ NextRoom \in Nat /\ NextRoom > 0
  BY UsbAssumption
<1>3. /\ pos = (IF seqNum = 0 THEN 0 ELSE FirstRoom + (seqNum - 1) * NextRoom)
      /\ Room = (IF seqNum = 0 THEN FirstRoom ELSE NextRoom)
  BY DEF ProgressInv, Room
<1>4. (seqNum = 0 <=> pos = 0) /\ seqNum <= pos
  <2>1. CASE seqNum = 0
    BY <1>3, <2>1
  <2>2. CASE seqNum # 0
    <3>1. seqNum - 1 \in Nat /\ (seqNum - 1) * NextRoom \in Nat /\ (seqNum - 1) * NextRoom >= seqNum - 1
      BY <1>1, <1>2, <2>2
    <3> QED
      BY <1>1, <1>2, <1>3, <2>2, <3>1
  <2> QED
    BY <2>1, <2>2
<1>5. pos + Room = FirstRoom + seqNum * NextRoom /\ Room \in Nat /\ Room > 0
  <2>1. CASE seqNum = 0
    BY <1>2, <1>3, <2>1
  <2>2. CASE seqNum # 0
    <3>1. seqNum * NextRoom = (seqNum - 1) * NextRoom + NextRoom /\ (seqNum - 1) * NextRoom \in Int
      BY <1>1, <1>2
    <3> QED
      BY <1>1, <1>2, <1>3, <2>2, <3>1
  <2> QED
    BY <2>1, <2>2
<1>6. to = IF n <= pos + Room THEN n ELSE pos + Room
  BY <1>1, <1>5, MinOfTwo
<1> HIDE DEF n, to
<1>7. to \in Nat /\ pos < to /\ to <= n
  BY <1>1, <1>5, <1>6
<1>8. /\ Chunk = SubSeq(Bytes(command), pos + 1, to)
      /\ Chunk \in Seq(MessageByte) /\ Len(Chunk) = to - pos
      /\ \A i \in DOMAIN Chunk : Chunk[i].of = command
  <2>1. Chunk = SubSeq(Bytes(command), pos + 1, to)
    BY DEF Chunk, to
  <2>2. \A i \in 1..n : Bytes(command)[i].of = command
    BY CommandBytes DEF TypeInv, n
  <2> QED
    BY <1>1, <1>7, <2>1, <2>2, PartOfMessage
<1>9. Beginning(command, pos) \o Chunk = Beginning(command, to)
  <2>1. \A b \in Seq(MessageByte) : to <= Len(b) => SubSeq(b, 1, pos) \o SubSeq(b, pos + 1, to) = SubSeq(b, 1, to)
    BY <1>1, <1>7
  <2> QED
    BY <1>1, <1>7, <1>8, <2>1 DEF Beginning
<1>10. NextNumber = seqNum + 1
  <2>1. seqNum + 1 \in 0..Max16 /\ Max16 + 1 > 0
    BY <1>1, <1>4
  <2>2. ((Max16 + 1) * 0 + (seqNum + 1)) % (Max16 + 1) = seqNum + 1
    BY <1>1, <2>1, DivisionUnique
  <2> QED
    BY <1>1, <2>2 DEF NextNumber
<1>11. Number(PacketToSend.seq) = seqNum /\ PacketToSend.data = Chunk
  BY <1>1, WireNumber DEF PacketToSend, Packet
<1>12. seqNum = 0 => Number(PacketToSend.len) = n
  BY <1>1, <1>4, WireNumber DEF PacketToSend, Packet
<1>13. pos + Len(Chunk) = to
  BY <1>1, <1>7, <1>8
<1>14. pos + Len(Chunk) < n => pos + Len(Chunk) = FirstRoom + seqNum * NextRoom
  BY <1>1, <1>5, <1>6, <1>13
<1>15. Len(Chunk) \in Nat /\ Len(Chunk) > 0 /\ pos + Len(Chunk) <= n
  BY <1>1, <1>7, <1>8
<1>16. Beginning(command, pos) \o Chunk = Beginning(command, pos + Len(Chunk))
  BY <1>9, <1>13
<1> QED
  BY <1>1, <1>4, <1>8, <1>10, <1>11, <1>12, <1>14, <1>15, <1>16, Zenon DEF n

-----------------------------------------------------------------------------
(* The steps of the device and of the host *)

StateInv == TypeInv /\ ProgressInv /\ AsmInv

\* The bytes that the device still wants.
Wanted == IF asm.next = 0 THEN CommandLen[command] ELSE asm.left

\* The device ignores a packet, starts over, has a command whole or goes on.
LEMMA AssembleShape ==
  ASSUME StateInv, phase = "send", Assemble(PacketToSend)
  PROVE  \/ (taken # <<>> \/ replying # <<>>) /\ UNCHANGED <<asm, taken>>
         \/ taken = <<>> /\ replying = <<>> /\ asm' = NoAsm /\ taken' = <<>> /\ seqNum # asm.next
         \/ /\ taken = <<>> /\ replying = <<>> /\ seqNum = asm.next
            /\ Wanted <= Len(Chunk) /\ asm' = NoAsm
            /\ taken' = asm.bytes \o SubSeq(Chunk, 1, Wanted)
         \/ /\ taken = <<>> /\ replying = <<>> /\ seqNum = asm.next
            /\ Wanted > Len(Chunk) /\ taken' = <<>>
            /\ asm' = [next |-> seqNum + 1, left |-> Wanted - Len(Chunk), bytes |-> asm.bytes \o Chunk]
<1> DEFINE p == PacketToSend
           total == IF asm.next = 0 THEN Number(p.len) ELSE asm.left
           k == Min({total, Len(p.data)})
           data == SubSeq(p.data, 1, k)
           left == total - Len(data)
<1>1. /\ p.data = Chunk /\ Number(p.seq) = seqNum
      /\ Chunk \in Seq(MessageByte) /\ Len(Chunk) \in Nat
      /\ CommandLen[command] \in Nat
      /\ seqNum = 0 => Number(p.len) = CommandLen[command]
  BY ChunkShape DEF StateInv
<1>2. asm.next \in Nat /\ asm.left \in Nat
  BY DEF StateInv, TypeInv
<1>3. CASE taken # <<>> \/ replying # <<>>
  BY <1>3 DEF Assemble
<1>4. CASE taken = <<>> /\ replying = <<>> /\ seqNum # asm.next
  BY <1>1, <1>4 DEF Assemble
<1>5. CASE taken = <<>> /\ replying = <<>> /\ seqNum = asm.next
  <2>1. total = Wanted /\ Wanted \in Nat
    BY <1>1, <1>2, <1>5 DEF Wanted
  <2>2. k = IF Wanted <= Len(Chunk) THEN Wanted ELSE Len(Chunk)
    BY <1>1, <2>1, MinOfTwo
  <2>3. \/ left = 0 /\ asm' = NoAsm /\ taken' = asm.bytes \o data
        \/ left > 0 /\ asm' = [next |-> asm.next + 1, left |-> left, bytes |-> asm.bytes \o data] /\ taken' = taken
    BY <1>1, <1>5 DEF Assemble
  <2>4. data = SubSeq(Chunk, 1, k)
    BY <1>1
  <2> HIDE DEF p, total, data, k
  <2>5. k \in Nat /\ k <= Len(Chunk) /\ Len(data) = k
    BY <1>1, <2>1, <2>2, <2>4
  <2>6. left = Wanted - k
    BY <2>1, <2>5
  <2> HIDE DEF left
  <2>7. CASE Wanted <= Len(Chunk)
    <3>1. k = Wanted
      BY <2>2, <2>7
    <3>2. left = 0 /\ ~(left > 0)
      BY <2>1, <2>6, <3>1
    <3>3. asm' = NoAsm /\ taken' = asm.bytes \o SubSeq(Chunk, 1, Wanted)
      BY <2>3, <2>4, <3>1, <3>2, Zenon
    <3> QED
      BY <1>5, <2>7, <3>3
  <2>8. CASE Wanted > Len(Chunk)
    <3>1. k = Len(Chunk)
      BY <1>1, <2>1, <2>2, <2>8
    <3>2. left = Wanted - Len(Chunk) /\ left # 0
      BY <1>1, <2>1, <2>6, <2>8, <3>1
    <3>3. data = Chunk
      <4>1. SubSeq(Chunk, 1, Len(Chunk)) = Chunk
        BY <1>1
      <4> QED
        BY <2>4, <3>1, <4>1, Zenon
    <3>4. asm' = [next |-> seqNum + 1, left |-> left, bytes |-> asm.bytes \o Chunk] /\ taken' = taken
      BY <1>5, <2>3, <3>2, <3>3, Zenon
    <3> QED
      BY <1>5, <2>8, <3>2, <3>4
  <2>9. Wanted <= Len(Chunk) \/ Wanted > Len(Chunk)
    BY <1>1, <2>1
  <2> QED
    BY <2>7, <2>8, <2>9
<1> QED
  BY <1>3, <1>4, <1>5

\* Copying stays within the buffer, and the bytes are those of the packet.
LEMMA CopyShape ==
  ASSUME StateInv, NEW p \in AnyPackets, NEW room \in Nat, NEW want \in Nat,
         Len(out) + want <= size, Copy(p, room, want)
  PROVE  /\ out' \in Seq(MessageByte) /\ Len(out') \in Nat /\ Len(out') <= size
         /\ \A m : (\A i \in DOMAIN out : out[i].of = m) /\ (\A i \in DOMAIN p.data : p.data[i].of = m)
                     => \A i \in DOMAIN out' : out'[i].of = m
         /\ \/ /\ want > room /\ inLen' = want - room /\ Len(out') + inLen' <= size
               /\ seqNum' = NextNumber /\ phase' = "rest" /\ UNCHANGED <<pos, timed, res, failed>>
            \/ want <= room /\ Return(IF Len(out') >= SW THEN "SUCCESS" ELSE "PROTOCOL_BAD_LENGTH")
<1> DEFINE k == Min({want, room, Len(p.data)})
           data == SubSeq(p.data, 1, k)
<1>1. /\ p.data \in Seq(MessageByte) /\ Len(p.data) \in Nat /\ out \in Seq(MessageByte) /\ Len(out) \in Nat
      /\ size \in Nat
  <2>1. BufSizes \subseteq Nat
    BY UsbAssumption
  <2>2. out \in Seq(MessageByte) /\ size \in BufSizes
    BY DEF StateInv, TypeInv
  <2>3. p.data \in Seq(MessageByte)
    BY DEF AnyPackets
  <2> QED
    BY <2>1, <2>2, <2>3
<1>2. k \in Nat /\ k <= want /\ k <= room /\ k <= Len(p.data)
  BY <1>1 DEF Min
<1>3. Min({want, room}) = IF want <= room THEN want ELSE room
  BY MinOfTwo
<1>4. /\ out' = out \o data
      /\ \/ /\ want - Min({want, room}) > 0
            /\ inLen' = want - Min({want, room}) /\ seqNum' = NextNumber /\ phase' = "rest"
            /\ UNCHANGED <<pos, timed, res, failed>>
         \/ /\ want - Min({want, room}) = 0
            /\ Return(IF Len(out') >= SW THEN "SUCCESS" ELSE "PROTOCOL_BAD_LENGTH")
  BY DEF Copy
<1> HIDE DEF k
<1>5. data \in Seq(MessageByte) /\ Len(data) = k /\ \A i \in 1..k : data[i] = p.data[i]
  BY <1>1, <1>2
<1> HIDE DEF data
<1>6. out' \in Seq(MessageByte) /\ Len(out') = Len(out) + k
  BY <1>1, <1>4, <1>5
<1>7. ASSUME NEW m, \A i \in DOMAIN out : out[i].of = m, \A i \in DOMAIN p.data : p.data[i].of = m,
             NEW i \in DOMAIN out'
      PROVE  out'[i].of = m
  <2>1. i \in 1..(Len(out) + k) /\ DOMAIN out = 1..Len(out) /\ DOMAIN p.data = 1..Len(p.data)
    BY <1>1, <1>6
  <2>2. CASE i <= Len(out)
    BY <1>1, <1>4, <1>5, <1>7, <2>1, <2>2
  <2>3. CASE i > Len(out)
    <3>1. i - Len(out) \in 1..k /\ out'[i] = data[i - Len(out)]
      BY <1>1, <1>2, <1>4, <1>5, <2>1, <2>3
    <3>2. i - Len(out) \in DOMAIN p.data
      BY <1>1, <1>2, <2>1, <3>1
    <3> QED
      BY <1>5, <1>7, <3>1, <3>2
  <2> QED
    BY <1>1, <2>1, <2>2, <2>3
<1>8. Len(out') \in Nat /\ Len(out') <= size
  BY <1>1, <1>2, <1>6
<1>9. CASE want > room
  <2>1. want - Min({want, room}) = want - room /\ want - room # 0 /\ Len(out') + (want - room) <= size
    BY <1>1, <1>2, <1>3, <1>6, <1>9
  <2>2. /\ inLen' = want - room /\ seqNum' = NextNumber /\ phase' = "rest"
        /\ UNCHANGED <<pos, timed, res, failed>>
    BY <1>4, <2>1, Zenon
  <2> QED
    BY <1>6, <1>7, <1>8, <1>9, <2>1, <2>2, Zenon
<1>10. CASE want <= room
  <2>1. ~(want - Min({want, room}) > 0)
    BY <1>3, <1>10
  <2>2. Return(IF Len(out') >= SW THEN "SUCCESS" ELSE "PROTOCOL_BAD_LENGTH")
    BY <1>4, <2>1, Zenon
  <2> QED
    BY <1>6, <1>7, <1>8, <1>10, <2>2, Zenon
<1>11. want > room \/ want <= room
  OBVIOUS
<1> QED
  BY <1>9, <1>10, <1>11, Zenon

\* What holds of an exchange that has returned.
LEMMA Returning ==
  ASSUME NEW r \in Results, Return(r), failed \in BOOLEAN
  PROVE  /\ phase' = "idle" /\ res' = r /\ res' \in Results /\ timed' = FALSE
         /\ pos' = 0 /\ seqNum' = 0 /\ inLen' = 0
         /\ failed' \in BOOLEAN /\ (~failed' => ~failed /\ r = "SUCCESS")
BY DEF Return

LEMMA Sizes == StateInv => /\ size \in Nat /\ Max16 \in Nat /\ Max16 > 0 /\ out \in Seq(MessageByte) /\ Len(out) \in Nat
                           /\ CommandLen[command] \in Nat /\ CommandLen[command] > 0
<1>1. BufSizes \subseteq Nat /\ Max16 \in Nat /\ Max16 > 0
  <2>1. Base * Base > 1
    <3>1. Base \in Nat /\ Base > 1
      BY UsbAssumption
    <3>2. Base * (Base - 1) \in Nat /\ Base * Base = Base + Base * (Base - 1)
      BY <3>1
    <3> QED
      BY <3>1, <3>2
  <2> QED
    BY <2>1, Max16Type, UsbAssumption
<1>2. ASSUME StateInv PROVE out \in Seq(MessageByte) /\ size \in BufSizes /\ command \in Commands
  BY <1>2 DEF StateInv, TypeInv
<1>3. \A c \in Commands : CommandLen[c] \in Nat /\ CommandLen[c] > 0
  BY UsbAssumption
<1>4. \A s \in Seq(MessageByte) : Len(s) \in Nat
  OBVIOUS
<1> QED
  BY <1>1, <1>2, <1>3, <1>4

LEMMA InitState == Init => StateInv
<1> SUFFICES ASSUME Init PROVE StateInv
  OBVIOUS
<1>1. BufSizes \subseteq Nat /\ MaxFaults \in Nat /\ Max16 \in Nat
  BY Max16Type, UsbAssumption
<1>2. TypeInv
  <2>1. NoAsm \in [next : Nat, left : Nat, bytes : Seq(MessageByte)] /\ NoAsm.bytes = <<>>
    BY DEF NoAsm
  <2>2. size \in Nat /\ 0 \in 0..Max16 /\ 0 \in 0..size /\ 0 \in 0..MaxFaults
    BY <1>1 DEF Init
  <2>3. \A S : <<>> \in Seq(S) /\ DOMAIN <<>> = {}
    OBVIOUS
  <2>4. queue = <<>> /\ replying = <<>> /\ taken = <<>> /\ out = <<>> /\ asm.bytes = <<>>
    BY <2>1 DEF Init
  <2> QED
    BY <2>1, <2>2, <2>3, <2>4 DEF Init, TypeInv, Results
<1>3. ProgressInv
  BY <1>1 DEF Init, ProgressInv
<1>4. AsmInv
  BY DEF Init, AsmInv
<1> QED
  BY <1>2, <1>3, <1>4 DEF StateInv

LEMMA ConnectState == StateInv /\ connect => StateInv'
<1> SUFFICES ASSUME StateInv, connect PROVE StateInv'
  OBVIOUS
<1>1. size \in Nat /\ MaxFaults \in Nat
  BY Sizes, UsbAssumption
<1>2. TypeInv'
  BY <1>1 DEF StateInv, TypeInv, connect, NewHandle, Results, device
<1>3. ProgressInv'
  BY <1>1 DEF StateInv, TypeInv, ProgressInv, connect, device
<1>4. AsmInv'
  BY DEF StateInv, AsmInv, connect, device
<1> QED
  BY <1>2, <1>3, <1>4 DEF StateInv

LEMMA ExchangeState ==
  ASSUME StateInv, NEW c \in Commands, NEW n \in BufSizes, NEW t \in BOOLEAN, exchange(c, n, t)
  PROVE  StateInv'
<1>1. n \in Nat /\ Max16 \in Nat /\ CommandLen[c] \in Nat /\ CommandLen[c] > 0
  BY Sizes, UsbAssumption
<1>2. phase = "idle" /\ pos = 0 /\ seqNum = 0 /\ inLen = 0 /\ failed \in BOOLEAN
  BY DEF exchange, StateInv, TypeInv, ProgressInv
<1>3. /\ command' = c /\ size' = n /\ out' = <<>> /\ pos' = 0 /\ seqNum' = 0 /\ inLen' = 0
      /\ timed' \in BOOLEAN /\ failed' \in BOOLEAN /\ res' \in Results /\ res' # "SUCCESS"
      /\ \/ phase' = "idle"
         \/ phase' = "send" /\ res' = "none" /\ handle # "null" /\ CommandLen[c] <= Max16
  <2>1. "TRANSPORT_GENERIC_ERROR" \in Results /\ "LIB_BAD_LENGTH" \in Results /\ "none" \in Results
    BY DEF Results
  <2> QED
    BY <1>2, <2>1, Returning DEF exchange
<1>4. UNCHANGED <<handle, asm, taken, replying, queue, faults>>
  BY DEF exchange, device
<1>5. TypeInv'
  BY <1>1, <1>3, <1>4 DEF StateInv, TypeInv
<1>6. ProgressInv'
  BY <1>1, <1>3, <1>4 DEF StateInv, ProgressInv
<1>7. AsmInv'
  BY <1>4 DEF StateInv, AsmInv
<1> QED
  BY <1>5, <1>6, <1>7 DEF StateInv

\* After a packet that counts as written, exchange is where it should be.
LEMMA AdvanceShape ==
  ASSUME StateInv, phase = "send", Advance
  PROVE  /\ UNCHANGED <<timed, inLen, res, failed>>
         /\ \/ /\ phase' = "send" /\ pos' = pos + Len(Chunk) /\ pos' < CommandLen[command]
               /\ seqNum' = seqNum + 1 /\ seqNum' > 0 /\ pos' = FirstRoom + (seqNum' - 1) * NextRoom
               /\ seqNum' \in 0..Max16 /\ pos' \in Nat
            \/ phase' = "first" /\ pos' = 0 /\ seqNum' = 0 /\ pos + Len(Chunk) = CommandLen[command]
<1>1. /\ LenOf(command) = CommandLen[command] /\ CommandLen[command] \in Nat
      /\ CommandLen[command] <= Max16 /\ Max16 \in Nat /\ pos \in Nat /\ seqNum \in 0..Max16
  BY CommandBytes, Max16Type DEF StateInv, TypeInv, ProgressInv
<1>2. /\ Len(Chunk) \in Nat /\ Len(Chunk) > 0 /\ NextNumber = seqNum + 1
      /\ pos + Len(Chunk) < CommandLen[command] => pos + Len(Chunk) = FirstRoom + seqNum * NextRoom
  BY ChunkShape DEF StateInv
<1>3. UNCHANGED <<timed, inLen, res, failed>>
  BY DEF Advance
<1>4. CASE pos' = pos + Len(Chunk) /\ seqNum' = NextNumber /\ phase' = phase /\ pos + Len(Chunk) < LenOf(command)
  <2>1. seqNum' = seqNum + 1 /\ seqNum' - 1 = seqNum
    BY <1>1, <1>2, <1>4
  <2>2. seqNum' \in 0..Max16
    <3>1. (seqNum + 1) % (Max16 + 1) \in 0..Max16
      BY <1>1
    <3> QED
      BY <1>4, <3>1 DEF NextNumber
  <2> QED
    BY <1>1, <1>2, <1>3, <1>4, <2>1, <2>2
<1>5. CASE pos + Len(Chunk) = LenOf(command) /\ phase' = "first" /\ pos' = 0 /\ seqNum' = 0
  BY <1>1, <1>3, <1>5
<1> QED
  BY <1>4, <1>5 DEF Advance

\* What is left after it of the invariants, whatever becomes of the packet.
LEMMA AdvanceState ==
  ASSUME StateInv, phase = "send", Advance, UNCHANGED <<handle, command, size, out, queue, replying>>,
         faults' \in 0..MaxFaults, handle' = "dead" => asm' = NoAsm,
         taken' \in Seq(MessageByte), \A i \in DOMAIN taken' : taken'[i].of \in Commands,
         asm' \in [next : Nat, left : Nat, bytes : Seq(MessageByte)],
         \A i \in DOMAIN asm'.bytes : asm'.bytes[i].of \in Commands,
         AsmInv'
  PROVE  StateInv'
<1>1. size \in Nat /\ Max16 \in Nat /\ out = <<>> /\ inLen = 0 /\ res = "none" /\ handle # "null"
  BY Sizes DEF StateInv, ProgressInv
<1>2. /\ UNCHANGED <<timed, inLen, res, failed>>
      /\ pos' \in Nat /\ seqNum' \in 0..Max16
      /\ \/ /\ phase' = "send" /\ pos' < CommandLen[command]
            /\ seqNum' > 0 /\ pos' = FirstRoom + (seqNum' - 1) * NextRoom
         \/ phase' = "first" /\ pos' = 0 /\ seqNum' = 0
  BY <1>1, AdvanceShape
<1>3. CommandLen[command] <= Max16
  BY DEF StateInv, ProgressInv
<1>4. TypeInv'
  BY <1>1, <1>2 DEF StateInv, TypeInv
<1>5. ProgressInv'
  BY <1>1, <1>2, <1>3 DEF ProgressInv
<1> QED
  BY <1>4, <1>5 DEF StateInv

LEMMA SendState == StateInv /\ sendPacket => StateInv'
<1> SUFFICES ASSUME StateInv, sendPacket PROVE StateInv'
  OBVIOUS
<1>1. /\ phase = "send" /\ handle = "open" /\ Assemble(PacketToSend) /\ Advance
      /\ UNCHANGED <<handle, command, size, out, queue, replying, faults>>
  BY DEF sendPacket
<1>2. /\ Chunk \in Seq(MessageByte) /\ Len(Chunk) \in Nat /\ Len(Chunk) > 0 /\ seqNum \in Nat
      /\ \A i \in DOMAIN Chunk : Chunk[i].of = command
      /\ command \in Commands /\ CommandLen[command] <= Max16
  BY <1>1, ChunkShape DEF StateInv, TypeInv, ProgressInv
<1>3. /\ taken \in Seq(MessageByte) /\ \A i \in DOMAIN taken : taken[i].of \in Commands
      /\ asm \in [next : Nat, left : Nat, bytes : Seq(MessageByte)]
      /\ \A i \in DOMAIN asm.bytes : asm.bytes[i].of \in Commands
      /\ faults \in 0..MaxFaults
  BY DEF StateInv, TypeInv
<1>4. /\ Max16 \in Nat /\ CommandLen[command] \in Nat /\ CommandLen[command] > 0
      /\ asm.next > 0 => asm.left > 0 /\ asm.next + asm.left <= Max16
  <2>1. asm.next > 0 => asm # NoAsm
    BY DEF NoAsm
  <2> QED
    BY <2>1, Sizes DEF StateInv, AsmInv
\* Bytes of a command, followed by bytes of the packet, are bytes of commands.
<1>5. ASSUME NEW k \in Nat, k <= Len(Chunk)
      PROVE  LET b == asm.bytes \o SubSeq(Chunk, 1, k)
             IN b \in Seq(MessageByte) /\ \A i \in DOMAIN b : b[i].of \in Commands
  <2> DEFINE a == asm.bytes
             d == SubSeq(Chunk, 1, k)
             b == a \o d
  <2>1. a \in Seq(MessageByte) /\ \A i \in 1..Len(a) : a[i].of \in Commands
    BY <1>3
  <2>2. d \in Seq(MessageByte) /\ Len(d) = k /\ \A i \in 1..k : d[i] = Chunk[i] /\ i \in DOMAIN Chunk
    BY <1>2, <1>5
  <2> HIDE DEF a, d
  <2>3. b \in Seq(MessageByte) /\ Len(b) = Len(a) + k /\ DOMAIN b = 1..Len(b)
    BY <1>5, <2>1, <2>2
  <2>4. ASSUME NEW i \in 1..Len(b) PROVE b[i].of \in Commands
    <3>1. CASE i <= Len(a)
      BY <2>1, <2>2, <2>3, <3>1
    <3>2. CASE i > Len(a)
      <4>1. i - Len(a) \in 1..k /\ b[i] = d[i - Len(a)]
        BY <1>5, <2>1, <2>2, <2>3, <3>2
      <4> QED
        BY <1>2, <2>2, <4>1
    <3> QED
      BY <2>1, <3>1, <3>2
  <2> QED
    BY <2>3, <2>4 DEF a, d
<1>6. seqNum = asm.next => Wanted > 0 /\ Wanted + seqNum <= Max16
  BY <1>2, <1>3, <1>4 DEF Wanted
<1>7. Wanted \in Nat
  BY <1>3, <1>4 DEF Wanted
<1>8. /\ taken' \in Seq(MessageByte) /\ \A i \in DOMAIN taken' : taken'[i].of \in Commands
      /\ asm' \in [next : Nat, left : Nat, bytes : Seq(MessageByte)]
      /\ \A i \in DOMAIN asm'.bytes : asm'.bytes[i].of \in Commands
      /\ AsmInv'
  <2>1. CASE (taken # <<>> \/ replying # <<>>) /\ UNCHANGED <<asm, taken>>
    BY <1>1, <1>3, <2>1 DEF StateInv, AsmInv
  <2>2. NoAsm \in [next : Nat, left : Nat, bytes : Seq(MessageByte)] /\ NoAsm.bytes = <<>> /\ DOMAIN NoAsm.bytes = {}
    BY DEF NoAsm
  <2>3. CASE taken = <<>> /\ asm' = NoAsm /\ taken' = <<>>
    BY <1>3, <2>2, <2>3 DEF AsmInv
  <2>4. CASE Wanted <= Len(Chunk) /\ asm' = NoAsm /\ taken' = asm.bytes \o SubSeq(Chunk, 1, Wanted)
    BY <1>5, <1>7, <2>2, <2>4 DEF AsmInv
  <2>5. CASE /\ taken = <<>> /\ replying = <<>> /\ seqNum = asm.next /\ Wanted > Len(Chunk) /\ taken' = <<>>
             /\ asm' = [next |-> seqNum + 1, left |-> Wanted - Len(Chunk), bytes |-> asm.bytes \o Chunk]
    <3>1. SubSeq(Chunk, 1, Len(Chunk)) = Chunk
      BY <1>2
    <3>2. asm.bytes \o Chunk \in Seq(MessageByte) /\ \A i \in DOMAIN (asm.bytes \o Chunk) : (asm.bytes \o Chunk)[i].of \in Commands
      <4>1. LET b == asm.bytes \o SubSeq(Chunk, 1, Len(Chunk))
            IN b \in Seq(MessageByte) /\ \A i \in DOMAIN b : b[i].of \in Commands
        <5>1. Len(Chunk) \in Nat /\ Len(Chunk) <= Len(Chunk)
          BY <1>2
        <5> QED
          BY <1>5, <5>1
      <4> QED
        BY <3>1, <4>1
    <3>3. /\ asm'.next = seqNum + 1 /\ asm'.left = Wanted - Len(Chunk) /\ asm'.bytes = asm.bytes \o Chunk
          /\ asm'.next \in Nat /\ asm'.left \in Nat
          /\ asm'.next > 0 /\ asm'.left > 0 /\ asm'.next + asm'.left <= Max16
      <4>1. asm'.next = seqNum + 1 /\ asm'.left = Wanted - Len(Chunk) /\ asm'.bytes = asm.bytes \o Chunk
        BY <2>5
      <4> DEFINE k == Len(Chunk)
      <4>2. k \in Nat /\ k > 0 /\ seqNum \in Nat /\ Wanted \in Nat /\ Wanted > k /\ Wanted + seqNum <= Max16 /\ Max16 \in Nat
        BY <1>2, <1>4, <1>6, <1>7, <2>5
      <4> HIDE DEF k
      <4>3. asm'.next = seqNum + 1 /\ asm'.left = Wanted - k
        BY <4>1 DEF k
      <4> QED
        BY <4>1, <4>2, <4>3
    <3>4. asm' \in [next : Nat, left : Nat, bytes : Seq(MessageByte)]
      <4> DEFINE n == seqNum + 1
                 l == Wanted - Len(Chunk)
                 b == asm.bytes \o Chunk
      <4>1. n \in Nat /\ l \in Nat /\ b \in Seq(MessageByte) /\ asm' = [next |-> n, left |-> l, bytes |-> b]
        BY <2>5, <3>2, <3>3
      <4> HIDE DEF n, l, b
      <4> QED
        BY <4>1
    <3>5. \A i \in DOMAIN asm'.bytes : asm'.bytes[i].of \in Commands
      BY <3>2, <3>3
    <3>6. AsmInv'
      BY <1>1, <2>5, <3>3 DEF AsmInv
    <3>7. taken' \in Seq(MessageByte) /\ \A i \in DOMAIN taken' : taken'[i].of \in Commands
      BY <1>3, <2>5
    <3> QED
      BY <3>4, <3>5, <3>6, <3>7
  <2> QED
    BY <1>1, <2>1, <2>3, <2>4, <2>5, AssembleShape
<1>9. faults' \in 0..MaxFaults /\ (handle' = "dead" => asm' = NoAsm)
  BY <1>1, <1>3
<1> QED
  BY <1>1, <1>8, <1>9, AdvanceState

LEMMA FaultState == StateInv /\ Fault => faults' \in 0..MaxFaults /\ faults' >= faults
BY UsbAssumption DEF Fault, StateInv, TypeInv

LEMMA WriteFailsState == StateInv /\ writeFails => StateInv'
<1> SUFFICES ASSUME StateInv, writeFails PROVE StateInv'
  OBVIOUS
<1>1. /\ phase = "send" /\ Fault /\ Advance
      /\ UNCHANGED <<handle, command, size, out, queue, replying, asm, taken>>
  BY DEF writeFails, device
<1>2. faults' \in 0..MaxFaults
  BY <1>1, FaultState
<1>3. /\ taken' \in Seq(MessageByte) /\ \A i \in DOMAIN taken' : taken'[i].of \in Commands
      /\ asm' \in [next : Nat, left : Nat, bytes : Seq(MessageByte)]
      /\ \A i \in DOMAIN asm'.bytes : asm'.bytes[i].of \in Commands
      /\ handle' = "dead" => asm' = NoAsm
  BY <1>1 DEF StateInv, TypeInv, ProgressInv
<1>4. AsmInv'
  BY <1>1 DEF StateInv, AsmInv
<1> QED
  BY <1>1, <1>2, <1>3, <1>4, AdvanceState

\* What is left of the invariants after an exchange has returned.
LEMMA ReturnState ==
  ASSUME StateInv, phase # "idle", NEW r \in Results, Return(r),
         out' \in Seq(MessageByte), Len(out') <= size, r = "SUCCESS" => Len(out') >= SW,
         queue' \in Seq(AnyPackets),
         \A i \in DOMAIN queue' : queue'[i].ours \/ Number(queue'[i].seq) \in StraySeqs,
         UNCHANGED <<handle, command, size, asm, taken, replying>>, faults' \in 0..MaxFaults
  PROVE  StateInv'
<1>1. size \in Nat /\ Max16 \in Nat /\ failed \in BOOLEAN
  BY Sizes DEF StateInv, TypeInv
<1>2. phase' = "idle" /\ res' = r /\ timed' = FALSE /\ pos' = 0 /\ seqNum' = 0 /\ inLen' = 0 /\ failed' \in BOOLEAN
  BY <1>1, Returning
<1>3. TypeInv'
  <2>1. /\ handle' \in {"null", "open", "dead"} /\ command' \in Commands /\ size' \in BufSizes /\ size' = size
        /\ replying' \in Seq(AnyPackets) /\ \A i \in DOMAIN replying' : replying'[i].ours
        /\ taken' \in Seq(MessageByte) /\ \A i \in DOMAIN taken' : taken'[i].of \in Commands
        /\ asm' \in [next : Nat, left : Nat, bytes : Seq(MessageByte)]
        /\ \A i \in DOMAIN asm'.bytes : asm'.bytes[i].of \in Commands
    BY DEF StateInv, TypeInv
  <2>2. 0 \in 0..Max16 /\ 0 \in 0..size' /\ 0 \in Nat
    BY <1>1, <2>1
  <2>3. timed' \in BOOLEAN /\ res' \in Results
    BY <1>2, Zenon
  <2> QED
    BY <1>2, <2>1, <2>2, <2>3 DEF TypeInv
<1>4. ProgressInv'
  BY <1>1, <1>2 DEF StateInv, ProgressInv
<1>5. AsmInv'
  BY DEF StateInv, AsmInv
<1> QED
  BY <1>3, <1>4, <1>5 DEF StateInv

\* ... and after a packet of a reply that is not the last.
LEMMA ContinueState ==
  ASSUME StateInv, phase \in {"first", "rest"}, phase' = "rest", seqNum' = NextNumber,
         out' \in Seq(MessageByte), Len(out') \in Nat, inLen' \in Nat, Len(out') + inLen' <= size,
         queue' \in Seq(AnyPackets),
         \A i \in DOMAIN queue' : queue'[i].ours \/ Number(queue'[i].seq) \in StraySeqs,
         UNCHANGED <<pos, timed, res, failed>>,
         UNCHANGED <<handle, command, size, asm, taken, replying, faults>>
  PROVE  StateInv'
<1>1. size \in Nat /\ Max16 \in Nat /\ seqNum \in 0..Max16
  BY Sizes DEF StateInv, TypeInv
<1>2. seqNum' \in 0..Max16
  BY <1>1 DEF NextNumber
<1>3. inLen' \in 0..size /\ Len(out') <= size
  BY <1>1
<1>4. TypeInv'
  <2>1. /\ handle' \in {"null", "open", "dead"} /\ command' \in Commands /\ size' \in BufSizes /\ size' = size
        /\ replying' \in Seq(AnyPackets) /\ \A i \in DOMAIN replying' : replying'[i].ours
        /\ taken' \in Seq(MessageByte) /\ \A i \in DOMAIN taken' : taken'[i].of \in Commands
        /\ asm' \in [next : Nat, left : Nat, bytes : Seq(MessageByte)]
        /\ \A i \in DOMAIN asm'.bytes : asm'.bytes[i].of \in Commands
        /\ timed' \in BOOLEAN /\ res' \in Results /\ pos' \in Nat
        /\ faults' \in 0..MaxFaults /\ failed' \in BOOLEAN
    BY DEF StateInv, TypeInv
  <2> QED
    BY <1>2, <1>3, <2>1 DEF TypeInv
<1>5. ProgressInv'
  BY <1>3 DEF StateInv, ProgressInv
<1>6. AsmInv'
  BY DEF StateInv, AsmInv
<1> QED
  BY <1>4, <1>5, <1>6 DEF StateInv

\* The packet that is taken from the queue, and those that stay.
LEMMA TakeShape ==
  ASSUME StateInv, TakePacket
  PROVE  /\ queue # <<>> /\ Head(queue) \in AnyPackets /\ 1 \in DOMAIN queue /\ Head(queue) = queue[1]
         /\ Head(queue).ours \/ Number(Head(queue).seq) \in StraySeqs
         /\ loadu_be(Head(queue).seq) = Number(Head(queue).seq) /\ Number(Head(queue).seq) \in 0..Max16
         /\ loadu_be(Head(queue).len) = Number(Head(queue).len) /\ Number(Head(queue).len) \in 0..Max16
         /\ queue' \in Seq(AnyPackets)
         /\ \A i \in DOMAIN queue' : queue'[i].ours \/ Number(queue'[i].seq) \in StraySeqs
         /\ \A i \in DOMAIN queue' : i \in Nat /\ i + 1 \in DOMAIN queue /\ queue'[i] = queue[i + 1] /\ i + 1 > 1
         /\ UNCHANGED <<handle, command, size, asm, taken, replying, faults>>
<1>1. /\ queue \in Seq(AnyPackets) /\ queue # <<>> /\ queue' = Tail(queue)
      /\ \A i \in DOMAIN queue : queue[i].ours \/ Number(queue[i].seq) \in StraySeqs
  BY DEF StateInv, TypeInv, TakePacket
<1>2. Head(queue) \in AnyPackets /\ 1 \in DOMAIN queue /\ Head(queue) = queue[1]
  BY <1>1
<1>3. Head(queue).seq \in Pair /\ Head(queue).len \in Pair
  BY <1>2 DEF AnyPackets
<1>4. queue' \in Seq(AnyPackets) /\ Len(queue') = Len(queue) - 1 /\ Len(queue) \in Nat
  BY <1>1
<1>5. \A i \in DOMAIN queue' : i \in Nat /\ i + 1 \in DOMAIN queue /\ queue'[i] = queue[i + 1] /\ i + 1 > 1
  BY <1>1, <1>4
<1>6. UNCHANGED <<handle, command, size, asm, taken, replying, faults>>
  BY DEF TakePacket, device
<1> QED
  BY <1>1, <1>2, <1>3, <1>4, <1>5, <1>6, LoadedNumber

\* A first packet is refused, or it is ours and its reply fits the buffer.
LEMMA FirstShape ==
  ASSUME StateInv, readFirst
  PROVE  /\ phase = "first" /\ TakePacket /\ seqNum = 0 /\ inLen = 0 /\ out = <<>>
         /\ \/ UNCHANGED out /\ \E r \in Results \ {"SUCCESS"} : Return(r)
            \/ /\ Head(queue).ours /\ Number(Head(queue).seq) = 0
               /\ Number(Head(queue).len) <= size
               /\ Copy(Head(queue), FirstRoom, Number(Head(queue).len))
<1>1. phase = "first" /\ TakePacket
  BY DEF readFirst
<1>2. seqNum = 0 /\ inLen = 0 /\ out = <<>>
  BY <1>1 DEF StateInv, ProgressInv
<1>3. loadu_be(Head(queue).seq) = Number(Head(queue).seq) /\ loadu_be(Head(queue).len) = Number(Head(queue).len)
      /\ Number(Head(queue).len) \in 0..Max16
  BY <1>1, TakeShape
<1>4. {"TRANSPORT_USB_BAD_PACKET", "TRANSPORT_USB_BAD_SEQ", "PROTOCOL_BAD_LENGTH"} \subseteq Results \ {"SUCCESS"}
  BY DEF Results
<1>5. size \in Nat /\ Max16 \in Nat
  BY Sizes
<1> QED
  BY <1>1, <1>2, <1>3, <1>4, <1>5 DEF readFirst, TooLong

LEMMA RestShape ==
  ASSUME StateInv, readRest
  PROVE  /\ phase = "rest" /\ TakePacket
         /\ \/ UNCHANGED out /\ \E r \in Results \ {"SUCCESS"} : Return(r)
            \/ Number(Head(queue).seq) = seqNum /\ Copy(Head(queue), NextRoom, inLen)
<1>1. phase = "rest" /\ TakePacket
  BY DEF readRest
<1>2. loadu_be(Head(queue).seq) = Number(Head(queue).seq)
  BY <1>1, TakeShape
<1>3. "TRANSPORT_USB_BAD_SEQ" \in Results \ {"SUCCESS"}
  BY DEF Results
<1> QED
  BY <1>1, <1>2, <1>3 DEF readRest, InSequence

\* A packet that is copied leaves the exchange returned or in "rest".
LEMMA CopyState ==
  ASSUME StateInv, phase \in {"first", "rest"}, TakePacket, NEW room \in Nat, NEW want \in Nat,
         Len(out) + want <= size, Copy(Head(queue), room, want)
  PROVE  StateInv'
<1>1. size \in Nat /\ Len(out) \in Nat /\ faults \in 0..MaxFaults
  BY Sizes DEF StateInv, TypeInv
<1>2. /\ Head(queue) \in AnyPackets /\ queue' \in Seq(AnyPackets)
      /\ \A i \in DOMAIN queue' : queue'[i].ours \/ Number(queue'[i].seq) \in StraySeqs
      /\ UNCHANGED <<handle, command, size, asm, taken, replying, faults>>
  BY TakeShape
<1>3. out' \in Seq(MessageByte) /\ Len(out') \in Nat /\ Len(out') <= size
  BY <1>2, CopyShape
<1>4. CASE /\ want > room /\ inLen' = want - room /\ Len(out') + inLen' <= size
           /\ seqNum' = NextNumber /\ phase' = "rest" /\ UNCHANGED <<pos, timed, res, failed>>
  <2>1. inLen' \in Nat
    BY <1>4
  <2> QED
    BY <1>2, <1>3, <1>4, <2>1, ContinueState
<1>5. CASE Return(IF Len(out') >= SW THEN "SUCCESS" ELSE "PROTOCOL_BAD_LENGTH")
  <2> DEFINE r == IF Len(out') >= SW THEN "SUCCESS" ELSE "PROTOCOL_BAD_LENGTH"
  <2>1. r \in Results /\ (r = "SUCCESS" => Len(out') >= SW)
    BY DEF Results
  <2>2. faults' \in 0..MaxFaults /\ phase # "idle"
    BY <1>1, <1>2
  <2> QED
    BY <1>2, <1>3, <1>5, <2>1, <2>2, ReturnState
<1> QED
  BY <1>2, <1>4, <1>5, CopyShape

LEMMA ReadFirstState == StateInv /\ readFirst => StateInv'
<1> SUFFICES ASSUME StateInv, readFirst PROVE StateInv'
  OBVIOUS
<1>1. phase = "first" /\ TakePacket /\ out = <<>>
  BY FirstShape
<1>2. CASE UNCHANGED out /\ \E r \in Results \ {"SUCCESS"} : Return(r)
  <2>1. PICK r \in Results \ {"SUCCESS"} : Return(r)
    BY <1>2
  <2>2. out \in Seq(MessageByte) /\ Len(out) <= size /\ faults \in 0..MaxFaults
    BY DEF StateInv, TypeInv, ProgressInv
  <2> QED
    BY <1>1, <1>2, <2>1, <2>2, TakeShape, ReturnState
<1>3. CASE /\ Number(Head(queue).len) <= size
           /\ Copy(Head(queue), FirstRoom, Number(Head(queue).len))
  <2>1. Number(Head(queue).len) \in Nat /\ Len(out) + Number(Head(queue).len) <= size /\ FirstRoom \in Nat
    BY <1>1, <1>3, TakeShape, Max16Type, UsbAssumption
  <2> QED
    BY <1>1, <1>3, <2>1, CopyState
<1> QED
  BY <1>2, <1>3, FirstShape

LEMMA ReadRestState == StateInv /\ readRest => StateInv'
<1> SUFFICES ASSUME StateInv, readRest PROVE StateInv'
  OBVIOUS
<1>1. phase = "rest" /\ TakePacket
  BY RestShape
<1>2. CASE UNCHANGED out /\ \E r \in Results \ {"SUCCESS"} : Return(r)
  <2>1. PICK r \in Results \ {"SUCCESS"} : Return(r)
    BY <1>2
  <2>2. out \in Seq(MessageByte) /\ Len(out) <= size /\ faults \in 0..MaxFaults
    BY DEF StateInv, TypeInv, ProgressInv
  <2> QED
    BY <1>1, <1>2, <2>1, <2>2, TakeShape, ReturnState
<1>3. CASE Copy(Head(queue), NextRoom, inLen)
  <2>1. inLen \in Nat /\ Len(out) + inLen <= size /\ NextRoom \in Nat
    BY <1>1, Sizes, UsbAssumption DEF StateInv, TypeInv, ProgressInv
  <2> QED
    BY <1>1, <1>3, <2>1, CopyState
<1> QED
  BY <1>2, <1>3, RestShape

LEMMA GivingUpState == StateInv /\ (writeShort \/ refuseBuffer \/ readNothing) => StateInv'
<1> SUFFICES ASSUME StateInv, writeShort \/ refuseBuffer \/ readNothing PROVE StateInv'
  OBVIOUS
<1>1. /\ phase # "idle" /\ UNCHANGED <<handle, command, size, out, queue, asm, taken, replying>>
      /\ \E r \in Results \ {"SUCCESS"} : Return(r)
      /\ Fault \/ UNCHANGED faults
  <2>1. {"TRANSPORT_GENERIC_ERROR", "LIB_BAD_LENGTH", "TRANSPORT_TIMEOUT"} \subseteq Results \ {"SUCCESS"}
    BY DEF Results
  <2> QED
    BY <2>1 DEF writeShort, refuseBuffer, readNothing, device
<1>2. PICK r \in Results \ {"SUCCESS"} : Return(r)
  BY <1>1
<1>3. /\ out' \in Seq(MessageByte) /\ Len(out') <= size /\ faults \in 0..MaxFaults
      /\ queue' \in Seq(AnyPackets)
      /\ \A i \in DOMAIN queue' : queue'[i].ours \/ Number(queue'[i].seq) \in StraySeqs
  BY <1>1 DEF StateInv, TypeInv, ProgressInv
<1>4. faults' \in 0..MaxFaults
  BY <1>1, <1>3, FaultState
<1> QED
  BY <1>1, <1>2, <1>3, <1>4, ReturnState

LEMMA AnswerState ==
  ASSUME StateInv, NEW n \in ReplySizes, Answer(n) PROVE StateInv'
<1> DEFINE reply == [to |-> taken[1].of, is |-> n]
<1>1. /\ taken # <<>> /\ replying' = Packets(reply) /\ taken' = <<>> /\ UNCHANGED <<host, asm, queue, faults, failed>>
  BY DEF Answer
<1>2. 1 \in DOMAIN taken /\ taken[1].of \in Commands
  BY <1>1 DEF StateInv, TypeInv
<1>3. reply \in ReplyMessages
  BY <1>2 DEF ReplyMessages
<1> HIDE DEF reply
<1>4. replying' \in Seq(AnyPackets) /\ \A i \in DOMAIN replying' : replying'[i].ours
  <2>1. /\ Packets(reply) \in Seq(AnyPackets) /\ Len(Packets(reply)) = Count(reply)
        /\ \A k \in 1..Count(reply) : Packets(reply)[k].ours
    BY <1>3, PacketsShape
  <2>2. DOMAIN Packets(reply) = 1..Count(reply)
    BY <2>1
  <2> QED
    BY <1>1, <2>1, <2>2
<1>5. asm = NoAsm
  BY <1>1 DEF StateInv, AsmInv
<1>6. TypeInv'
  BY <1>1, <1>4 DEF StateInv, TypeInv, host
<1>7. ProgressInv'
  BY <1>1 DEF StateInv, ProgressInv, host
<1>8. AsmInv'
  BY <1>1, <1>5 DEF AsmInv
<1> QED
  BY <1>6, <1>7, <1>8 DEF StateInv

\* A packet that joins the queue is one of those that may be there.
LEMMA AppendShape ==
  ASSUME StateInv, NEW p \in AnyPackets, p.ours \/ Number(p.seq) \in StraySeqs
  PROVE  /\ Append(queue, p) \in Seq(AnyPackets)
         /\ DOMAIN Append(queue, p) = 1..(Len(queue) + 1) /\ DOMAIN queue = 1..Len(queue) /\ Len(queue) \in Nat
         /\ \A i \in 1..Len(queue) : Append(queue, p)[i] = queue[i]
         /\ Append(queue, p)[Len(queue) + 1] = p
         /\ \A i \in DOMAIN Append(queue, p) :
              Append(queue, p)[i].ours \/ Number(Append(queue, p)[i].seq) \in StraySeqs
<1>1. queue \in Seq(AnyPackets) /\ \A i \in DOMAIN queue : queue[i].ours \/ Number(queue[i].seq) \in StraySeqs
  BY DEF StateInv, TypeInv
<1>2. /\ Append(queue, p) \in Seq(AnyPackets)
      /\ DOMAIN Append(queue, p) = 1..(Len(queue) + 1) /\ DOMAIN queue = 1..Len(queue) /\ Len(queue) \in Nat
      /\ \A i \in 1..Len(queue) : Append(queue, p)[i] = queue[i]
      /\ Append(queue, p)[Len(queue) + 1] = p
  BY <1>1
<1>3. \A i \in 1..(Len(queue) + 1) : i \in 1..Len(queue) \/ i = Len(queue) + 1
  BY <1>2
<1> QED
  BY <1>1, <1>2, <1>3

\* Those that the device has still to send move up.
LEMMA TransmitShape ==
  ASSUME StateInv, replying # <<>>, replying' = Tail(replying)
  PROVE  /\ Head(replying) \in AnyPackets /\ Head(replying).ours /\ 1 \in DOMAIN replying
         /\ Head(replying) = replying[1]
         /\ replying' \in Seq(AnyPackets) /\ \A i \in DOMAIN replying' : replying'[i].ours
         /\ \A i \in DOMAIN replying' :
              i \in Nat /\ i + 1 \in DOMAIN replying /\ replying'[i] = replying[i + 1] /\ i + 1 > 1
<1>1. replying \in Seq(AnyPackets) /\ \A i \in DOMAIN replying : replying[i].ours
  BY DEF StateInv, TypeInv
<1>2. Head(replying) \in AnyPackets /\ 1 \in DOMAIN replying /\ Head(replying) = replying[1]
  BY <1>1
<1>3. replying' \in Seq(AnyPackets) /\ Len(replying') = Len(replying) - 1 /\ Len(replying) \in Nat
  BY <1>1
<1>4. \A i \in DOMAIN replying' :
        i \in Nat /\ i + 1 \in DOMAIN replying /\ replying'[i] = replying[i + 1] /\ i + 1 > 1
  BY <1>1, <1>3
<1> QED
  BY <1>1, <1>2, <1>3, <1>4

LEMMA TransmitState == StateInv /\ Transmit => StateInv'
<1> SUFFICES ASSUME StateInv, Transmit PROVE StateInv'
  OBVIOUS
<1>1. /\ replying # <<>> /\ replying' = Tail(replying)
      /\ queue' = Append(queue, Head(replying)) \/ queue' = queue
      /\ UNCHANGED <<host, asm, taken, faults, failed>>
  BY DEF Transmit
<1>2. replying' \in Seq(AnyPackets) /\ \A i \in DOMAIN replying' : replying'[i].ours
  BY <1>1, TransmitShape
<1>3. queue' \in Seq(AnyPackets) /\ \A i \in DOMAIN queue' : queue'[i].ours \/ Number(queue'[i].seq) \in StraySeqs
  <2>1. CASE queue' = queue
    BY <2>1 DEF StateInv, TypeInv
  <2>2. CASE queue' = Append(queue, Head(replying))
    BY <1>1, <2>2, TransmitShape, AppendShape
  <2> QED
    BY <1>1, <2>1, <2>2
<1>4. asm = NoAsm
  BY <1>1 DEF StateInv, AsmInv
<1>5. TypeInv'
  BY <1>1, <1>2, <1>3 DEF StateInv, TypeInv, host
<1>6. ProgressInv'
  BY <1>1 DEF StateInv, ProgressInv, host
<1>7. AsmInv'
  BY <1>1, <1>4 DEF AsmInv
<1> QED
  BY <1>5, <1>6, <1>7 DEF StateInv

LEMMA StrayType ==
  ASSUME NEW n \in StraySeqs
  PROVE  LET p == [ours |-> FALSE, seq |-> BigEndian(n), len |-> NoLen, data |-> <<>>]
         IN p \in AnyPackets /\ ~p.ours /\ Number(p.seq) = n
<1>1. BigEndian(n) \in Pair /\ Number(BigEndian(n)) = n
  BY WireNumber, Max16Type, UsbAssumption
<1>2. <<>> \in Seq(MessageByte) /\ NoLen \in Pair
  BY NoLenType
<1> QED
  BY <1>1, <1>2 DEF AnyPackets

LEMMA StrayState == StateInv /\ Stray => StateInv'
<1> SUFFICES ASSUME StateInv, Stray PROVE StateInv'
  OBVIOUS
<1>1. PICK n \in StraySeqs :
        queue' = Append(queue, [ours |-> FALSE, seq |-> BigEndian(n), len |-> NoLen, data |-> <<>>])
  BY DEF Stray
<1>2. UNCHANGED <<host, asm, taken, replying, faults, failed>>
  BY DEF Stray, device
<1> DEFINE p == [ours |-> FALSE, seq |-> BigEndian(n), len |-> NoLen, data |-> <<>>]
<1>3. p \in AnyPackets /\ Number(p.seq) = n /\ queue' = Append(queue, p)
  BY <1>1, StrayType
<1> HIDE DEF p
<1>4. queue' \in Seq(AnyPackets) /\ \A i \in DOMAIN queue' : queue'[i].ours \/ Number(queue'[i].seq) \in StraySeqs
  BY <1>3, AppendShape
<1>5. TypeInv'
  BY <1>2, <1>4 DEF StateInv, TypeInv, host
<1>6. ProgressInv'
  BY <1>2 DEF StateInv, ProgressInv, host
<1>7. AsmInv'
  BY <1>2 DEF StateInv, AsmInv
<1> QED
  BY <1>5, <1>6, <1>7 DEF StateInv

LEMMA GoneState == StateInv /\ DeviceGone => StateInv'
<1> SUFFICES ASSUME StateInv, DeviceGone PROVE StateInv'
  OBVIOUS
<1>1. /\ handle' \in {"null", "open", "dead"} /\ (handle # "null" => handle' # "null")
      /\ asm' = NoAsm /\ taken' = <<>> /\ replying' = <<>>
      /\ queue' \in {queue, <<>>}
      /\ UNCHANGED <<phase, command, size, timed, pos, seqNum, inLen, out, res, faults, failed>>
  BY DEF DeviceGone, StateInv, TypeInv
<1>2. NoAsm \in [next : Nat, left : Nat, bytes : Seq(MessageByte)] /\ NoAsm.bytes = <<>>
  BY DEF NoAsm
<1>3. queue' \in Seq(AnyPackets) /\ \A i \in DOMAIN queue' : queue'[i].ours \/ Number(queue'[i].seq) \in StraySeqs
  <2>1. CASE queue' = queue
    BY <2>1 DEF StateInv, TypeInv
  <2>2. CASE queue' = <<>>
    BY <2>2
  <2> QED
    BY <1>1, <2>1, <2>2
<1>4. TypeInv'
  BY <1>1, <1>2, <1>3 DEF StateInv, TypeInv
<1>5. ProgressInv'
  BY <1>1 DEF StateInv, ProgressInv
<1>6. AsmInv'
  BY <1>1 DEF AsmInv
<1> QED
  BY <1>4, <1>5, <1>6 DEF StateInv

LEMMA StateStep == StateInv /\ [Next]_vars => StateInv'
<1>1. StateInv /\ UNCHANGED vars => StateInv'
  BY DEF StateInv, TypeInv, ProgressInv, AsmInv, vars, host, device
<1> QED
  BY <1>1, ConnectState, ExchangeState, SendState, WriteFailsState, ReadFirstState, ReadRestState,
     GivingUpState, AnswerState, TransmitState, StrayState, GoneState
  DEF Next, Send, Read

\* Where exchange is, the packets under way and the command that the device puts
\* together fit each other at every step.
THEOREM StateInductive == Spec => []StateInv
<1>1. Init => StateInv
  BY InitState
<1>2. StateInv /\ [Next]_vars => StateInv'
  BY StateStep
<1> QED
  BY <1>1, <1>2, PTL DEF Spec

\* A command is never sent past its end, a reply never read past its buffer, and
\* the numbers of a packet fit their 16 bits.
THEOREM TypeCorrect == Spec => []TypeOK
<1>1. StateInv => TypeOK
  <2> SUFFICES ASSUME StateInv PROVE TypeOK
    OBVIOUS
  <2>1. pos \in 0..LenOf(command)
    <3>1. command \in Commands /\ pos \in Nat /\ (phase = "send" => pos < CommandLen[command]) /\ (phase # "send" => pos = 0)
      BY DEF StateInv, TypeInv, ProgressInv
    <3> QED
      BY <3>1, CommandBytes
  <2>2. \A p \in Range(queue \o replying) : Number(p.seq) \in 0..Max16 /\ Number(p.len) \in 0..Max16
    <3>1. queue \o replying \in Seq(AnyPackets)
      BY DEF StateInv, TypeInv
    <3>2. \A p \in AnyPackets : p.seq \in Pair /\ p.len \in Pair
      BY DEF AnyPackets
    <3> QED
      BY <3>1, <3>2, RangeType, LoadedNumber
  <2>3. asm.next \in 0..Max16 /\ asm.left \in 0..Max16
    <3>1. asm = NoAsm => asm.next = 0 /\ asm.left = 0
      BY DEF NoAsm
    <3>2. asm.next \in Nat /\ asm.left \in Nat /\ (asm # NoAsm => asm.next + asm.left <= Max16)
      BY DEF StateInv, TypeInv, AsmInv
    <3> QED
      BY <3>1, <3>2, Sizes
  <2>4. Len(out) <= size
    BY DEF StateInv, ProgressInv
  <2> QED
    BY <2>1, <2>2, <2>3, <2>4 DEF StateInv, TypeInv, TypeOK
<1> QED
  BY <1>1, StateInductive, PTL
-----------------------------------------------------------------------------
(* Commands arrive whole *)

LEMMA BeginningWhole ==
  ASSUME NEW c \in Commands
  PROVE  /\ Beginning(c, CommandLen[c]) = Bytes(c) /\ Beginning(c, 0) = <<>>
         /\ \A n \in 1..CommandLen[c] : Beginning(c, n) # <<>> /\ Beginning(c, n)[1].of = c
<1> DEFINE b == Bytes(c)
           m == CommandLen[c]
<1>1. b \in Seq(MessageByte) /\ Len(b) = m /\ m \in Nat /\ m > 0 /\ b[1].of = c
  BY CommandBytes
<1>2. \A n : Beginning(c, n) = SubSeq(b, 1, n)
  BY DEF Beginning
<1> HIDE DEF b, m
<1>3. SubSeq(b, 1, m) = b /\ SubSeq(b, 1, 0) = <<>>
  BY <1>1
<1>4. \A n \in 1..m : SubSeq(b, 1, n) # <<>> /\ SubSeq(b, 1, n)[1] = b[1]
  BY <1>1
<1> QED
  BY <1>1, <1>2, <1>3, <1>4 DEF b, m

\* The packet that send has in Buf goes where it belongs.
LEMMA InStepShape ==
  ASSUME StateInv, phase = "send", seqNum = asm.next, asm = NoAsm \/ InStep
  PROVE  /\ Wanted = CommandLen[command] - pos /\ asm.bytes = Beginning(command, pos)
         /\ Wanted >= Len(Chunk) /\ Wanted \in Nat /\ Len(Chunk) \in Nat
         /\ asm.bytes \o Chunk = Beginning(command, pos + Len(Chunk))
         /\ SubSeq(Chunk, 1, Len(Chunk)) = Chunk
<1>1. /\ CommandLen[command] \in Nat /\ pos + Len(Chunk) <= CommandLen[command] /\ pos \in Nat
      /\ Chunk \in Seq(MessageByte) /\ Len(Chunk) \in Nat /\ Len(Chunk) > 0
      /\ Beginning(command, pos) \o Chunk = Beginning(command, pos + Len(Chunk))
      /\ seqNum = 0 <=> pos = 0
  BY ChunkShape DEF StateInv, TypeInv
<1>2. Beginning(command, 0) = <<>>
  BY BeginningWhole DEF StateInv, TypeInv
<1>3. Wanted = CommandLen[command] - pos /\ asm.bytes = Beginning(command, pos)
  <2>1. CASE asm = NoAsm
    <3>1. asm.next = 0 /\ asm.bytes = <<>> /\ pos = 0
      BY <1>1, <2>1 DEF NoAsm
    <3> QED
      BY <1>1, <1>2, <3>1 DEF Wanted
  <2>2. CASE InStep
    BY <2>2 DEF InStep, Wanted
  <2> QED
    BY <2>1, <2>2
<1>4. SubSeq(Chunk, 1, Len(Chunk)) = Chunk
  BY <1>1
<1>5. Wanted >= Len(Chunk) /\ Wanted \in Nat
  BY <1>1, <1>3
<1> QED
  BY <1>1, <1>3, <1>4, <1>5

\* What a packet makes of a command that it belongs to.
LEMMA FittingStep ==
  ASSUME StateInv, sendPacket, taken = <<>>, replying = <<>>, seqNum = asm.next,
         asm = NoAsm \/ InStep
  PROVE  \/ asm' = NoAsm /\ taken' = Bytes(command) /\ phase' = "first"
         \/ /\ taken' = <<>> /\ phase' = "send" /\ InStep'
            /\ asm'.left < CommandLen[command] /\ asm'.left > 0
            /\ asm'.bytes = Beginning(command, CommandLen[command] - asm'.left)
<1>1. phase = "send" /\ Assemble(PacketToSend) /\ Advance /\ UNCHANGED command
  BY DEF sendPacket
<1>2. /\ Wanted = CommandLen[command] - pos /\ Wanted >= Len(Chunk) /\ Wanted \in Nat /\ Len(Chunk) \in Nat
      /\ asm.bytes \o Chunk = Beginning(command, pos + Len(Chunk))
      /\ SubSeq(Chunk, 1, Len(Chunk)) = Chunk
  BY <1>1, InStepShape
<1>3. CommandLen[command] \in Nat /\ pos \in Nat /\ Len(Chunk) > 0 /\ seqNum \in Nat /\ command \in Commands
  BY <1>1, ChunkShape DEF StateInv, TypeInv
<1>4. CASE Wanted <= Len(Chunk) /\ asm' = NoAsm /\ taken' = asm.bytes \o SubSeq(Chunk, 1, Wanted)
  <2>1. Wanted = Len(Chunk) /\ pos + Len(Chunk) = CommandLen[command]
    <3> DEFINE k == Len(Chunk)
               n == CommandLen[command]
    <3>1. Wanted <= k /\ Wanted >= k /\ Wanted = n - pos /\ Wanted \in Nat /\ k \in Nat /\ n \in Nat /\ pos \in Nat
      BY <1>2, <1>3, <1>4
    <3> HIDE DEF k, n
    <3>2. Wanted = k /\ pos + k = n
      BY <3>1
    <3> QED
      BY <3>2 DEF k, n
  <2>2. taken' = Bytes(command)
    BY <1>2, <1>3, <1>4, <2>1, BeginningWhole
  <2>3. phase' = "first"
    <3>1. ~(pos + Len(Chunk) < CommandLen[command])
      BY <1>3, <2>1
    <3> QED
      BY <1>1, <3>1, AdvanceShape
  <2> QED
    BY <1>4, <2>2, <2>3
<1>5. CASE /\ Wanted > Len(Chunk) /\ taken' = <<>>
           /\ asm' = [next |-> seqNum + 1, left |-> Wanted - Len(Chunk), bytes |-> asm.bytes \o Chunk]
  <2>1. pos + Len(Chunk) # CommandLen[command]
    BY <1>2, <1>3, <1>5
  <2>2. phase' = "send" /\ pos' = pos + Len(Chunk) /\ seqNum' = seqNum + 1 /\ seqNum' > 0
    BY <1>1, <2>1, AdvanceShape
  <2>3. asm'.next = seqNum + 1 /\ asm'.left = Wanted - Len(Chunk) /\ asm'.bytes = asm.bytes \o Chunk
    BY <1>5
  <2>4. asm'.left = CommandLen[command] - pos' /\ asm'.bytes = Beginning(command, pos') /\ asm'.left > 0
    BY <1>2, <1>3, <1>5, <2>2, <2>3
  <2>5. InStep'
    BY <1>1, <2>2, <2>3, <2>4 DEF InStep, Beginning
  <2>6. asm'.left < CommandLen[command] /\ CommandLen[command] - asm'.left = pos'
    BY <1>2, <1>3, <2>2, <2>4
  <2> QED
    BY <1>5, <2>2, <2>4, <2>5, <2>6
<1> QED
  BY <1>1, <1>4, <1>5, AssembleShape

\* A packet of the exchange, whatever the device has put together.
LEMMA WholeSend == StateInv /\ WholeInv /\ sendPacket => WholeInv'
<1> SUFFICES ASSUME StateInv, WholeInv, sendPacket PROVE WholeInv'
  OBVIOUS
<1>1. /\ phase = "send" /\ Assemble(PacketToSend) /\ Advance
      /\ UNCHANGED <<command, replying, faults>> /\ command \in Commands
  BY DEF sendPacket, StateInv, TypeInv
<1>2. CASE (taken # <<>> \/ replying # <<>>) /\ UNCHANGED <<asm, taken>>
  <2>1. asm = NoAsm
    BY <1>2 DEF StateInv, AsmInv
  <2> QED
    BY <1>2, <2>1 DEF WholeInv, CommandWhole, Bytes, LenOf
<1>3. CASE asm' = NoAsm /\ taken' = <<>>
  BY <1>3 DEF WholeInv, CommandWhole
<1>4. CASE taken = <<>> /\ replying = <<>> /\ seqNum = asm.next
  <2>1. asm = NoAsm \/ InStep
    <3>1. asm # NoAsm => asm.next > 0
      BY DEF StateInv, AsmInv
    <3> QED
      BY <1>1, <1>4, <3>1 DEF WholeInv, OutOfStep, StateInv, TypeInv
  <2>2. CASE asm' = NoAsm /\ taken' = Bytes(command)
    <3>1. taken'[1].of = command
      <4>1. CommandLen[command] > 0 /\ Bytes(command)[1].of = command
        BY <1>1, CommandBytes
      <4> QED
        BY <2>2, <4>1
    <3>2. CommandWhole'
      BY <2>2, <3>1 DEF CommandWhole, Bytes, LenOf
    <3> QED
      BY <2>2, <3>2 DEF WholeInv
  <2>3. CASE /\ taken' = <<>> /\ phase' = "send" /\ InStep'
             /\ asm'.left < CommandLen[command]
             /\ asm'.bytes = Beginning(command, CommandLen[command] - asm'.left)
    <3>1. \E c \in Commands : /\ asm'.left < CommandLen[c]
                             /\ asm'.bytes = Beginning(c, CommandLen[c] - asm'.left)
      BY <1>1, <2>3
    <3> QED
      BY <2>3, <3>1 DEF WholeInv, CommandWhole, Beginning
  <2> QED
    BY <1>4, <2>1, <2>2, <2>3, FittingStep
<1> QED
  BY <1>1, <1>2, <1>3, <1>4, AssembleShape

\* A packet that is not sent: from then on the device waits for a number that
\* the exchange has passed.
LEMMA WholeWriteFails ==
  ASSUME MaxFaults <= 1, StateInv, WholeInv, writeFails PROVE WholeInv'
<1>1. /\ phase = "send" /\ Fault /\ Advance /\ UNCHANGED <<command, asm, taken>>
      /\ handle = "dead" \/ handle = "open"
  BY DEF writeFails, device, StateInv, TypeInv, ProgressInv
<1>2. CommandWhole'
  BY <1>1 DEF WholeInv, CommandWhole, Bytes, LenOf
<1>3. CASE asm = NoAsm
  BY <1>1, <1>2, <1>3 DEF WholeInv
<1>4. CASE asm # NoAsm
  <2>1. handle = "open" /\ faults < MaxFaults /\ faults' = faults + 1 /\ faults \in Nat /\ MaxFaults \in Nat
    BY <1>1, <1>4, UsbAssumption DEF Fault, StateInv, TypeInv, ProgressInv
  <2>2. InStep /\ faults' > 0
    <3>1. ~(faults > 0) /\ faults' > 0
      BY <2>1
    <3> QED
      BY <1>4, <3>1 DEF WholeInv
  <2>3. phase' = "send" => OutOfStep'
    <3>1. asm'.next = seqNum /\ seqNum \in Nat
      BY <1>1, <2>2 DEF InStep, StateInv, TypeInv
    <3> SUFFICES ASSUME phase' = "send" PROVE seqNum' > asm'.next
      BY DEF OutOfStep
    <3>2. seqNum' = seqNum + 1
      BY <1>1, AdvanceShape
    <3> QED
      BY <3>1, <3>2
  <2>4. \E c \in Commands : /\ asm'.left < CommandLen[c]
                           /\ asm'.bytes = Beginning(c, CommandLen[c] - asm'.left)
    BY <1>1, <1>4 DEF WholeInv
  <2> QED
    BY <1>2, <2>2, <2>3, <2>4 DEF WholeInv, Beginning
<1> QED
  BY <1>3, <1>4

\* While the host sends nothing, what the device has stays as it is or goes.
LEMMA WholeElse ==
  ASSUME StateInv, WholeInv,
         \/ UNCHANGED <<asm, taken>>
         \/ UNCHANGED asm /\ taken' = <<>>
         \/ asm' = NoAsm /\ taken' = <<>>,
         \/ phase # "send" /\ (phase' = "send" => seqNum' = 0) /\ (UNCHANGED faults \/ asm = NoAsm)
         \/ phase = "send" /\ phase' # "send" /\ faults' > 0
         \/ UNCHANGED <<phase, seqNum, pos, command, faults>>
  PROVE  WholeInv'
<1>1. CommandWhole'
  BY DEF WholeInv, CommandWhole, Bytes, LenOf
<1>2. CASE asm' = NoAsm
  BY <1>1, <1>2 DEF WholeInv
<1>3. CASE asm' # NoAsm
  <2>1. asm' = asm /\ asm # NoAsm
    BY <1>3
  <2>2. \E c \in Commands : /\ asm'.left < CommandLen[c]
                           /\ asm'.bytes = Beginning(c, CommandLen[c] - asm'.left)
    BY <2>1 DEF WholeInv
  <2>3. \/ phase' = "send" /\ InStep'
        \/ faults' > 0 /\ (phase' = "send" => OutOfStep')
    <3>1. CASE phase # "send" /\ (phase' = "send" => seqNum' = 0) /\ (UNCHANGED faults \/ asm = NoAsm)
      BY <2>1, <3>1 DEF WholeInv, OutOfStep
    <3>2. CASE phase = "send" /\ phase' # "send" /\ faults' > 0
      BY <3>2
    <3>3. CASE UNCHANGED <<phase, seqNum, pos, command, faults>>
      BY <2>1, <3>3 DEF WholeInv, OutOfStep, InStep, Beginning
    <3> QED
      BY <3>1, <3>2, <3>3
  <2> QED
    BY <1>1, <2>2, <2>3 DEF WholeInv, Beginning
<1> QED
  BY <1>2, <1>3

LEMMA WholeStep ==
  ASSUME MaxFaults <= 1, StateInv, WholeInv, [Next]_vars PROVE WholeInv'
<1>1. CASE connect
  <2>1. phase # "send" /\ phase' # "send" /\ UNCHANGED <<asm, taken>> /\ (UNCHANGED faults \/ asm = NoAsm)
    BY <1>1 DEF connect, device, AtRest
  <2> QED
    BY <2>1, WholeElse
<1>2. CASE \E c \in Commands, n \in BufSizes, t \in BOOLEAN : exchange(c, n, t)
  <2>1. phase # "send" /\ UNCHANGED <<asm, taken, faults>> /\ (phase' = "send" => seqNum' = 0)
    BY <1>2 DEF exchange, device, Return, StateInv, ProgressInv
  <2> QED
    BY <2>1, WholeElse
<1>3. CASE sendPacket
  BY <1>3, WholeSend
<1>4. CASE writeFails
  BY <1>4, WholeWriteFails
<1>5. CASE writeShort
  <2>1. phase = "send" /\ phase' # "send" /\ faults' > 0 /\ UNCHANGED <<asm, taken>>
    <3>1. handle = "open" /\ faults' = faults + 1 /\ faults \in Nat
      BY <1>5, UsbAssumption DEF writeShort, Fault, StateInv, TypeInv
    <3> QED
      BY <1>5, <3>1 DEF writeShort, device, Return
  <2> QED
    BY <2>1, WholeElse
<1>6. CASE Read
  <2>1. phase # "send" /\ phase' # "send" /\ UNCHANGED <<asm, taken, faults>>
    BY <1>6 DEF Read, refuseBuffer, readFirst, readRest, readNothing, TakePacket, Copy, Return, device
  <2> QED
    BY <2>1, WholeElse
<1>7. CASE \E n \in ReplySizes : Answer(n)
  <2>1. UNCHANGED asm /\ taken' = <<>> /\ UNCHANGED <<phase, seqNum, pos, command, faults>>
    BY <1>7 DEF Answer, host
  <2> QED
    BY <2>1, WholeElse
<1>8. CASE Transmit \/ Stray \/ UNCHANGED vars
  <2>1. UNCHANGED <<asm, taken>> /\ UNCHANGED <<phase, seqNum, pos, command, faults>>
    BY <1>8 DEF Transmit, Stray, vars, host, device
  <2> QED
    BY <2>1, WholeElse
<1>9. CASE DeviceGone
  <2>1. asm' = NoAsm /\ taken' = <<>> /\ UNCHANGED <<phase, seqNum, pos, command, faults>>
    BY <1>9 DEF DeviceGone
  <2> QED
    BY <2>1, WholeElse
<1> QED
  BY <1>1, <1>2, <1>3, <1>4, <1>5, <1>6, <1>7, <1>8, <1>9 DEF Next, Send

\* A write that fails goes unnoticed; if no other one fails before the device is
\* at rest again, the device still carries out nothing but whole commands.
THEOREM CommandsWhole ==
  ASSUME MaxFaults <= 1
  PROVE  Spec => []CommandWhole
<1>1. Init => WholeInv
  BY DEF Init, WholeInv, CommandWhole
<1>2. StateInv /\ WholeInv /\ [Next]_vars => WholeInv'
  BY WholeStep
<1>3. WholeInv => CommandWhole
  BY DEF WholeInv
<1> QED
  BY <1>1, <1>2, <1>3, StateInductive, PTL DEF Spec
-----------------------------------------------------------------------------
(* Until an exchange fails, its command or its reply is all there is *)

LEMMA CommandReply ==
  ASSUME StateInv, NEW n \in ReplySizes
  PROVE  LET reply == [to |-> command, is |-> n]
         IN reply \in ReplyMessages /\ reply.to = command /\ reply.is = n
BY DEF StateInv, TypeInv, ReplyMessages

\* A packet that is still to be read has a number from seqNum on, and that number
\* tells which packet of its reply it is.
LEMMA RestPacket ==
  ASSUME StateInv, NEW reply \in ReplyMessages, NEW p \in Rest(reply)
  PROVE  /\ p.ours /\ Number(p.seq) \in Nat /\ Number(p.seq) >= seqNum /\ Number(p.seq) < Count(reply)
         /\ p = Packets(reply)[Number(p.seq) + 1]
         /\ \A i \in DOMAIN p.data : p.data[i].of = reply
<1>1. PICK k \in (seqNum + 1)..Count(reply) : p = Packets(reply)[k]
  BY DEF Rest
<1>2. seqNum \in Nat /\ Count(reply) \in Nat
  BY CountShape, Max16Type DEF StateInv, TypeInv
<1>3. k \in 1..Count(reply) /\ k \in Nat
  BY <1>1, <1>2
<1>4. p.ours /\ Number(p.seq) = k - 1 /\ \A i \in DOMAIN p.data : p.data[i].of = reply
  BY <1>1, <1>3, PacketsShape
<1>5. k - 1 \in Nat /\ k - 1 >= seqNum /\ k - 1 < Count(reply) /\ k - 1 + 1 = k
  BY <1>1, <1>2, <1>3
<1> QED
  BY <1>1, <1>4, <1>5

\* When the next packet of a reply is taken, those after it are what is left.
LEMMA TakeReply ==
  ASSUME StateInv, TakePacket, NEW reply \in ReplyMessages, ReplyUnderWay(reply),
         Head(queue).ours, Number(Head(queue).seq) = seqNum
  PROVE  /\ Head(queue) = Packets(reply)[seqNum + 1] /\ seqNum \in Nat /\ seqNum < Count(reply)
         /\ \A i \in DOMAIN Head(queue).data : Head(queue).data[i].of = reply
         /\ \A i \in Ours(queue') : queue'[i] \in {Packets(reply)[k] : k \in (seqNum + 2)..Count(reply)}
         /\ \A i \in DOMAIN replying : replying[i] \in {Packets(reply)[k] : k \in (seqNum + 2)..Count(reply)}
         /\ InOrder(queue')
         /\ \A i \in Ours(queue'), j \in DOMAIN replying : Number(queue'[i].seq) < Number(replying[j].seq)
<1>1. /\ 1 \in DOMAIN queue /\ Head(queue) = queue[1]
      /\ \A i \in DOMAIN queue' : i \in Nat /\ i + 1 \in DOMAIN queue /\ queue'[i] = queue[i + 1] /\ i + 1 > 1
  BY TakeShape
<1>2. /\ \A i \in Ours(queue) : queue[i] \in Rest(reply)
      /\ \A i \in DOMAIN replying : replying[i] \in Rest(reply)
      /\ \A i, j \in Ours(queue) : i < j => Number(queue[i].seq) < Number(queue[j].seq)
      /\ \A i \in Ours(queue), j \in DOMAIN replying : Number(queue[i].seq) < Number(replying[j].seq)
  BY DEF ReplyUnderWay, InOrder
<1>3. 1 \in Ours(queue)
  BY <1>1 DEF Ours
<1>4. \A i \in Ours(queue') : i \in Nat /\ i + 1 \in Ours(queue) /\ queue'[i] = queue[i + 1] /\ 1 < i + 1
  BY <1>1 DEF Ours
<1>5. /\ Head(queue) = Packets(reply)[seqNum + 1] /\ seqNum < Count(reply)
      /\ \A i \in DOMAIN Head(queue).data : Head(queue).data[i].of = reply
  BY <1>1, <1>2, <1>3, RestPacket
<1>6. seqNum \in Nat /\ Count(reply) \in Nat
  BY CountShape, Max16Type DEF StateInv, TypeInv
\* A packet with a greater number is one of those after it.
<1>7. ASSUME NEW p \in Rest(reply), seqNum < Number(p.seq)
      PROVE  p \in {Packets(reply)[k] : k \in (seqNum + 2)..Count(reply)}
  <2> DEFINE k == Number(p.seq) + 1
  <2>1. Number(p.seq) \in Nat /\ Number(p.seq) < Count(reply) /\ p = Packets(reply)[k]
    BY <1>7, RestPacket
  <2>2. k \in (seqNum + 2)..Count(reply)
    BY <1>6, <1>7, <2>1
  <2> HIDE DEF k
  <2> QED
    BY <2>1, <2>2
<1>8. \A i \in Ours(queue') : queue'[i] \in {Packets(reply)[k] : k \in (seqNum + 2)..Count(reply)}
  BY <1>1, <1>2, <1>3, <1>4, <1>7
<1>9. \A i \in DOMAIN replying : replying[i] \in {Packets(reply)[k] : k \in (seqNum + 2)..Count(reply)}
  BY <1>1, <1>2, <1>3, <1>7
<1>10. InOrder(queue')
  BY <1>2, <1>4 DEF InOrder
<1>11. \A i \in Ours(queue'), j \in DOMAIN replying : Number(queue'[i].seq) < Number(replying[j].seq)
  BY <1>2, <1>4
<1> QED
  BY <1>5, <1>6, <1>8, <1>9, <1>10, <1>11

\* The exchange goes on with the reply, or has all of it.
LEMMA AloneCopy ==
  ASSUME StateInv, AloneInv, ~failed', phase \in {"first", "rest"}, TakePacket,
         NEW n \in ReplySizes, NEW reply \in ReplyMessages, reply = [to |-> command, is |-> n],
         ReplyUnderWay(reply),
         Head(queue).ours, Number(Head(queue).seq) = seqNum,
         NEW room \in Nat, NEW want \in Nat, Len(out) + want <= size,
         Copy(Head(queue), room, want),
         want <= room => Count(reply) = seqNum + 1,
         want > room => want - room = n - FirstRoom - seqNum * NextRoom
  PROVE  AloneInv'
<1> DEFINE later == {Packets(reply)[k] : k \in (seqNum + 2)..Count(reply)}
<1>1. reply \in ReplyMessages /\ reply.to = command /\ reply.is = n
  OBVIOUS
<1>2. ReplyUnderWay(reply) /\ (want <= room => Count(reply) = seqNum + 1)
  OBVIOUS
<1>3. /\ seqNum \in Nat /\ seqNum < Count(reply)
      /\ \A i \in DOMAIN Head(queue).data : Head(queue).data[i].of = reply
      /\ \A i \in Ours(queue') : queue'[i] \in later
      /\ \A i \in DOMAIN replying : replying[i] \in later
      /\ InOrder(queue')
      /\ \A i \in Ours(queue'), j \in DOMAIN replying : Number(queue'[i].seq) < Number(replying[j].seq)
  BY <1>1, <1>2, TakeReply
<1>4. /\ UNCHANGED <<handle, command, size, asm, taken, replying, faults>>
      /\ Head(queue) \in AnyPackets
  BY TakeShape
<1>5. taken = <<>> /\ asm = NoAsm /\ InOrder(replying) /\ \A i \in DOMAIN out : out[i].of = reply
  BY <1>2 DEF ReplyUnderWay
<1>6. /\ \A i \in DOMAIN out' : out'[i].of = reply
      /\ \/ /\ want > room /\ inLen' = want - room /\ seqNum' = NextNumber /\ phase' = "rest"
            /\ UNCHANGED res
         \/ want <= room /\ Return(IF Len(out') >= SW THEN "SUCCESS" ELSE "PROTOCOL_BAD_LENGTH")
  BY <1>3, <1>4, <1>5, CopyShape
<1>7. DOMAIN NoAsm.bytes = {} /\ DOMAIN <<>> = {}
  BY DEF NoAsm
<1> HIDE DEF later
<1>8. CASE /\ want > room /\ inLen' = want - room /\ seqNum' = NextNumber /\ phase' = "rest"
           /\ UNCHANGED res
  <2>1. seqNum' = seqNum + 1
    <3>1. Count(reply) <= Max16 /\ Count(reply) \in Nat /\ Max16 \in Nat
      BY <1>1, CountShape, Max16Type
    <3>2. seqNum + 1 \in 0..Max16
      BY <1>3, <3>1
    <3>3. ((Max16 + 1) * 0 + (seqNum + 1)) % (Max16 + 1) = seqNum + 1
      BY <3>1, <3>2, DivisionUnique
    <3> QED
      BY <1>3, <1>8, <3>1, <3>3 DEF NextNumber
  <2>2. Rest(reply)' = later
    <3>1. seqNum' + 1 = seqNum + 2
      BY <1>3, <2>1
    <3> QED
      BY <3>1 DEF Rest, later
  <2>3. inLen' > 0 /\ inLen' = reply.is - FirstRoom - (seqNum' - 1) * NextRoom /\ seqNum' > 0
    <3>1. inLen' = n - FirstRoom - seqNum * NextRoom /\ seqNum' - 1 = seqNum
      BY <1>3, <1>8, <2>1
    <3> QED
      BY <1>1, <1>3, <1>8, <2>1, <3>1
  <2>4. ReplyUnderWay(reply)'
    <3>1. taken' = <<>> /\ asm' = NoAsm /\ InOrder(replying) /\ replying' = replying
      BY <1>4, <1>5
    <3>2. /\ \A i \in Ours(queue') : queue'[i] \in Rest(reply)'
          /\ \A i \in DOMAIN replying' : replying'[i] \in Rest(reply)'
      BY <1>3, <2>2, <3>1
    <3>3. /\ InOrder(queue') /\ InOrder(replying')
          /\ \A i \in Ours(queue'), j \in DOMAIN replying' : Number(queue'[i].seq) < Number(replying'[j].seq)
      BY <1>3, <3>1
    <3>4. \A i \in DOMAIN out' : out'[i].of = reply
      BY <1>6
    <3> QED
      BY <2>3, <3>1, <3>2, <3>3, <3>4 DEF ReplyUnderWay, Ours, InOrder
  <2>5. phase' = "rest" /\ res' = "none" /\ command' = command
    BY <1>4, <1>8 DEF StateInv, ProgressInv
  <2>6. \E k \in ReplySizes : ReplyUnderWay([to |-> command, is |-> k])'
    <3>1. reply = [to |-> command', is |-> n]
      BY <1>4
    <3> QED
      BY <2>4, <3>1
  <2> QED
    BY <1>4, <1>5, <1>7, <2>5, <2>6 DEF AloneInv
<1>9. CASE want <= room /\ Return(IF Len(out') >= SW THEN "SUCCESS" ELSE "PROTOCOL_BAD_LENGTH")
  <2>1. phase' = "idle"
    BY <1>9 DEF Return
  <2>2. later = {}
    <3>1. (seqNum + 2)..(seqNum + 1) = {}
      BY <1>3
    <3> QED
      BY <1>2, <1>9, <3>1 DEF later
  <2>3. Ours(queue') = {} /\ DOMAIN replying = {}
    BY <1>3, <2>2
  <2>4. replying = <<>>
    BY <2>3 DEF StateInv, TypeInv
  <2>5. \A i \in DOMAIN out' : out'[i].of.to = command
    BY <1>1, <1>6
  <2> QED
    BY <1>4, <1>5, <1>7, <2>1, <2>3, <2>4, <2>5 DEF AloneInv, Ours
<1> QED
  BY <1>6, <1>8, <1>9

LEMMA AloneFirst ==
  ASSUME StateInv, AloneInv, readFirst, ~failed' PROVE AloneInv'
<1>1. /\ phase = "first" /\ TakePacket /\ seqNum = 0 /\ out = <<>> /\ failed \in BOOLEAN
      /\ \/ \E r \in Results \ {"SUCCESS"} : Return(r)
         \/ /\ Head(queue).ours /\ Number(Head(queue).seq) = 0
            /\ Number(Head(queue).len) <= size
            /\ Copy(Head(queue), FirstRoom, Number(Head(queue).len))
  BY FirstShape DEF StateInv, TypeInv
<1>2. /\ Head(queue).ours /\ Number(Head(queue).seq) = seqNum
      /\ Number(Head(queue).len) <= size
      /\ Copy(Head(queue), FirstRoom, Number(Head(queue).len))
  BY <1>1, Returning
<1>3. ~failed
  <2>1. failed' = failed \/ \E r \in Results : Return(r)
    BY <1>2 DEF Copy, Results
  <2> QED
    BY <1>1, <2>1, Returning
<1>4. 1 \in Ours(queue)
  BY <1>1, <1>2, TakeShape DEF Ours
<1>5. PICK n \in ReplySizes : ReplyUnderWay([to |-> command, is |-> n])
  BY <1>1, <1>3, <1>4 DEF AloneInv
<1>6. PICK reply \in ReplyMessages : reply = [to |-> command, is |-> n]
  BY CommandReply
<1>7. ReplyUnderWay(reply) /\ reply.is = n
  BY <1>5, <1>6
<1>8. Number(Head(queue).len) = n /\ n \in Nat
  <2>1. Head(queue) = Packets(reply)[1]
    BY <1>1, <1>2, <1>7, TakeReply
  <2> QED
    BY <1>7, <2>1, PacketsShape, ReplyBytes
<1>9. FirstRoom \in Nat /\ NextRoom \in Nat /\ Len(out) + n <= size
  BY <1>1, <1>2, <1>8, UsbAssumption
<1>10. n <= FirstRoom => Count(reply) = seqNum + 1
  BY <1>1, <1>7, CountShape
<1>11. n > FirstRoom => n - FirstRoom = n - FirstRoom - seqNum * NextRoom
  BY <1>1, <1>8, <1>9
<1> QED
  BY <1>1, <1>2, <1>6, <1>7, <1>8, <1>9, <1>10, <1>11, AloneCopy

\* Strays have a number that no later packet has.
LEMMA AloneRest ==
  ASSUME StraySeqs \subseteq {0}, StateInv, AloneInv, readRest, ~failed' PROVE AloneInv'
<1>1. /\ phase = "rest" /\ TakePacket /\ failed \in BOOLEAN
      /\ \/ \E r \in Results \ {"SUCCESS"} : Return(r)
         \/ Number(Head(queue).seq) = seqNum /\ Copy(Head(queue), NextRoom, inLen)
  BY RestShape DEF StateInv, TypeInv
<1>2. Number(Head(queue).seq) = seqNum /\ Copy(Head(queue), NextRoom, inLen)
  BY <1>1, Returning
<1>3. ~failed
  <2>1. failed' = failed \/ \E r \in Results : Return(r)
    BY <1>2 DEF Copy, Results
  <2> QED
    BY <1>1, <2>1, Returning
<1>4. PICK n \in ReplySizes : ReplyUnderWay([to |-> command, is |-> n])
  BY <1>1, <1>3 DEF AloneInv
<1>5. PICK reply \in ReplyMessages : reply = [to |-> command, is |-> n]
  BY CommandReply
<1>6. ReplyUnderWay(reply) /\ reply.is = n
  BY <1>4, <1>5
<1>7. seqNum > 0 /\ inLen > 0 /\ inLen = n - FirstRoom - (seqNum - 1) * NextRoom
  BY <1>1, <1>6 DEF ReplyUnderWay
<1>8. Head(queue).ours
  BY <1>1, <1>2, <1>7, TakeShape DEF StateInv, TypeInv
<1>9. /\ FirstRoom \in Nat /\ NextRoom \in Nat /\ n \in Nat /\ seqNum \in Nat /\ inLen \in Nat
      /\ Len(out) + inLen <= size
  <2>1. FirstRoom \in Nat /\ NextRoom \in Nat
    BY UsbAssumption
  <2>2. n \in Nat
    BY <1>6, ReplyBytes
  <2>3. size \in Nat /\ Max16 \in Nat
    BY Sizes
  <2>4. seqNum \in Nat /\ inLen \in Nat /\ Len(out) + inLen <= size
    BY <1>1, <2>3 DEF StateInv, TypeInv, ProgressInv
  <2> QED
    BY <2>1, <2>2, <2>4
<1>10. seqNum * NextRoom = (seqNum - 1) * NextRoom + NextRoom /\ (seqNum - 1) * NextRoom \in Int
  BY <1>9
<1>11. inLen <= NextRoom => Count(reply) = seqNum + 1
  <2> SUFFICES ASSUME inLen <= NextRoom PROVE Count(reply) = seqNum + 1
    OBVIOUS
  <2>1. FirstRoom + (seqNum - 1) * NextRoom < n /\ n <= FirstRoom + seqNum * NextRoom
    BY <1>7, <1>9, <1>10
  <2> QED
    BY <1>6, <1>7, <1>9, <2>1, CountShape
<1>12. inLen > NextRoom => inLen - NextRoom = n - FirstRoom - seqNum * NextRoom
  BY <1>7, <1>9, <1>10
<1> QED
  BY <1>1, <1>2, <1>5, <1>6, <1>8, <1>9, <1>11, <1>12, AloneCopy

LEMMA AloneConnect ==
  ASSUME StateInv, AloneInv, connect, ~failed' PROVE AloneInv'
<1>1. /\ phase = "idle" /\ UNCHANGED <<phase, command, asm, taken, replying>> /\ queue' = <<>> /\ out' = <<>> /\ res' = "none"
      /\ ~failed \/ AtRest
  BY DEF connect, device, NewHandle
<1>2. taken = <<>> /\ replying = <<>> /\ asm = NoAsm
  BY <1>1 DEF AloneInv, AtRest
<1>3. Ours(queue') = {} /\ DOMAIN NoAsm.bytes = {} /\ DOMAIN <<>> = {}
  BY <1>1 DEF Ours, NoAsm
<1> QED
  BY <1>1, <1>2, <1>3 DEF AloneInv, Ours

LEMMA AloneExchange ==
  ASSUME StateInv, AloneInv, NEW c \in Commands, NEW n \in BufSizes, NEW t \in BOOLEAN,
         exchange(c, n, t), ~failed'
  PROVE  AloneInv'
<1>1. phase = "idle" /\ failed \in BOOLEAN /\ UNCHANGED <<asm, taken, replying, queue>>
  BY DEF exchange, device, StateInv, TypeInv
<1>2. phase' = "send" /\ res' = "none" /\ ~failed
  <2>1. {"TRANSPORT_GENERIC_ERROR", "LIB_BAD_LENGTH"} \subseteq Results \ {"SUCCESS"}
    BY DEF Results
  <2>2. \/ phase' = "send" /\ res' = "none" /\ UNCHANGED failed
        \/ \E r \in Results \ {"SUCCESS"} : Return(r)
    BY <2>1 DEF exchange
  <2> QED
    BY <1>1, <2>2, Returning
<1>3. taken = <<>> /\ replying = <<>> /\ asm = NoAsm /\ Ours(queue) = {}
  BY <1>1, <1>2 DEF AloneInv
<1>4. DOMAIN NoAsm.bytes = {} /\ DOMAIN <<>> = {}
  BY DEF NoAsm
<1> QED
  BY <1>1, <1>2, <1>3, <1>4 DEF AloneInv, Ours

LEMMA AloneSend ==
  ASSUME StateInv, AloneInv, sendPacket, ~failed' PROVE AloneInv'
<1>1. /\ phase = "send" /\ Assemble(PacketToSend) /\ Advance /\ UNCHANGED <<command, queue, replying, out>>
      /\ res' = "none" /\ ~failed
  BY DEF sendPacket, Advance, StateInv, ProgressInv
<1>2. /\ taken = <<>> /\ replying = <<>> /\ Ours(queue) = {}
      /\ asm # NoAsm => InStep \/ seqNum > asm.next
  BY <1>1 DEF AloneInv
<1>3. command \in Commands /\ seqNum \in Nat /\ asm.next \in Nat
  BY Max16Type DEF StateInv, TypeInv
<1>4. CASE asm' = NoAsm /\ taken' = <<>>
  <2>1. DOMAIN NoAsm.bytes = {} /\ DOMAIN <<>> = {}
    BY DEF NoAsm
  <2>2. phase' \in {"send", "first"}
    BY <1>1, AdvanceShape
  <2> QED
    BY <1>1, <1>2, <1>4, <2>1, <2>2 DEF AloneInv, Ours
<1>5. CASE seqNum = asm.next
  <2>1. asm = NoAsm \/ InStep
    BY <1>2, <1>3, <1>5
  <2>2. CASE asm' = NoAsm /\ taken' = Bytes(command) /\ phase' = "first"
    <3>1. \A i \in DOMAIN Bytes(command) : Bytes(command)[i].of = command
      BY DEF Bytes
    <3>2. DOMAIN NoAsm.bytes = {}
      BY DEF NoAsm
    <3> QED
      BY <1>1, <1>2, <2>2, <3>1, <3>2 DEF AloneInv, Ours
  <2>3. CASE /\ taken' = <<>> /\ phase' = "send" /\ InStep'
             /\ asm'.bytes = Beginning(command, CommandLen[command] - asm'.left)
             /\ asm'.left < CommandLen[command] /\ asm'.left > 0
    <3>1. \A i \in DOMAIN asm'.bytes : asm'.bytes[i].of = command
      <4>1. asm'.left \in Nat /\ CommandLen[command] \in Nat
        <5>1. StateInv'
          BY SendState
        <5> QED
          BY <5>1, Sizes DEF StateInv, TypeInv
      <4> DEFINE n == CommandLen[command] - asm'.left
      <4>2. n \in Nat /\ n <= CommandLen[command]
        BY <2>3, <4>1
      <4> HIDE DEF n
      <4>3. /\ Bytes(command) \in Seq(MessageByte) /\ Len(Bytes(command)) = CommandLen[command]
            /\ \A i \in 1..CommandLen[command] : Bytes(command)[i].of = command
        BY <1>3, CommandBytes
      <4>4. \A i \in DOMAIN SubSeq(Bytes(command), 0 + 1, n) : SubSeq(Bytes(command), 0 + 1, n)[i].of = command
        BY <4>1, <4>2, <4>3, PartOfMessage
      <4>5. asm'.bytes = SubSeq(Bytes(command), 0 + 1, n)
        BY <2>3 DEF Beginning, n
      <4> QED
        BY <4>4, <4>5
    <3>2. DOMAIN <<>> = {}
      OBVIOUS
    <3> QED
      BY <1>1, <1>2, <2>3, <3>1, <3>2 DEF AloneInv, Ours, InStep, Beginning
  <2> QED
    BY <1>2, <1>5, <2>1, <2>2, <2>3, FittingStep
<1> QED
  BY <1>1, <1>2, <1>4, <1>5, AssembleShape

LEMMA AloneWriteFails ==
  ASSUME StateInv, AloneInv, writeFails, ~failed' PROVE AloneInv'
<1>1. /\ phase = "send" /\ Advance /\ UNCHANGED <<command, queue, asm, taken, replying, out>>
      /\ res' = "none" /\ ~failed
  BY DEF writeFails, device, Advance, StateInv, ProgressInv
<1>2. /\ taken = <<>> /\ replying = <<>> /\ Ours(queue) = {}
      /\ asm # NoAsm => InStep \/ seqNum > asm.next
      /\ \A i \in DOMAIN asm.bytes : asm.bytes[i].of = command
  BY <1>1 DEF AloneInv
<1>3. seqNum \in Nat /\ asm.next \in Nat
  BY Max16Type DEF StateInv, TypeInv
<1>4. phase' = "send" /\ asm' # NoAsm => seqNum' > asm'.next
  <2> SUFFICES ASSUME phase' = "send", asm # NoAsm PROVE seqNum' > asm.next
    BY <1>1
  <2>1. seqNum' = seqNum + 1
    BY <1>1, AdvanceShape
  <2>2. asm.next = seqNum \/ seqNum > asm.next
    BY <1>2 DEF InStep
  <2> QED
    BY <1>3, <2>1, <2>2
<1>5. phase' \in {"send", "first"} /\ DOMAIN <<>> = {}
  BY <1>1, AdvanceShape
<1> QED
  BY <1>1, <1>2, <1>4, <1>5 DEF AloneInv, Ours

\* The device sends a reply when nothing else is on its way.
LEMMA AloneAnswer ==
  ASSUME StateInv, AloneInv, NEW n \in ReplySizes, Answer(n), ~failed' PROVE AloneInv'
<1>1. /\ taken # <<>> /\ replying' = Packets([to |-> taken[1].of, is |-> n]) /\ taken' = <<>>
      /\ UNCHANGED <<phase, command, size, pos, seqNum, inLen, out, res, asm, queue, failed>>
  BY DEF Answer, host
<1>2. phase = "first" /\ Ours(queue) = {} /\ \A i \in DOMAIN taken : taken[i].of = command
  BY <1>1 DEF AloneInv, ReplyUnderWay, StateInv, TypeInv
<1>3. asm = NoAsm /\ seqNum = 0 /\ out = <<>> /\ res = "none"
  BY <1>1, <1>2 DEF StateInv, AsmInv, ProgressInv
<1>4. taken[1].of = command
  <2>1. 1 \in DOMAIN taken
    BY <1>1 DEF StateInv, TypeInv
  <2> QED
    BY <1>2, <2>1
<1>5. PICK reply \in ReplyMessages : reply = [to |-> command, is |-> n]
  BY CommandReply
<1>6. /\ replying' = Packets(reply) /\ DOMAIN replying' = 1..Count(reply)
      /\ \A k \in 1..Count(reply) : Number(replying'[k].seq) = k - 1
  <2>1. replying' = Packets(reply)
    BY <1>1, <1>4, <1>5
  <2>2. /\ Packets(reply) \in Seq(AnyPackets) /\ Len(Packets(reply)) = Count(reply)
        /\ \A k \in 1..Count(reply) : Number(Packets(reply)[k].seq) = k - 1
    BY PacketsShape
  <2>3. DOMAIN Packets(reply) = 1..Count(reply)
    BY <2>2
  <2> QED
    BY <2>1, <2>2, <2>3
<1>7. Count(reply) \in Nat
  BY CountShape
<1>8. InOrder(replying')
  <2>1. Ours(replying') \subseteq 1..Count(reply)
    BY <1>6 DEF Ours
  <2> QED
    BY <1>6, <1>7, <2>1 DEF InOrder
<1>9. \A i \in DOMAIN replying' : replying'[i] \in Rest(reply)'
  <2>1. seqNum' + 1 = 1
    BY <1>1, <1>3
  <2> QED
    BY <1>6, <2>1 DEF Rest
<1>10. DOMAIN <<>> = {} /\ DOMAIN NoAsm.bytes = {}
  BY DEF NoAsm
<1>11. Ours(queue') = {} /\ InOrder(queue')
  BY <1>1, <1>2 DEF InOrder
<1>12. ReplyUnderWay(reply)'
  BY <1>1, <1>2, <1>3, <1>8, <1>9, <1>10, <1>11 DEF ReplyUnderWay, Ours, InOrder
<1>13. \E k \in ReplySizes : ReplyUnderWay([to |-> command, is |-> k])'
  <2>1. reply = [to |-> command', is |-> n]
    BY <1>1, <1>5
  <2> QED
    BY <1>12, <2>1
<1> QED
  BY <1>1, <1>2, <1>3, <1>10, <1>13 DEF AloneInv

\* The packets of the reply move from the device to the host, and stay in order.
LEMMA AloneTransmit ==
  ASSUME StateInv, AloneInv, Transmit, ~failed' PROVE AloneInv'
<1>1. /\ replying # <<>> /\ replying' = Tail(replying)
      /\ queue' = Append(queue, Head(replying)) \/ queue' = queue
      /\ UNCHANGED <<phase, command, size, pos, seqNum, inLen, out, res, asm, taken, failed>>
  BY DEF Transmit, host
<1>2. phase \in {"first", "rest"} /\ \E n \in ReplySizes : ReplyUnderWay([to |-> command, is |-> n])
  BY <1>1 DEF AloneInv, StateInv, TypeInv
<1>3. PICK n \in ReplySizes : ReplyUnderWay([to |-> command, is |-> n])
  BY <1>2
<1>4. PICK reply \in ReplyMessages : reply = [to |-> command, is |-> n]
  BY CommandReply
<1>5. ReplyUnderWay(reply)
  BY <1>3, <1>4
<1>6. /\ Head(replying) \in AnyPackets /\ Head(replying).ours /\ 1 \in DOMAIN replying
      /\ Head(replying) = replying[1] /\ \A i \in DOMAIN replying : replying[i].ours
      /\ \A i \in DOMAIN replying' : i \in Nat /\ i + 1 \in DOMAIN replying /\ replying'[i] = replying[i + 1]
      /\ \A i \in DOMAIN replying' : i + 1 > 1
      /\ \A i \in DOMAIN replying' : replying'[i].ours
  BY <1>1, TransmitShape DEF StateInv, TypeInv
<1>7. /\ taken = <<>> /\ asm = NoAsm
      /\ \A i \in Ours(queue) : queue[i] \in Rest(reply)
      /\ \A i \in DOMAIN replying : replying[i] \in Rest(reply)
      /\ \A i, j \in Ours(queue) : i < j => Number(queue[i].seq) < Number(queue[j].seq)
      /\ \A i, j \in Ours(replying) : i < j => Number(replying[i].seq) < Number(replying[j].seq)
      /\ \A i \in Ours(queue), j \in DOMAIN replying : Number(queue[i].seq) < Number(replying[j].seq)
  BY <1>5 DEF ReplyUnderWay, InOrder
<1>8. Rest(reply)' = Rest(reply)
  BY <1>1 DEF Rest
<1>9. Ours(replying) = DOMAIN replying /\ Ours(replying') = DOMAIN replying'
  BY <1>6 DEF Ours
<1>10. \A i \in DOMAIN replying' : replying'[i] \in Rest(reply)
  BY <1>6, <1>7
<1>11. InOrder(replying')
  <2> SUFFICES ASSUME NEW i \in DOMAIN replying', NEW j \in DOMAIN replying', i < j
               PROVE  Number(replying'[i].seq) < Number(replying'[j].seq)
    BY <1>9 DEF InOrder
  <2>1. i + 1 < j + 1
    BY <1>6
  <2> QED
    BY <1>6, <1>7, <1>9, <2>1
<1>12. \A j \in DOMAIN replying' : Number(Head(replying).seq) < Number(replying'[j].seq)
  <2> SUFFICES ASSUME NEW j \in DOMAIN replying' PROVE Number(Head(replying).seq) < Number(replying'[j].seq)
    OBVIOUS
  <2>1. 1 < j + 1 /\ j + 1 \in DOMAIN replying /\ replying'[j] = replying[j + 1]
    BY <1>6
  <2> QED
    BY <1>6, <1>7, <1>9, <2>1
<1>13. /\ \A i \in Ours(queue') : queue'[i] \in Rest(reply)
       /\ InOrder(queue')
       /\ \A i \in Ours(queue'), j \in DOMAIN replying' : Number(queue'[i].seq) < Number(replying'[j].seq)
  <2>1. CASE queue' = queue
    BY <1>6, <1>7, <2>1 DEF InOrder
  <2>2. CASE queue' = Append(queue, Head(replying))
    <3> DEFINE last == Len(queue) + 1
    <3>1. /\ DOMAIN queue' = 1..last /\ DOMAIN queue = 1..Len(queue) /\ Len(queue) \in Nat
          /\ \A i \in 1..Len(queue) : queue'[i] = queue[i]
          /\ queue'[last] = Head(replying)
      BY <1>6, <2>2, AppendShape
    <3>2. last \in Nat /\ \A i \in 1..last : i = last \/ (i \in 1..Len(queue) /\ i < last)
      BY <3>1
    <3> HIDE DEF last
    <3>3. \A i \in Ours(queue') : i = last \/ (i \in Ours(queue) /\ i < last /\ queue'[i] = queue[i])
      BY <3>1, <3>2 DEF Ours
    <3>4. \A i \in Ours(queue) : i \in Nat
      BY <3>1 DEF Ours
    <3>5. \A i \in Ours(queue') : queue'[i] \in Rest(reply)
      BY <1>6, <1>7, <3>1, <3>3
    <3>6. InOrder(queue')
      <4> SUFFICES ASSUME NEW i \in Ours(queue'), NEW j \in Ours(queue'), i < j
                   PROVE  Number(queue'[i].seq) < Number(queue'[j].seq)
        BY DEF InOrder
      <4>1. i # last
        BY <3>2, <3>3, <3>4
      <4>2. i \in Ours(queue) /\ queue'[i] = queue[i]
        BY <3>3, <4>1
      <4>3. CASE j = last
        BY <1>6, <1>7, <3>1, <4>2, <4>3
      <4>4. CASE j # last
        BY <1>7, <3>3, <4>2, <4>4
      <4> QED
        BY <4>3, <4>4
    <3>7. ASSUME NEW i \in Ours(queue'), NEW j \in DOMAIN replying'
          PROVE  Number(queue'[i].seq) < Number(replying'[j].seq)
      <4>1. CASE i = last
        BY <1>12, <3>1, <4>1
      <4>2. CASE i # last
        BY <1>6, <1>7, <3>3, <4>2
      <4> QED
        BY <4>1, <4>2
    <3> QED
      BY <3>5, <3>6, <3>7
  <2> QED
    BY <1>1, <2>1, <2>2
<1>14. /\ taken' = <<>> /\ asm' = NoAsm /\ \A i \in DOMAIN out' : out'[i].of = reply
       /\ phase' = "rest" => seqNum' > 0 /\ inLen' > 0 /\ inLen' = reply.is - FirstRoom - (seqNum' - 1) * NextRoom
  BY <1>1, <1>5 DEF ReplyUnderWay
<1>15. ReplyUnderWay(reply)'
  BY <1>8, <1>10, <1>11, <1>13, <1>14 DEF ReplyUnderWay, Ours, InOrder
<1>16. \E k \in ReplySizes : ReplyUnderWay([to |-> command, is |-> k])'
  <2>1. reply = [to |-> command', is |-> n]
    BY <1>1, <1>4
  <2> QED
    BY <1>15, <2>1
<1>17. DOMAIN <<>> = {} /\ DOMAIN NoAsm.bytes = {} /\ res' = "none"
  BY <1>1, <1>2 DEF NoAsm, StateInv, ProgressInv
<1> QED
  BY <1>1, <1>2, <1>14, <1>16, <1>17 DEF AloneInv

\* The queue may lose what is in it, or gain what is not ours.
LEMMA AloneQueue ==
  ASSUME StateInv, AloneInv,
         UNCHANGED <<phase, command, size, pos, seqNum, inLen, out, res, failed>>,
         \/ /\ UNCHANGED <<asm, taken, replying>>
            /\ Ours(queue') = Ours(queue) /\ \A i \in Ours(queue) : queue'[i] = queue[i]
         \/ /\ asm' = NoAsm /\ taken' = <<>> /\ replying' = <<>>
            /\ Ours(queue') = {} \/ queue' = queue
  PROVE  AloneInv'
<1> SUFFICES ASSUME ~failed PROVE AloneInv'
  BY DEF AloneInv
<1>1. /\ asm' \in {asm, NoAsm} /\ taken' \in {taken, <<>>} /\ replying' \in {replying, <<>>}
      /\ Ours(queue') \subseteq Ours(queue) /\ \A i \in Ours(queue') : queue'[i] = queue[i]
  <2>1. CASE Ours(queue') = {}
    BY <2>1
  <2>2. CASE queue' = queue
    BY <2>2
  <2> QED
    BY <2>1, <2>2
<1>2. DOMAIN <<>> = {} /\ DOMAIN NoAsm.bytes = {}
  BY DEF NoAsm
<1>3. ASSUME NEW n \in ReplySizes, ReplyUnderWay([to |-> command, is |-> n])
      PROVE  \E k \in ReplySizes : ReplyUnderWay([to |-> command, is |-> k])'
  <2>1. PICK reply \in ReplyMessages : reply = [to |-> command, is |-> n]
    BY CommandReply
  <2>2. ReplyUnderWay(reply)
    BY <1>3, <2>1
  <2>3. Rest(reply)' = Rest(reply)
    BY DEF Rest
  <2>4. taken' = <<>> /\ asm' = NoAsm /\ (replying' = replying \/ replying' = <<>>)
    BY <1>1, <2>2 DEF ReplyUnderWay
  <2>5. /\ \A i \in Ours(queue') : queue'[i] \in Rest(reply)
        /\ \A i \in DOMAIN replying' : replying'[i] \in Rest(reply)
        /\ InOrder(queue') /\ InOrder(replying')
        /\ \A i \in Ours(queue'), j \in DOMAIN replying' : Number(queue'[i].seq) < Number(replying'[j].seq)
    <3>1. CASE replying' = replying
      BY <1>1, <2>2, <3>1 DEF ReplyUnderWay, InOrder
    <3>2. CASE replying' = <<>>
      <4>1. DOMAIN replying' = {} /\ Ours(replying') = {}
        BY <3>2 DEF Ours
      <4> QED
        BY <1>1, <2>2, <4>1 DEF ReplyUnderWay, InOrder
    <3> QED
      BY <2>4, <3>1, <3>2
  <2>6. ReplyUnderWay(reply)'
    BY <2>2, <2>3, <2>4, <2>5 DEF ReplyUnderWay, Ours, InOrder
  <2>7. reply = [to |-> command', is |-> n]
    BY <2>1
  <2> QED
    BY <2>6, <2>7
<1>4. phase \in {"first", "rest"} =>
        \/ phase = "first" /\ replying' = <<>> /\ Ours(queue') = {}
        \/ \E k \in ReplySizes : ReplyUnderWay([to |-> command, is |-> k])'
  BY <1>1, <1>3 DEF AloneInv
<1>5. /\ phase \in {"idle", "send"} => taken' = <<>> /\ replying' = <<>> /\ Ours(queue') = {}
      /\ phase = "idle" => asm' = NoAsm
      /\ phase = "send" /\ asm' # NoAsm => InStep' \/ seqNum' > asm'.next
      /\ \A i \in DOMAIN asm'.bytes : asm'.bytes[i].of = command
      /\ \A i \in DOMAIN taken' : taken'[i].of = command
      /\ res = "SUCCESS" => \A i \in DOMAIN out : out[i].of.to = command
  BY <1>1, <1>2 DEF AloneInv, InStep, Beginning
<1> QED
  BY <1>4, <1>5 DEF AloneInv, Ours

LEMMA AloneStray == StateInv /\ AloneInv /\ Stray => AloneInv'
<1> SUFFICES ASSUME StateInv, AloneInv, Stray PROVE AloneInv'
  OBVIOUS
<1>1. UNCHANGED <<host, asm, taken, replying, failed>>
  BY DEF Stray, device
<1>2. PICK n \in StraySeqs :
        queue' = Append(queue, [ours |-> FALSE, seq |-> BigEndian(n), len |-> NoLen, data |-> <<>>])
  BY DEF Stray
<1> DEFINE p == [ours |-> FALSE, seq |-> BigEndian(n), len |-> NoLen, data |-> <<>>]
<1>3. p \in AnyPackets /\ ~p.ours /\ Number(p.seq) = n /\ queue' = Append(queue, p)
  BY <1>2, StrayType
<1> HIDE DEF p
<1>4. /\ DOMAIN queue' = 1..(Len(queue) + 1) /\ DOMAIN queue = 1..Len(queue) /\ Len(queue) \in Nat
      /\ \A i \in 1..Len(queue) : queue'[i] = queue[i]
      /\ queue'[Len(queue) + 1] = p
  BY <1>3, AppendShape
<1>5. \A i \in 1..(Len(queue) + 1) : i \in 1..Len(queue) \/ i = Len(queue) + 1
  BY <1>4
<1>6. Ours(queue') = Ours(queue) /\ \A i \in Ours(queue) : queue'[i] = queue[i]
  BY <1>3, <1>4, <1>5 DEF Ours
<1> QED
  BY <1>1, <1>6, AloneQueue DEF host

LEMMA AloneGone == StateInv /\ AloneInv /\ DeviceGone => AloneInv'
<1> SUFFICES ASSUME StateInv, AloneInv, DeviceGone PROVE AloneInv'
  OBVIOUS
<1>1. /\ asm' = NoAsm /\ taken' = <<>> /\ replying' = <<>> /\ queue' \in {queue, <<>>}
      /\ UNCHANGED <<phase, command, size, pos, seqNum, inLen, out, res, failed>>
  BY DEF DeviceGone
<1>2. queue' = queue \/ Ours(queue') = {}
  BY <1>1 DEF Ours
<1> QED
  BY <1>1, <1>2, AloneQueue

\* An exchange that gives up has failed.
LEMMA AloneGivingUp == StateInv /\ (writeShort \/ refuseBuffer \/ readNothing) => AloneInv'
<1> SUFFICES ASSUME StateInv, writeShort \/ refuseBuffer \/ readNothing PROVE AloneInv'
  OBVIOUS
<1>1. {"TRANSPORT_GENERIC_ERROR", "LIB_BAD_LENGTH", "TRANSPORT_TIMEOUT"} \subseteq Results \ {"SUCCESS"}
  BY DEF Results
<1>2. \E r \in Results \ {"SUCCESS"} : Return(r)
  BY <1>1 DEF writeShort, refuseBuffer, readNothing
<1>3. failed'
  BY <1>2, Returning DEF StateInv, TypeInv
<1> QED
  BY <1>3 DEF AloneInv

LEMMA AloneStep ==
  ASSUME StraySeqs \subseteq {0}, StateInv, AloneInv, [Next]_vars PROVE AloneInv'
<1> SUFFICES ASSUME ~failed' PROVE AloneInv'
  BY DEF AloneInv
<1>1. CASE UNCHANGED vars
  <2>1. UNCHANGED <<phase, command, size, pos, seqNum, inLen, out, res, failed, asm, taken, replying, queue>>
    BY <1>1 DEF vars, host, device
  <2> QED
    BY <2>1, AloneQueue
<1> QED
  BY <1>1, AloneConnect, AloneExchange, AloneSend, AloneWriteFails, AloneFirst, AloneRest, AloneGivingUp,
     AloneAnswer, AloneTransmit, AloneStray, AloneGone
  DEF Next, Send, Read

\* However messages are cut into packets, whatever writes fail unnoticed and
\* whatever other programs receive: until an exchange fails, each one that
\* succeeds returns the answer to its own command, if strays have the number 0.
THEOREM AnswersAreOwn ==
  ASSUME StraySeqs \subseteq {0}
  PROVE  Spec => []OwnAnswer
<1>1. Init => AloneInv
  <2>1. DOMAIN <<>> = {} /\ DOMAIN NoAsm.bytes = {}
    BY DEF NoAsm
  <2> QED
    BY <2>1 DEF Init, AloneInv, Ours
<1>2. StateInv /\ AloneInv /\ [Next]_vars => AloneInv'
  BY AloneStep
<1>3. StateInv /\ AloneInv => OwnAnswer
  <2> SUFFICES ASSUME StateInv, AloneInv, ~failed, res = "SUCCESS" PROVE out[1].of.to = command
    BY DEF OwnAnswer, T!OwnAnswer
  <2>1. 1 \in DOMAIN out
    BY Sizes DEF StateInv, ProgressInv, SW
  <2> QED
    BY <2>1 DEF AloneInv
<1> QED
  BY <1>1, <1>2, <1>3, StateInductive, PTL DEF Spec
=============================================================================
