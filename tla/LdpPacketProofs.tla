--------------------------- MODULE LdpPacketProofs ---------------------------
(***************************************************************************)
(* What the checksum of LDPPacket catches and what it does not, for every  *)
(* packet and every byte the network may put in place of another; and that *)
(* the packets LDP::send cuts a line into spell the line.                  *)
(***************************************************************************)
EXTENDS LdpPacket, SequenceTheorems, TLAPS

Bodies    == [1 .. BodySize -> Byte]
Datagrams == [1 .. PacketSize -> Byte]

-----------------------------------------------------------------------------
(* The one's complement sum *)

MaxSum == 393465   \* six words and a byte, 6 * 65535 + 255

\* The folded sum is the sum modulo 2^16 - 1, and 0 is not confused with
\* 2^16 - 1.
LEMMA FoldIsModulo ==
  ASSUME NEW sum \in Nat, sum <= MaxSum
  PROVE  /\ Fold(sum) \in Nat /\ Fold(sum) < WordSize
         /\ \E q \in 0 .. 7 : sum = (WordSize - 1) * q + Fold(sum)
<1> DEFINE q == sum \div WordSize
           r == sum % WordSize
<1>1. /\ q \in Nat /\ q <= 6
      /\ r \in Nat /\ r < WordSize /\ sum = WordSize * q + r
  BY SMT DEF MaxSum, WordSize
<1>2. FoldOnce(sum) = r + q
  BY SMT DEF FoldOnce
<1> HIDE DEF q, r
<1>3. CASE r + q < WordSize
  <2>1. (r + q) % WordSize = r + q /\ (r + q) \div WordSize = 0
    BY <1>1, <1>3, SMT DEF WordSize
  <2>2. Fold(sum) = r + q
    BY <1>1, <1>2, <2>1, SMT DEF Fold, FoldOnce
  <2>3. sum = (WordSize - 1) * q + (r + q)
    BY <1>1, SMT DEF WordSize
  <2> QED
    BY <1>1, <1>3, <2>2, <2>3, SMT DEF WordSize
<1>4. CASE r + q >= WordSize
  <2>1. (r + q) % WordSize = r + q - WordSize /\ (r + q) \div WordSize = 1
    BY <1>1, <1>4, SMT DEF WordSize
  <2>2. Fold(sum) = r + q - WordSize + 1
    BY <1>1, <1>2, <2>1, SMT DEF Fold, FoldOnce, WordSize
  <2>3. sum = (WordSize - 1) * (q + 1) + (r + q - WordSize + 1)
    BY <1>1, SMT DEF WordSize
  <2> QED
    BY <1>1, <1>4, <2>2, <2>3, SMT DEF WordSize
<1> QED
  BY <1>1, <1>3, <1>4, SMT DEF WordSize

\* A body of bytes is a body of naturals, each at most 255.
LEMMA BodyBytes ==
  ASSUME NEW body \in Bodies
  PROVE  body \in [1 .. 13 -> Nat] /\ \A k \in 1 .. 13 : body[k] <= 255
<1>1. ASSUME NEW S, NEW T, S \subseteq T, NEW f \in [1 .. 13 -> S]
      PROVE  f \in [1 .. 13 -> T]
  BY <1>1
<1>2. Byte \subseteq Nat
  BY SMT DEF Byte
<1>3. \A k \in 1 .. 13 : body[k] <= 255
  <2>1. \A k \in 1 .. 13 : body[k] \in Byte
    BY DEF Bodies, BodySize
  <2>2. \A b \in Byte : b <= 255
    BY SMT DEF Byte
  <2> QED
    BY <2>1, <2>2
<1> QED
  BY <1>1, <1>2, <1>3 DEF Bodies, BodySize

\* The sum of a body fits in its uint32_t many times over.
LEMMA SumBounds ==
  ASSUME NEW body \in [1 .. 13 -> Nat], \A k \in 1 .. 13 : body[k] <= 255
  PROVE  BodySum(body) \in Nat /\ BodySum(body) <= MaxSum
  BY SMT DEF BodySum, WordAt, MaxSum

\* Two sums that differ by less than 2^16 - 1 fold to different values.
Close(x, y) == x # y /\ x - y < WordSize - 1 /\ y - x < WordSize - 1

\* Their folds differ, since the sums are no multiple of 2^16 - 1 apart.
LEMMA CloseSumsDiffer ==
  ASSUME NEW x \in Nat, x <= MaxSum, NEW y \in Nat, y <= MaxSum, Close(x, y)
  PROVE  Fold(x) # Fold(y)
<1>1. PICK i \in 0 .. 7 : x = (WordSize - 1) * i + Fold(x)
  BY FoldIsModulo
<1>2. PICK j \in 0 .. 7 : y = (WordSize - 1) * j + Fold(y)
  BY FoldIsModulo
<1>3. PICK f \in Nat : f = Fold(x)
  BY FoldIsModulo
<1>4. PICK g \in Nat : g = Fold(y)
  BY FoldIsModulo
<1> QED
  BY <1>1, <1>2, <1>3, <1>4, SMT DEF Close, WordSize

\* The weight of each byte in the sum: the first counts twice, as the low half of
\* the first word and as the byte left over; the last not at all.
Weight(k) == IF k = 1 THEN 2 ELSE IF k = 13 THEN 0 ELSE IF k % 2 = 1 THEN 1 ELSE 256

Weights == {1, 2, 256}

\* Replacing a byte moves the sum by its weight times the difference.
LEMMA OneByteMoves ==
  ASSUME NEW body \in [1 .. 13 -> Nat], NEW other \in [1 .. 13 -> Nat],
         NEW k \in 1 .. 13, NEW b \in Nat,
         \A m \in 1 .. 13 : other[m] = IF m = k THEN b ELSE body[m]
  PROVE  BodySum(other) = BodySum(body) + Weight(k) * (b - body[k])
<1> USE DEF BodySum, WordAt, Weight
<1>1. CASE k = 1
  BY <1>1, SMT
<1>2. CASE k = 2
  BY <1>2, SMT
<1>3. CASE k = 3
  BY <1>3, SMT
<1>4. CASE k = 4
  BY <1>4, SMT
<1>5. CASE k = 5
  BY <1>5, SMT
<1>6. CASE k = 6
  BY <1>6, SMT
<1>7. CASE k = 7
  BY <1>7, SMT
<1>8. CASE k = 8
  BY <1>8, SMT
<1>9. CASE k = 9
  BY <1>9, SMT
<1>10. CASE k = 10
  BY <1>10, SMT
<1>11. CASE k = 11
  BY <1>11, SMT
<1>12. CASE k = 12
  BY <1>12, SMT
<1>13. CASE k = 13
  BY <1>13, SMT
<1> QED
  BY <1>1, <1>2, <1>3, <1>4, <1>5, <1>6, <1>7, <1>8, <1>9, <1>10, <1>11, <1>12, <1>13, SMT

\* Replacing a byte by another moves the sum by less than 2^16 - 1.
LEMMA SmallStep ==
  ASSUME NEW x \in Nat, NEW y \in Nat, NEW b \in Byte, NEW c \in Byte, b # c,
         NEW w \in Weights, y = x + w * (b - c)
  PROVE  Close(x, y)
<1>1. b \in Nat /\ b <= 255 /\ c \in Nat /\ c <= 255
  BY SMT DEF Byte
<1>2. w = 1 \/ w = 2 \/ w = 256
  BY DEF Weights
<1>3. CASE w = 1
  BY <1>1, <1>3, SMT DEF Close, WordSize
<1>4. CASE w = 2
  BY <1>1, <1>4, SMT DEF Close, WordSize
<1>5. CASE w = 256
  BY <1>1, <1>5, SMT DEF Close, WordSize
<1> QED
  BY <1>2, <1>3, <1>4, <1>5

\* One wrong byte among the first twelve of the body changes the checksum.
THEOREM OneByteChangesTheChecksum ==
  ASSUME NEW body \in Bodies, NEW k \in 1 .. 12, NEW b \in Byte, b # body[k]
  PROVE  calculateChecksum([body EXCEPT ![k] = b]) # calculateChecksum(body)
<1> DEFINE other == [body EXCEPT ![k] = b]
<1>1. other \in Bodies
  BY DEF Bodies, BodySize
<1>2. k \in 1 .. 13 /\ \A m \in 1 .. 13 : other[m] = IF m = k THEN b ELSE body[m]
  BY DEF Bodies, BodySize
<1>3. b \in Nat /\ b <= 255 /\ body[k] \in Nat /\ body[k] <= 255
  BY <1>2, BodyBytes, SMT DEF Byte
<1> HIDE DEF other
<1>4. PICK x \in Nat : x = BodySum(body) /\ x <= MaxSum
  BY BodyBytes, SumBounds
<1>5. PICK y \in Nat : y = BodySum(other) /\ y <= MaxSum
  BY <1>1, BodyBytes, SumBounds
<1>6. y = x + Weight(k) * (b - body[k])
  BY <1>1, <1>2, <1>3, <1>4, <1>5, BodyBytes, OneByteMoves
<1>7. Weight(k) \in Weights
  BY SMT DEF Weight, Weights
<1>8. Close(x, y)
  <2>1. body[k] \in Byte /\ b # body[k]
    BY <1>2 DEF Bodies, BodySize
  <2> QED
    BY <1>6, <1>7, <2>1, SmallStep
<1>9. Fold(x) # Fold(y) /\ Fold(x) \in Nat /\ Fold(y) \in Nat
  BY <1>4, <1>5, <1>8, CloseSumsDiffer, FoldIsModulo
<1> QED
  BY <1>4, <1>5, <1>9, SMT DEF calculateChecksum, WordSize, other

\* A wrong last byte does not: the byte that the loop of calculateChecksum leaves
\* over is not the one it adds.
THEOREM LastByteIsNotCovered ==
  ASSUME NEW body \in Bodies, NEW b \in Byte
  PROVE  calculateChecksum([body EXCEPT ![13] = b]) = calculateChecksum(body)
<1> DEFINE other == [body EXCEPT ![13] = b]
<1>1. \A m \in 1 .. 12 : other[m] = body[m]
  BY SMT DEF Bodies, BodySize
<1> HIDE DEF other
<1>2. BodySum(other) = BodySum(body)
  BY <1>1, SMT DEF BodySum, WordAt
<1> QED
  BY <1>2 DEF calculateChecksum, other

-----------------------------------------------------------------------------
(* Packets on the wire *)

Word   == { w \in Nat : w <= 65535 }
Packet == [isAck : BOOLEAN, isSeq : BOOLEAN, isTheLastPacketOfTheMessage : BOOLEAN,
           seqNumber : Word, ackNumber : Word, payload : [1 .. PayloadSize -> Byte]]

\* A concatenation of bytes, byte by byte.
LEMMA Concatenation ==
  ASSUME NEW s \in Seq(Byte), NEW t \in Seq(Byte), NEW u, u = s \o t
  PROVE  /\ u \in Seq(Byte) /\ Len(u) = Len(s) + Len(t)
         /\ \A k \in 1 .. Len(s) + Len(t) :
              u[k] = IF k <= Len(s) THEN s[k] ELSE t[k - Len(s)]
  BY ConcatProperties

\* High and Low are bytes, and htons loses nothing.
LEMMA Halves ==
  ASSUME NEW w \in Word
  PROVE  High(w) \in Byte /\ Low(w) \in Byte /\ w = 256 * High(w) + Low(w)
<1>1. w \in Nat /\ w <= 65535
  BY SMT DEF Word
<1> QED
  BY <1>1, SMT DEF High, Low, Byte

\* calculateChecksum returns an uint16_t.
LEMMA ChecksumIsAWord ==
  ASSUME NEW body \in Bodies
  PROVE  calculateChecksum(body) \in Word
<1>1. BodySum(body) \in Nat /\ BodySum(body) <= MaxSum
  BY BodyBytes, SumBounds
<1>2. PICK f \in Nat : f = Fold(BodySum(body)) /\ f < WordSize
  BY <1>1, FoldIsModulo
<1>3. calculateChecksum(body) = 65535 - f
  BY <1>2 DEF calculateChecksum, WordSize
<1>4. PICK w \in Nat : w = 65535 - f /\ w <= 65535
  BY <1>2, SMT DEF WordSize
<1>5. w \in Word
  BY <1>4, SMT DEF Word
<1> QED
  BY <1>3, <1>4, <1>5

\* The body of a packet, byte by byte.
LEMMA BodyBytesOf ==
  ASSUME NEW p \in Packet
  PROVE  /\ Body(p) \in Bodies /\ Body(p) \in Seq(Byte) /\ Len(Body(p)) = BodySize
         /\ Body(p)[1] = Flags(p)
         /\ Body(p)[2] = High(p.seqNumber) /\ Body(p)[3] = Low(p.seqNumber)
         /\ Body(p)[4] = High(p.ackNumber) /\ Body(p)[5] = Low(p.ackNumber)
         /\ \A k \in 1 .. PayloadSize : Body(p)[k + 5] = p.payload[k]
<1> DEFINE head == << Flags(p), High(p.seqNumber), Low(p.seqNumber),
                      High(p.ackNumber), Low(p.ackNumber) >>
           tail == p.payload
<1>1. p.seqNumber \in Word /\ p.ackNumber \in Word /\ p.payload \in [1 .. 8 -> Byte]
  BY DEF Packet, PayloadSize
<1>2. Flags(p) \in Byte
  BY SMT DEF Flags, Bit, Byte
<1>3. head \in Seq(Byte) /\ Len(head) = 5
  BY <1>1, <1>2, Halves
<1>4. tail \in Seq(Byte) /\ Len(tail) = 8
  <2>1. 8 \in Nat
    OBVIOUS
  <2>2. tail \in Seq(Byte)
    BY <1>1, <2>1, SeqDef, Zenon
  <2> QED
    BY <1>1, <2>2, LenProperties, SMT
<1>5. /\ head[1] = Flags(p)
      /\ head[2] = High(p.seqNumber) /\ head[3] = Low(p.seqNumber)
      /\ head[4] = High(p.ackNumber) /\ head[5] = Low(p.ackNumber)
  OBVIOUS
<1>6. Body(p) = head \o tail
  BY DEF Body
<1>t. tail = p.payload
  OBVIOUS
<1> HIDE DEF head, tail
<1>7. /\ Body(p) \in Seq(Byte) /\ Len(Body(p)) = 13
      /\ \A k \in 1 .. 13 : Body(p)[k] = IF k <= 5 THEN head[k] ELSE tail[k - 5]
  <2>1. Body(p) \in Seq(Byte) /\ Len(Body(p)) = Len(head) + Len(tail)
    BY <1>3, <1>4, <1>6, Concatenation
  <2>2. \A k \in 1 .. Len(head) + Len(tail) :
           Body(p)[k] = IF k <= Len(head) THEN head[k] ELSE tail[k - Len(head)]
    BY <1>3, <1>4, <1>6, Concatenation
  <2>3. Len(head) + Len(tail) = 13 /\ Len(head) = 5
    BY <1>3, <1>4, <1>6, SMT
  <2> QED
    BY <2>1, <2>2, <2>3
<1>8. Body(p) \in Bodies
  BY <1>7, LenProperties DEF Bodies, BodySize
<1>9. \A k \in 1 .. PayloadSize : Body(p)[k + 5] = p.payload[k]
  BY <1>7, <1>t, SMT DEF PayloadSize
<1>10. /\ Body(p)[1] = head[1] /\ Body(p)[2] = head[2] /\ Body(p)[3] = head[3]
       /\ Body(p)[4] = head[4] /\ Body(p)[5] = head[5]
  BY <1>7, SMT
<1> QED
  BY <1>5, <1>7, <1>8, <1>9, <1>10 DEF BodySize

\* The datagram of a packet, byte by byte.
LEMMA DatagramBytesOf ==
  ASSUME NEW p \in Packet
  PROVE  /\ encode(p) \in Datagrams
         /\ encode(p)[1] = High(calculateChecksum(Body(p)))
         /\ encode(p)[2] = Low(calculateChecksum(Body(p)))
         /\ \A k \in 1 .. BodySize : encode(p)[k + 2] = Body(p)[k]
<1> DEFINE c == calculateChecksum(Body(p))
           head == << High(c), Low(c) >>
<1>1. Body(p) \in Seq(Byte) /\ Len(Body(p)) = 13 /\ c \in Word
  BY BodyBytesOf, ChecksumIsAWord DEF BodySize
<1>2. head \in Seq(Byte) /\ Len(head) = 2
  BY <1>1, Halves
<1>3. head[1] = High(c) /\ head[2] = Low(c)
  OBVIOUS
<1>4. encode(p) = head \o Body(p)
  BY DEF encode
<1> HIDE DEF head
<1>5. /\ encode(p) \in Seq(Byte) /\ Len(encode(p)) = 15
      /\ \A k \in 1 .. 15 : encode(p)[k] = IF k <= 2 THEN head[k] ELSE Body(p)[k - 2]
  <2>1. encode(p) \in Seq(Byte) /\ Len(encode(p)) = Len(head) + Len(Body(p))
    BY <1>1, <1>2, <1>4, Concatenation
  <2>2. \A k \in 1 .. Len(head) + Len(Body(p)) :
           encode(p)[k] = IF k <= Len(head) THEN head[k] ELSE Body(p)[k - Len(head)]
    BY <1>1, <1>2, <1>4, Concatenation
  <2>3. Len(head) + Len(Body(p)) = 15 /\ Len(head) = 2
    BY <1>1, <1>2, <1>4, SMT
  <2> QED
    BY <2>1, <2>2, <2>3
<1>6. encode(p) \in Datagrams
  BY <1>5, LenProperties DEF Datagrams, PacketSize
<1>7. \A k \in 1 .. BodySize : encode(p)[k + 2] = Body(p)[k]
  BY <1>5, SMT DEF BodySize
<1>8. encode(p)[1] = head[1] /\ encode(p)[2] = head[2]
  BY <1>5, SMT
<1> QED
  BY <1>3, <1>6, <1>7, <1>8

\* The first two bytes of a datagram are its checksum, ...
LEMMA ChecksumOnTheWire ==
  ASSUME NEW p \in Packet
  PROVE  WordFrom(encode(p), 1) = calculateChecksum(Body(p))
<1>1. calculateChecksum(Body(p)) \in Word
  BY BodyBytesOf, ChecksumIsAWord
<1>2. encode(p)[1 + 1] = encode(p)[2]
  OBVIOUS
<1> QED
  BY <1>1, <1>2, DatagramBytesOf, Halves DEF WordFrom

\* ... and the others its body.
LEMMA BodyOnTheWire ==
  ASSUME NEW p \in Packet
  PROVE  BodyOf(encode(p)) = Body(p)
  BY BodyBytesOf, DatagramBytesOf DEF BodyOf, Bodies

\* Three flags in three bits.
LEMMA FlagBits ==
  ASSUME NEW p \in Packet
  PROVE  /\ (Flags(p) % 2 = 1) = p.isAck
         /\ ((Flags(p) \div 2) % 2 = 1) = p.isSeq
         /\ ((Flags(p) \div 4) % 2 = 1) = p.isTheLastPacketOfTheMessage
<1>1. p.isAck \in BOOLEAN /\ p.isSeq \in BOOLEAN /\ p.isTheLastPacketOfTheMessage \in BOOLEAN
  BY DEF Packet
<1> QED
  BY <1>1, SMT DEF Flags, Bit

\* Decoding undoes encoding: every packet is accepted and has the same fields.
THEOREM DecodeUndoesEncode ==
  ASSUME NEW p \in Packet
  PROVE  /\ ~decode(encode(p)).isCorrupted
         /\ \A f \in DOMAIN p : decode(encode(p))[f] = p[f]
<1> DEFINE d == encode(p)
<1>1. ~IsCorrupted(d)
  BY ChecksumOnTheWire, BodyOnTheWire DEF IsCorrupted
<1>2. /\ d[3] = Flags(p)
      /\ d[4] = High(p.seqNumber) /\ d[5] = Low(p.seqNumber)
      /\ d[6] = High(p.ackNumber) /\ d[7] = Low(p.ackNumber)
      /\ \A k \in 1 .. PayloadSize : d[k + 7] = p.payload[k]
  <2>1. \A k \in 1 .. 13 : d[k + 2] = Body(p)[k]
    BY DatagramBytesOf DEF BodySize
  <2>2. d[1 + 2] = Body(p)[1] /\ d[2 + 2] = Body(p)[2] /\ d[3 + 2] = Body(p)[3]
        /\ d[4 + 2] = Body(p)[4] /\ d[5 + 2] = Body(p)[5]
    BY <2>1
  <2>3. \A k \in 1 .. 8 : d[(k + 5) + 2] = Body(p)[k + 5]
    BY <2>1, SMT
  <2> HIDE DEF d
  <2> QED
    BY <2>2, <2>3, BodyBytesOf, SMT DEF PayloadSize
<1>3. p.seqNumber \in Word /\ p.ackNumber \in Word /\ p.payload \in [1 .. PayloadSize -> Byte]
  BY DEF Packet
<1> HIDE DEF d
<1>4. WordFrom(d, 4) = p.seqNumber /\ WordFrom(d, 6) = p.ackNumber
  <2>1. d[4 + 1] = d[5] /\ d[6 + 1] = d[7]
    OBVIOUS
  <2> QED
    BY <1>2, <1>3, <2>1, Halves DEF WordFrom
<1>5. [k \in 1 .. PayloadSize |-> d[k + 7]] = p.payload
  BY <1>2, <1>3
<1>6. DOMAIN p = {"isAck", "isSeq", "isTheLastPacketOfTheMessage", "seqNumber", "ackNumber",
                  "payload"}
  BY DEF Packet
<1>7. /\ decode(d).isAck = p.isAck /\ decode(d).isSeq = p.isSeq
      /\ decode(d).isTheLastPacketOfTheMessage = p.isTheLastPacketOfTheMessage
  BY <1>2, FlagBits DEF decode
<1>8. /\ decode(d).seqNumber = p.seqNumber /\ decode(d).ackNumber = p.ackNumber
      /\ decode(d).payload = p.payload /\ decode(d).isCorrupted = IsCorrupted(d)
  BY <1>4, <1>5 DEF decode
<1> QED
  BY <1>1, <1>6, <1>7, <1>8 DEF d

\* Datagrams with the same bytes are the same.
LEMMA SameBytes ==
  ASSUME NEW d \in Datagrams, NEW e \in Datagrams,
         \A m \in 1 .. PacketSize : d[m] = e[m]
  PROVE  d = e
<1>1. d = [m \in 1 .. PacketSize |-> d[m]] /\ e = [m \in 1 .. PacketSize |-> e[m]]
  BY DEF Datagrams
<1>2. [m \in 1 .. PacketSize |-> d[m]] = [m \in 1 .. PacketSize |-> e[m]]
  OBVIOUS
<1> QED
  BY <1>1, <1>2

\* Where every byte of the wire but one is that of the packet, the checksum
\* does not match.
LEMMA OneByteOnTheWire ==
  ASSUME NEW p \in Packet, NEW d \in Datagrams, NEW k \in Protected,
         \A m \in 1 .. PacketSize : (d[m] # encode(p)[m]) <=> (m = k)
  PROVE  IsCorrupted(d)
<1> DEFINE e == encode(p)
           c == calculateChecksum(Body(p))
<1>1. k \in Nat /\ 1 <= k /\ k <= 14
  BY SMT DEF Protected, PacketSize
<1>2. \A m \in 1 .. 15 : d[m] \in Byte /\ e[m] \in Byte
  BY DatagramBytesOf DEF Datagrams, PacketSize
<1>3. \A m \in 1 .. 15 : (d[m] # e[m]) <=> (m = k)
  BY DEF PacketSize
<1>4. WordFrom(e, 1) = c
  BY ChecksumOnTheWire
<1>5. BodyOf(e) = Body(p) /\ Body(p) \in Bodies
  BY BodyOnTheWire, BodyBytesOf
<1>6. \A m \in 1 .. 13 : BodyOf(e)[m] = e[m + 2] /\ BodyOf(d)[m] = d[m + 2]
  BY DEF BodyOf, BodySize
<1>7. BodyOf(d) \in Bodies
  <2>1. \A m \in 1 .. 13 : d[m + 2] \in Byte
    BY <1>2, SMT
  <2> QED
    BY <2>1 DEF BodyOf, Bodies, BodySize
<1> HIDE DEF e, c
<1>8. CASE k <= 2
  <2>1. BodyOf(d) = BodyOf(e)
    <3>1. \A m \in 1 .. 13 : d[m + 2] = e[m + 2]
      BY <1>1, <1>3, <1>8, SMT
    <3> QED
      BY <3>1 DEF BodyOf, BodySize
  <2>2. PICK a \in Byte, b \in Byte, f \in Byte, g \in Byte :
           a = d[1] /\ b = d[2] /\ f = e[1] /\ g = e[2]
    BY <1>2, SMT
  <2>3. (a = f /\ b # g) \/ (a # f /\ b = g)
    BY <1>1, <1>3, <1>8, <2>2, SMT
  <2>4. 256 * a + b # 256 * f + g
    BY <2>3, SMT DEF Byte
  <2>5. WordFrom(d, 1) = 256 * a + b /\ WordFrom(e, 1) = 256 * f + g
    BY <2>2 DEF WordFrom
  <2> QED
    BY <1>4, <1>5, <2>1, <2>4, <2>5 DEF IsCorrupted, c
<1>9. CASE k > 2
  <2> DEFINE j == k - 2
  <2>1. j \in 1 .. 12 /\ j + 2 = k /\ k \in 1 .. 15
    BY <1>1, <1>9, SMT
  <2> HIDE DEF j
  <2>2. d[k] \in Byte /\ d[k] # Body(p)[j]
    <3>1. Body(p)[j] = e[j + 2]
      BY <1>5, <1>6, <2>1, SMT
    <3> QED
      BY <1>2, <1>3, <2>1, <3>1
  <2>3. BodyOf(d) = [Body(p) EXCEPT ![j] = d[k]]
    <3>1. \A m \in 1 .. 13 : BodyOf(d)[m] = IF m = j THEN d[k] ELSE Body(p)[m]
      <4> SUFFICES ASSUME NEW m \in 1 .. 13
                   PROVE  BodyOf(d)[m] = IF m = j THEN d[k] ELSE Body(p)[m]
        OBVIOUS
      <4>1. m + 2 \in 1 .. 15 /\ ((m + 2 = k) <=> (m = j))
        BY <2>1, SMT
      <4> QED
        BY <1>3, <1>5, <1>6, <2>1, <4>1
    <3> QED
      BY <1>5, <1>7, <2>1, <3>1 DEF Bodies, BodySize
  <2>4. WordFrom(d, 1) = WordFrom(e, 1)
    <3>1. d[1] = e[1] /\ d[1 + 1] = e[1 + 1]
      BY <1>1, <1>3, <1>9, SMT
    <3> QED
      BY <3>1 DEF WordFrom
  <2>5. calculateChecksum(BodyOf(d)) # calculateChecksum(Body(p))
    <3>1. calculateChecksum([Body(p) EXCEPT ![j] = d[k]]) # calculateChecksum(Body(p))
      BY <1>5, <2>1, <2>2, OneByteChangesTheChecksum, Zenon
    <3> QED
      BY <2>3, <3>1
  <2> QED
    BY <1>4, <2>4, <2>5 DEF IsCorrupted, c
<1> QED
  BY <1>1, <1>8, <1>9, SMT

-----------------------------------------------------------------------------
(* The loop of LDP::send *)

\* What is on the wire is the packet, but for the bytes the network has changed.
OnTheWire ==
  /\ packet \in Packet /\ datagram \in Datagrams /\ garbled \subseteq 1 .. PacketSize
  /\ \A m \in 1 .. PacketSize : (datagram[m] # encode(packet)[m]) <=> (m \in garbled)

IInv ==
  /\ phase \in {"next", "built", "wire"}
  /\ line \in Lines
  /\ offset \in Nat
  /\ phase = "built" => packet \in Packet /\ garbled = {}
  /\ phase = "wire" => OnTheWire
  /\ JustDecoded => OnTheWire /\ received = decode(datagram)

\* Whatever the rest of the line and the bytes left unwritten, LDPPacket(message, n)
\* makes a packet.
LEMMA NewPacketsArePackets ==
  ASSUME NEW rest \in Seq(Byte)
  PROVE  NewPackets(rest) \subseteq Packet
<1> DEFINE n == Len(rest)
<1>1. n \in Nat
  BY LenProperties
<1>2. \A k \in 1 .. n : rest[k] \in Byte
  BY ElementOfSeq
<1> HIDE DEF n
<1>3. ASSUME NEW t \in [n + 2 .. PayloadSize -> StaleBytes]
      PROVE  [k \in 1 .. PayloadSize |-> IF k <= n THEN rest[k] ELSE IF k = n + 1 THEN 0 ELSE t[k]]
               \in [1 .. PayloadSize -> Byte]
  <2> SUFFICES ASSUME NEW k \in 1 .. PayloadSize
               PROVE  (IF k <= n THEN rest[k] ELSE IF k = n + 1 THEN 0 ELSE t[k]) \in Byte
    OBVIOUS
  <2>1. CASE k <= n
    BY <1>1, <1>2, <2>1, SMT DEF PayloadSize
  <2>2. CASE k = n + 1
    BY <1>1, <2>2, SMT DEF Byte, PayloadSize
  <2>3. CASE k > n + 1
    <3>1. k \in n + 2 .. PayloadSize
      BY <1>1, <2>3, SMT DEF PayloadSize
    <3>2. t[k] \in Byte
      BY <3>1, LdpPacketAssumption
    <3> QED
      BY <1>1, <2>3, <3>2, SMT DEF PayloadSize
  <2> QED
    BY <1>1, <2>1, <2>2, <2>3, SMT DEF PayloadSize
<1>4. 123 \in Word /\ 789 \in Word
  BY SMT DEF Word
<1>5. SUFFICES ASSUME NEW p \in NewPackets(rest) PROVE p \in Packet
  OBVIOUS
<1>6. PICK t \in [n + 2 .. PayloadSize -> StaleBytes] :
         p = [isAck |-> TRUE, isSeq |-> TRUE, isTheLastPacketOfTheMessage |-> FALSE,
              seqNumber |-> 123, ackNumber |-> 789,
              payload |-> [k \in 1 .. PayloadSize |->
                             IF k <= n THEN rest[k] ELSE IF k = n + 1 THEN 0 ELSE t[k]]]
  BY DEF NewPackets, n
<1> QED
  BY <1>3, <1>4, <1>6 DEF Packet

\* Nothing is on the wire at first.
LEMMA InitIInv == Init => IInv
  BY DEF Init, IInv, JustDecoded

\* The constructor makes a packet of any part of any line.
LEMMA BuildIInv == IInv /\ Build => IInv'
<1> SUFFICES ASSUME IInv, Build PROVE IInv'
  OBVIOUS
<1>1. line \in Seq(Byte)
  <2>1. line \in Seq(Byte \ {0}) /\ Byte \ {0} \subseteq Byte
    BY LdpPacketAssumption DEF IInv
  <2> QED
    BY <2>1, SeqMonotonic
<1>2. CString(line) \in Seq(Byte) /\ Len(CString(line)) = Len(line) + 1 /\ Len(line) \in Nat
  <2>1. 0 \in Byte
    BY SMT DEF Byte
  <2> QED
    BY <1>1, <2>1, AppendProperties, LenProperties DEF CString
<1>3. SubSeq(CString(line), offset + 1, Len(line) + 1) \in Seq(Byte)
  <2>1. offset \in Nat /\ offset < Len(line) + 1
    BY DEF IInv, Build, MoreToSend
  <2>2. \A i \in offset + 1 .. Len(line) + 1 : CString(line)[i] \in Byte
    <3>1. \A i \in offset + 1 .. Len(line) + 1 : i \in 1 .. Len(CString(line))
      BY <1>2, <2>1, SMT
    <3> QED
      BY <1>2, <3>1, ElementOfSeq
  <2> QED
    BY <1>2, <2>1, <2>2, SubSeqProperties
<1>4. packet' \in Packet
  BY <1>3, NewPacketsArePackets DEF Build
<1> QED
  BY <1>4 DEF IInv, Build, JustDecoded

\* udpSend puts on the wire what the packet is.
LEMMA EncodeIInv == IInv /\ Encode => IInv'
<1> SUFFICES ASSUME IInv, Encode PROVE IInv'
  OBVIOUS
<1>1. packet' = packet /\ packet \in Packet /\ datagram' = encode(packet) /\ garbled' = {}
  BY DEF IInv, Encode
<1>2. encode(packet) \in Datagrams
  BY <1>1, DatagramBytesOf
<1>3. OnTheWire'
  BY <1>1, <1>2 DEF OnTheWire
<1> QED
  BY <1>3 DEF IInv, Encode, JustDecoded

\* The network changes one byte more, and garbled says which.
LEMMA GarbleIInv == IInv /\ Garble => IInv'
<1> SUFFICES ASSUME IInv, Garble PROVE IInv'
  OBVIOUS
<1>1. PICK k \in (1 .. PacketSize) \ garbled, b \in NoiseBytes :
         /\ b # datagram[k]
         /\ datagram' = [datagram EXCEPT ![k] = b]
         /\ garbled' = garbled \cup {k}
  BY DEF Garble
<1>2. OnTheWire /\ packet' = packet
  BY DEF IInv, Garble
<1>3. b \in Byte
  BY LdpPacketAssumption
<1>4. datagram' \in Datagrams
  BY <1>1, <1>2, <1>3 DEF OnTheWire, Datagrams
<1>5. \A m \in 1 .. PacketSize : datagram'[m] = IF m = k THEN b ELSE datagram[m]
  BY <1>1, <1>2 DEF OnTheWire, Datagrams
<1>6. encode(packet)' = encode(packet)
  BY <1>2
<1>7. OnTheWire'
  BY <1>1, <1>2, <1>4, <1>5, <1>6 DEF OnTheWire
<1> QED
  BY <1>7 DEF IInv, Garble, JustDecoded

\* udpReceive decodes what is on the wire.
LEMMA DecodeIInv == IInv /\ Decode => IInv'
<1> SUFFICES ASSUME IInv, Decode PROVE IInv'
  OBVIOUS
<1>1. OnTheWire /\ UNCHANGED << line, packet, datagram, garbled >>
  BY DEF IInv, Decode
<1>2. OnTheWire'
  BY <1>1 DEF OnTheWire
<1>3. offset' \in Nat /\ phase' = "next" /\ received' = decode(datagram)
  BY SMT DEF IInv, Decode, PayloadSize
<1>4. received' = decode(datagram)'
  BY <1>1, <1>3
<1> QED
  BY <1>1, <1>2, <1>3, <1>4 DEF IInv, JustDecoded

\* Every step accounts for the bytes on the wire.
LEMMA IInvKept == IInv /\ [Next]_vars => IInv'
<1> SUFFICES ASSUME IInv, [Next]_vars PROVE IInv'
  OBVIOUS
<1>1. CASE Build \/ Encode \/ Garble \/ Decode
  BY <1>1, BuildIInv, EncodeIInv, GarbleIInv, DecodeIInv
<1>2. CASE UNCHANGED vars
  BY <1>2 DEF IInv, JustDecoded, OnTheWire, vars
<1> QED
  BY <1>1, <1>2 DEF Next, Done

\* The bytes on the wire are accounted for at every step.
THEOREM WireIsAccounted == Spec => []IInv
<1>1. Init => IInv
  BY InitIInv
<1> QED
  BY <1>1, IInvKept, PTL DEF Spec

\* encode and decode are inverse on an undisturbed wire, whatever the line and
\* whatever the uninitialised bytes hold.
THEOREM UndisturbedPacketsArrive == Spec => []RoundTrip
<1>1. IInv => RoundTrip
  <2> SUFFICES ASSUME IInv, JustDecoded, garbled = {}
               PROVE  /\ ~received.isCorrupted
                      /\ \A f \in DOMAIN packet : received[f] = packet[f]
    BY DEF RoundTrip
  <2>1. packet \in Packet /\ datagram \in Datagrams /\ received = decode(datagram)
    BY DEF IInv, OnTheWire
  <2>2. encode(packet) \in Datagrams
    BY <2>1, DatagramBytesOf
  <2>3. \A m \in 1 .. PacketSize : datagram[m] = encode(packet)[m]
    BY DEF IInv, OnTheWire
  <2>4. datagram = encode(packet)
    BY <2>1, <2>2, <2>3, SameBytes
  <2> QED
    BY <2>1, <2>4, DecodeUndoesEncode
<1> QED
  BY <1>1, WireIsAccounted, PTL

\* One wrong byte before the last one of the datagram is always noticed.
THEOREM OneWrongByteIsCaught == Spec => []SingleGarbleCaught
<1>1. IInv => SingleGarbleCaught
  <2> SUFFICES ASSUME IInv, JustDecoded, NEW k \in Protected, garbled = {k}
               PROVE  received.isCorrupted
    BY DEF SingleGarbleCaught
  <2>1. packet \in Packet /\ datagram \in Datagrams /\ received = decode(datagram)
    BY DEF IInv, OnTheWire
  <2>2. \A m \in 1 .. PacketSize : (datagram[m] # encode(packet)[m]) <=> (m = k)
    BY DEF IInv, OnTheWire
  <2>3. IsCorrupted(datagram)
    BY <2>1, <2>2, OneByteOnTheWire
  <2> QED
    BY <2>1, <2>3 DEF decode
<1> QED
  BY <1>1, WireIsAccounted, PTL

-----------------------------------------------------------------------------
(* The line that is cut *)

\* What the payload of the packet that starts behind the first start characters says:
\* the characters of the line, and a NUL behind the last of them.
Spells(p, start) ==
  \A k \in 1 .. PayloadSize :
    /\ start + k <= Len(line) => p.payload[k] = line[start + k]
    /\ start + k = Len(line) + 1 => p.payload[k] = 0

\* The packet at hand spells the line from where the loop is, or was when it was built.
Cut ==
  /\ offset <= Len(line) + PayloadSize
  /\ phase # "next" => received = NoPacket /\ offset < Len(line) + 1 /\ Spells(packet, offset)
  /\ phase = "built" \/ (phase = "next" /\ received = NoPacket) => datagram = << >> /\ garbled = {}
  /\ JustDecoded => \E start \in Nat : /\ offset = start + PayloadSize /\ start < Len(line) + 1
                                       /\ Spells(packet, start)

\* A line is a sequence of bytes, none of them the NUL.
LEMMA LineBytes ==
  ASSUME IInv
  PROVE  /\ line \in Seq(Byte) /\ Len(line) \in Nat
         /\ \A k \in 1 .. Len(line) : line[k] \in Byte /\ line[k] # 0
         /\ CString(line) \in Seq(Byte) /\ Len(CString(line)) = Len(line) + 1
         /\ CString(line)[Len(line) + 1] = 0
         /\ \A k \in 1 .. Len(line) : CString(line)[k] = line[k]
<1>1. line \in Seq(Byte \ {0}) /\ Byte \ {0} \subseteq Byte
  BY LdpPacketAssumption DEF IInv
<1>2. line \in Seq(Byte) /\ Len(line) \in Nat
  BY <1>1, SeqMonotonic, LenProperties
<1>3. \A k \in 1 .. Len(line) : line[k] \in Byte \ {0}
  BY <1>1, ElementOfSeq
<1>4. 0 \in Byte
  BY SMT DEF Byte
<1>5. /\ Append(line, 0) \in Seq(Byte) /\ Len(Append(line, 0)) = Len(line) + 1
      /\ Append(line, 0)[Len(line) + 1] = 0
      /\ \A k \in 1 .. Len(line) : Append(line, 0)[k] = line[k]
  BY <1>2, <1>4, AppendProperties
<1> QED
  BY <1>2, <1>3, <1>5 DEF CString

\* The constructor copies the line from where the loop is.
LEMMA BuiltSpells ==
  ASSUME IInv, offset < Len(line) + 1,
         NEW p \in NewPackets(SubSeq(CString(line), offset + 1, Len(line) + 1))
  PROVE  Spells(p, offset)
<1> DEFINE rest == SubSeq(CString(line), offset + 1, Len(line) + 1)
           n    == Len(rest)
<1>1. offset \in Nat /\ Len(line) \in Nat
  BY LineBytes DEF IInv
<1>2. \A i \in offset + 1 .. Len(line) + 1 : CString(line)[i] \in Byte
  <2>1. \A i \in offset + 1 .. Len(line) + 1 : i \in 1 .. Len(CString(line))
    BY <1>1, LineBytes, SMT
  <2> QED
    BY <2>1, LineBytes, ElementOfSeq
<1>3. /\ n = Len(line) + 1 - offset
      /\ \A k \in 1 .. n : rest[k] = CString(line)[offset + k]
  <2>1. offset + 1 \in Int /\ Len(line) + 1 \in Int /\ offset + 1 <= Len(line) + 1
    BY <1>1
  <2>2. /\ Len(rest) = (Len(line) + 1) - (offset + 1) + 1
        /\ \A k \in 1 .. (Len(line) + 1) - (offset + 1) + 1 : rest[k] = CString(line)[offset + 1 + k - 1]
    BY <1>2, <2>1, SubSeqProperties
  <2>3. (Len(line) + 1) - (offset + 1) + 1 = Len(line) + 1 - offset
    BY <1>1
  <2>4. \A k \in 1 .. n : offset + 1 + k - 1 = offset + k
    BY <1>1
  <2> QED
    BY <2>2, <2>3, <2>4
<1>4. PICK t \in [n + 2 .. PayloadSize -> StaleBytes] :
         p = [isAck |-> TRUE, isSeq |-> TRUE, isTheLastPacketOfTheMessage |-> FALSE,
              seqNumber |-> 123, ackNumber |-> 789,
              payload |-> [k \in 1 .. PayloadSize |->
                             IF k <= n THEN rest[k] ELSE IF k = n + 1 THEN 0 ELSE t[k]]]
  BY DEF NewPackets
<1>5. \A k \in 1 .. PayloadSize : k <= n => p.payload[k] = rest[k]
  BY <1>4
<1> HIDE DEF rest, n
<1>6. ASSUME NEW k \in 1 .. PayloadSize, offset + k <= Len(line)
      PROVE  p.payload[k] = line[offset + k]
  <2>1. k \in 1 .. n /\ k <= n /\ offset + k \in 1 .. Len(line)
    BY <1>1, <1>3, <1>6, SMT DEF PayloadSize
  <2> QED
    BY <1>3, <1>5, <2>1, LineBytes
<1>7. ASSUME NEW k \in 1 .. PayloadSize, offset + k = Len(line) + 1
      PROVE  p.payload[k] = 0
  <2>1. k \in 1 .. n /\ k <= n
    BY <1>1, <1>3, <1>7, SMT DEF PayloadSize
  <2> QED
    BY <1>3, <1>5, <1>7, <2>1, LineBytes
<1> QED
  BY <1>6, <1>7 DEF Spells

\* A decoded packet is not the one that stands for none.
LEMMA DecodedIsSome ==
  ASSUME NEW d
  PROVE  decode(d) # NoPacket
<1>1. "isAck" \in DOMAIN decode(d) /\ "isAck" \notin DOMAIN NoPacket
  BY DEF decode, NoPacket
<1> QED
  BY <1>1

\* The loop cuts the line packet by packet.
LEMMA CutKept == IInv /\ Cut /\ [Next]_vars => Cut'
<1> SUFFICES ASSUME IInv, Cut, [Next]_vars PROVE Cut'
  OBVIOUS
<1>1. offset \in Nat /\ Len(line) \in Nat
  BY LineBytes DEF IInv
<1>2. CASE Build
  <2>1. /\ offset < Len(line) + 1 /\ phase' = "built" /\ UNCHANGED << line, offset >>
        /\ packet' \in NewPackets(SubSeq(CString(line), offset + 1, Len(line) + 1))
        /\ datagram' = << >> /\ garbled' = {} /\ received' = NoPacket
    BY <1>2 DEF Build, MoreToSend
  <2>2. Spells(packet', offset)
    BY <2>1, BuiltSpells
  <2> QED
    BY <2>1, <2>2 DEF Cut, JustDecoded, Spells
<1>3. CASE Encode
  BY <1>3 DEF Encode, Cut, JustDecoded, Spells
<1>4. CASE Garble
  BY <1>4 DEF Garble, Cut, JustDecoded, Spells
<1>5. CASE Decode
  <2>1. /\ phase = "wire" /\ phase' = "next" /\ offset' = offset + PayloadSize
        /\ received' = decode(datagram) /\ UNCHANGED << line, packet >>
    BY <1>5 DEF Decode
  <2>2. offset < Len(line) + 1 /\ Spells(packet, offset)
    BY <2>1 DEF Cut
  <2>3. offset' <= Len(line) + PayloadSize
    BY <1>1, <2>1, <2>2, SMT DEF PayloadSize
  <2>4. received' # NoPacket
    BY <2>1, DecodedIsSome
  <2>5. \A k \in 1 .. PayloadSize :
          /\ offset + k <= Len(line') => packet'.payload[k] = line'[offset + k]
          /\ offset + k = Len(line') + 1 => packet'.payload[k] = 0
    BY <2>1, <2>2 DEF Spells
  <2> QED
    BY <1>1, <2>1, <2>2, <2>3, <2>4, <2>5 DEF Cut, JustDecoded, Spells
<1>6. CASE UNCHANGED vars
  BY <1>6 DEF vars, Cut, JustDecoded, Spells
<1> QED
  BY <1>2, <1>3, <1>4, <1>5, <1>6 DEF Next, Done

\* What LineArrives rests on holds in every state.
LEMMA CutAlways == Spec => [](IInv /\ Cut)
<1>1. Init => IInv
  BY InitIInv
<1>2. Init => Cut
  <2> SUFFICES ASSUME Init PROVE Cut
    OBVIOUS
  <2>1. Len(line) \in Nat
    BY InitIInv, LineBytes
  <2>2. /\ offset = 0 /\ phase = "next" /\ received = NoPacket /\ datagram = << >> /\ garbled = {}
    BY DEF Init
  <2>3. offset <= Len(line) + PayloadSize
    BY <2>1, <2>2, SMT DEF PayloadSize
  <2> QED
    BY <2>2, <2>3 DEF Cut, JustDecoded
<1>3. IInv /\ [Next]_vars => IInv'
  BY IInvKept
<1> QED
  BY <1>1, <1>2, <1>3, CutKept, PTL DEF Spec

\* The variables have their types, whatever is garbled.
THEOREM TypeCorrect == Spec => []TypeOK
<1>1. ASSUME IInv, Cut PROVE TypeOK
  <2>1. Len(line) \in Nat
    BY <1>1, LineBytes
  <2>2. offset \in 0 .. Len(line) + PayloadSize
    BY <1>1, <2>1, SMT DEF IInv, Cut, PayloadSize
  <2>3. (datagram # << >> => datagram \in [1 .. PacketSize -> Byte]) /\ garbled \subseteq 1 .. PacketSize
    BY <1>1 DEF IInv, Cut, JustDecoded, OnTheWire, Datagrams
  <2>4. ASSUME received # NoPacket PROVE received.payload \in [1 .. PayloadSize -> Byte]
    <3>1. received = decode(datagram) /\ datagram \in Datagrams
      BY <1>1, <2>4 DEF IInv, Cut, JustDecoded, OnTheWire
    <3>2. received.payload = [k \in 1 .. PayloadSize |-> datagram[k + 7]]
      BY <3>1 DEF decode
    <3>3. \A k \in 1 .. PayloadSize : datagram[k + 7] \in Byte
      <4>1. \A k \in 1 .. PayloadSize : k + 7 \in 1 .. PacketSize
        BY SMT DEF PayloadSize, PacketSize
      <4> QED
        BY <3>1, <4>1 DEF Datagrams
    <3> QED
      BY <3>2, <3>3
  <2> QED
    BY <1>1, <2>2, <2>3, <2>4 DEF IInv, TypeOK
<1> QED
  BY <1>1, CutAlways, PTL

\* The characters before the first NUL, when there is none and when the m-th byte is it.
LEMMA CharactersAre ==
  ASSUME NEW payload \in [1 .. PayloadSize -> Byte], NEW m \in 1 .. PayloadSize + 1,
         \A k \in 1 .. PayloadSize : k < m => payload[k] # 0,
         m <= PayloadSize => payload[m] = 0
  PROVE  Characters(payload) = SubSeq(payload, 1, m - 1)
<1> DEFINE Nuls == { k \in 1 .. PayloadSize : payload[k] = 0 }
           End  == IF Nuls = {} THEN PayloadSize + 1
                   ELSE CHOOSE k \in Nuls : \A i \in Nuls : k <= i
<1>0. Characters(payload) = SubSeq(payload, 1, End - 1)
  BY DEF Characters
<1>1. m \in Nat /\ 1 <= m /\ m <= 9
  BY SMT DEF PayloadSize
<1>2. \A k \in Nuls : k \in Nat /\ m <= k /\ k <= 8
  BY <1>1, SMT DEF PayloadSize
<1>3. CASE m = PayloadSize + 1
  <2>1. Nuls = {}
    BY <1>2, <1>3, SMT DEF PayloadSize
  <2> QED
    BY <1>0, <1>3, <2>1
<1>4. CASE m # PayloadSize + 1
  <2>1. m \in Nuls
    BY <1>1, <1>4, SMT DEF PayloadSize
  <2> HIDE DEF Nuls
  <2>2. \A k \in Nuls : (\A i \in Nuls : k <= i) => k = m
    BY <1>1, <1>2, <2>1, SMT
  <2>3. \A i \in Nuls : m <= i
    BY <1>2
  <2>4. (CHOOSE k \in Nuls : \A i \in Nuls : k <= i) = m
    BY <2>1, <2>2, <2>3, Zenon
  <2>5. End = m
    BY <2>1, <2>4
  <2> QED
    BY <1>0, <2>5
<1> QED
  BY <1>3, <1>4

\* The packets carry every character of the line once and in order, and the last of them,
\* and no other, the NUL: whatever follows it, and whatever the line.
THEOREM LineArrives == Spec => []TextArrives
<1>1. ASSUME IInv, Cut, RoundTrip PROVE TextArrives
  <2> SUFFICES ASSUME JustDecoded, garbled = {}
               PROVE  /\ Characters(received.payload) = Piece
                      /\ MoreToSend <=> (\A k \in 1 .. PayloadSize : received.payload[k] # 0)
    BY DEF TextArrives
  <2> USE <1>1
  <2> DEFINE payload == received.payload
  <2>1. packet \in Packet /\ packet.payload \in [1 .. PayloadSize -> Byte]
    BY DEF IInv, OnTheWire, Packet
  <2>2. payload = packet.payload
    <3>1. "payload" \in DOMAIN packet
      BY <2>1 DEF Packet
    <3>2. received["payload"] = packet["payload"]
      BY <3>1 DEF RoundTrip
    <3> QED
      BY <3>2
  <2>3. PICK start \in Nat : /\ offset = start + PayloadSize /\ start < Len(line) + 1
                             /\ Spells(packet, start)
    BY DEF Cut
  <2>4. /\ payload \in [1 .. PayloadSize -> Byte]
        /\ \A k \in 1 .. PayloadSize : start + k <= Len(line) => payload[k] = line[start + k]
        /\ \A k \in 1 .. PayloadSize : start + k = Len(line) + 1 => payload[k] = 0
    BY <2>1, <2>2, <2>3 DEF Spells
  <2> HIDE DEF payload
  <2>5. Len(line) \in Nat /\ start \in Nat /\ start <= Len(line) /\ offset = start + 8
    BY <2>3, LineBytes, SMT DEF PayloadSize
  <2>6. \A k \in 1 .. PayloadSize : start + k <= Len(line) =>
          payload[k] # 0 /\ payload[k] = line[start + k] /\ line[start + k] \in Byte
    <3>1. \A k \in 1 .. PayloadSize : start + k <= Len(line) => start + k \in 1 .. Len(line)
      BY <2>5, SMT DEF PayloadSize
    <3> QED
      BY <2>4, <3>1, LineBytes
  <2> DEFINE n == IF MoreToSend THEN 8 ELSE Len(line) - start
  <2>7. n \in 0 .. 8 /\ start + n <= Len(line) /\ (MoreToSend <=> n = 8)
    BY <2>5, SMT DEF MoreToSend
  <2>8. ~ MoreToSend => start + n = Len(line)
    BY <2>5
  <2>9. Piece = SubSeq(line, start + 1, start + n)
    <3>1. (IF MoreToSend THEN offset ELSE Len(line)) = start + n
      BY <2>5
    <3>2. offset - PayloadSize + 1 = start + 1
      BY <2>5, SMT DEF PayloadSize
    <3> QED
      BY <3>1, <3>2 DEF Piece
  <2> HIDE DEF n
  <2>10. n + 1 \in 1 .. PayloadSize + 1
    BY <2>7, SMT DEF PayloadSize
  <2>11. \A k \in 1 .. PayloadSize : k < n + 1 => payload[k] # 0
    <3>1. \A k \in 1 .. PayloadSize : k < n + 1 => start + k <= Len(line)
      BY <2>5, <2>7, SMT DEF PayloadSize
    <3> QED
      BY <2>6, <3>1
  <2>12. n + 1 <= PayloadSize => payload[n + 1] = 0
    <3>1. n + 1 <= PayloadSize => n + 1 \in 1 .. PayloadSize /\ start + (n + 1) = Len(line) + 1
      BY <2>5, <2>7, <2>8, SMT DEF PayloadSize
    <3> QED
      BY <2>4, <3>1
  <2>13. Characters(payload) = SubSeq(payload, 1, (n + 1) - 1)
    BY <2>4, <2>10, <2>11, <2>12, CharactersAre
  <2>14. (n + 1) - 1 = n
    BY <2>7
  <2>15. /\ SubSeq(payload, 1, n) \in Seq(Byte) /\ Len(SubSeq(payload, 1, n)) = n
         /\ \A i \in 1 .. n : SubSeq(payload, 1, n)[i] = payload[i]
    <3>1. n \in Int /\ \A i \in 1 .. n : i \in 1 .. PayloadSize
      BY <2>7, SMT DEF PayloadSize
    <3>2. \A i \in 1 .. n : payload[i] \in Byte
      BY <2>4, <3>1
    <3>3. /\ SubSeq(payload, 1, n) \in Seq(Byte)
          /\ Len(SubSeq(payload, 1, n)) = IF 1 <= n THEN n - 1 + 1 ELSE 0
          /\ \A i \in 1 .. n - 1 + 1 : SubSeq(payload, 1, n)[i] = payload[1 + i - 1]
      BY <3>1, <3>2, SubSeqProperties
    <3>4. (IF 1 <= n THEN n - 1 + 1 ELSE 0) = n /\ n - 1 + 1 = n /\ \A i \in 1 .. n : 1 + i - 1 = i
      BY <2>7
    <3> QED
      BY <3>3, <3>4
  <2>16. /\ SubSeq(line, start + 1, start + n) \in Seq(Byte)
         /\ Len(SubSeq(line, start + 1, start + n)) = n
         /\ \A i \in 1 .. n : SubSeq(line, start + 1, start + n)[i] = line[start + i]
    <3>1. start + 1 \in Int /\ start + n \in Int
      BY <2>5, <2>7
    <3>2. \A i \in start + 1 .. start + n : line[i] \in Byte
      <4>1. \A i \in start + 1 .. start + n : i \in 1 .. Len(line)
        BY <2>5, <2>7
      <4> QED
        BY <4>1, LineBytes
    <3>3. /\ SubSeq(line, start + 1, start + n) \in Seq(Byte)
          /\ Len(SubSeq(line, start + 1, start + n)) =
               IF start + 1 <= start + n THEN (start + n) - (start + 1) + 1 ELSE 0
          /\ \A i \in 1 .. (start + n) - (start + 1) + 1 :
               SubSeq(line, start + 1, start + n)[i] = line[(start + 1) + i - 1]
      BY <3>1, <3>2, SubSeqProperties
    <3>4. /\ (IF start + 1 <= start + n THEN (start + n) - (start + 1) + 1 ELSE 0) = n
          /\ (start + n) - (start + 1) + 1 = n /\ \A i \in 1 .. n : (start + 1) + i - 1 = start + i
      BY <2>5, <2>7
    <3> QED
      BY <3>3, <3>4
  <2>17. \A i \in 1 .. n : payload[i] = line[start + i]
    <3>1. \A i \in 1 .. n : i \in 1 .. PayloadSize /\ start + i <= Len(line)
      BY <2>5, <2>7, SMT DEF PayloadSize
    <3> QED
      BY <2>4, <3>1
  <2>18. SubSeq(payload, 1, n) = SubSeq(line, start + 1, start + n)
    BY <2>15, <2>16, <2>17, SeqEqual
  <2>19. Characters(payload) = Piece
    BY <2>9, <2>13, <2>14, <2>18
  <2>20. MoreToSend <=> (\A k \in 1 .. PayloadSize : payload[k] # 0)
    <3>1. CASE n = 8
      <4>1. \A k \in 1 .. PayloadSize : k < n + 1
        BY <3>1, SMT DEF PayloadSize
      <4> QED
        BY <2>7, <2>11, <3>1, <4>1
    <3>2. CASE n # 8
      <4>1. n + 1 <= PayloadSize /\ n + 1 \in 1 .. PayloadSize
        BY <2>7, <3>2, SMT DEF PayloadSize
      <4> QED
        BY <2>7, <2>12, <3>2, <4>1
    <3> QED
      BY <3>1, <3>2
  <2> QED
    BY <2>19, <2>20 DEF payload
<1> QED
  BY <1>1, CutAlways, UndisturbedPacketsArrive, PTL

=============================================================================
