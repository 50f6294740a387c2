------------------------------ MODULE LdpPacket ------------------------------
(***************************************************************************)
(* class LDPPacket: how one line of text becomes datagrams of 15 bytes and *)
(* how a datagram becomes a packet again.                                  *)
(*                                                                         *)
(*   bytes 1..2   checksum        (network order, htons)                   *)
(*   byte  3      flags           (isAck, isSeq, last packet of message)   *)
(*   bytes 4..5   seqNumber       bytes 6..7  ackNumber                    *)
(*   bytes 8..15  payload                                                  *)
(*                                                                         *)
(* The body is the 13 bytes the checksum is computed over, bytes 3..15.    *)
(* calculateChecksum loads the body as 16 bit words in the order of the    *)
(* machine, little endian on the x86-64 the committed binaries are for.    *)
(***************************************************************************)
EXTENDS Integers, Sequences, FiniteSets

CONSTANTS Lines,       \* the lines of text to send, sequences of non-zero bytes
          StaleBytes,  \* what an uninitialised byte of a payload may hold
          NoiseBytes,  \* the values the network may put in place of a byte
          MaxGarbled   \* how many bytes of one datagram the network garbles

Byte        == 0 .. 255
WordSize    == 65536          \* 2^16, the values of an uint16_t
PayloadSize == 8
BodySize    == 13
PacketSize  == 15             \* LDP_PACKET_SIZE

ASSUME LdpPacketAssumption ==
  /\ \A l \in Lines : l \in Seq(Byte \ {0})
  /\ StaleBytes \subseteq Byte /\ StaleBytes # {}
  /\ NoiseBytes \subseteq Byte
  /\ MaxGarbled \in Nat

-----------------------------------------------------------------------------
(* The checksum *)

WordAt(body, j) == body[2*j - 1] + 256 * body[2*j]

\* Variant of BodySum: the loop stops one word too early.
BodySum_OneWordShort(body) ==
  WordAt(body, 1) + WordAt(body, 2) + WordAt(body, 3) + WordAt(body, 4)
    + WordAt(body, 5) + body[1]

\* After the six whole words one byte of the body is left over.  The code adds
\* ((uint8_t *) data)[n - 1] with n = 1, which is the FIRST byte of the body.
BodySum(body) ==
  WordAt(body, 1) + WordAt(body, 2) + WordAt(body, 3) + WordAt(body, 4)
    + WordAt(body, 5) + WordAt(body, 6) + body[1]

FoldOnce(sum) == (sum % WordSize) + (sum \div WordSize)

\* The loop "while (sum >> 16)": a sum of six words and a byte is folded at most
\* twice, and folding a sum below 2^16 changes nothing.
Fold(sum) == FoldOnce(FoldOnce(sum))

calculateChecksum(body) == (WordSize - 1) - Fold(BodySum(body))

-----------------------------------------------------------------------------
(* Building, encoding and decoding a packet *)

High(w) == w \div 256
Low(w)  == w % 256
Bit(b)  == IF b THEN 1 ELSE 0

\* LDPPacket(message, n): every packet has the same flags and numbers.  The
\* payload is the first 8 bytes of the rest of the line; a shorter rest is
\* followed by one more NUL, and the bytes after that are never written.
NewPackets(rest) ==
  LET n     == Len(rest)
      Stale == [n + 2 .. PayloadSize -> StaleBytes]
  IN { [isAck |-> TRUE, isSeq |-> TRUE, isTheLastPacketOfTheMessage |-> FALSE,
        seqNumber |-> 123, ackNumber |-> 789,
        payload |-> [k \in 1 .. PayloadSize |->
                       IF k <= n THEN rest[k] ELSE IF k = n + 1 THEN 0 ELSE t[k]]]
       : t \in Stale }

Flags(p) == Bit(p.isAck) + 2 * Bit(p.isSeq) + 4 * Bit(p.isTheLastPacketOfTheMessage)

Body(p) == << Flags(p), High(p.seqNumber), Low(p.seqNumber),
              High(p.ackNumber), Low(p.ackNumber) >> \o p.payload

encode(p) ==
  LET checksum == calculateChecksum(Body(p))
  IN  << High(checksum), Low(checksum) >> \o Body(p)

\* The 13 bytes of a datagram after its checksum.
BodyOf(d) == [k \in 1 .. BodySize |-> d[k + 2]]

\* Variant of WordFrom: ntohs is forgotten.
WordFrom_HostOrder(d, k) == d[k] + 256 * d[k + 1]

\* ntohs of the two bytes from position k on
WordFrom(d, k) == 256 * d[k] + d[k + 1]

IsCorrupted(d) == WordFrom(d, 1) # calculateChecksum(BodyOf(d))

decode(d) ==
  [ isAck |-> d[3] % 2 = 1, isSeq |-> (d[3] \div 2) % 2 = 1,
    isTheLastPacketOfTheMessage |-> (d[3] \div 4) % 2 = 1,
    seqNumber |-> WordFrom(d, 4), ackNumber |-> WordFrom(d, 6),
    payload |-> [k \in 1 .. PayloadSize |-> d[k + 7]],
    isCorrupted |-> IsCorrupted(d) ]

-----------------------------------------------------------------------------
(* Sending one line: the loop of LDP::send, each packet encoded, perhaps     *)
(* garbled on its way, and decoded on the other side.                        *)

VARIABLES
  phase,     \* where the packet at hand is
  line,      \* the line typed by the user
  offset,    \* i of the loop in LDP::send
  packet,    \* the packet built from it
  datagram,  \* its bytes on the wire
  garbled,   \* the positions of datagram the network has changed
  received   \* the packet decoded, with its isCorrupted flag

vars == << phase, line, offset, packet, datagram, garbled, received >>

NoPacket == [payload |-> << >>]

\* c_str() of the line: its characters and the NUL.
CString(l) == Append(l, 0)

Init ==
  /\ phase = "next" /\ offset = 0
  /\ line \in Lines
  /\ packet = NoPacket /\ datagram = << >> /\ garbled = {} /\ received = NoPacket

\* Variants of MoreToSend: the NUL is not sent, or one byte too many is.
MoreToSend_NoNul     == offset < Len(line)
MoreToSend_OffByOne  == offset <= Len(line) + 1

\* i < message.length() + 1
MoreToSend == offset < Len(line) + 1

Build ==
  /\ phase = "next" /\ MoreToSend
  /\ packet' \in NewPackets(SubSeq(CString(line), offset + 1, Len(line) + 1))
  /\ datagram' = << >> /\ garbled' = {} /\ received' = NoPacket
  /\ phase' = "built"
  /\ UNCHANGED << line, offset >>

Encode ==
  /\ phase = "built"
  /\ datagram' = encode(packet)
  /\ phase' = "wire"
  /\ UNCHANGED << line, offset, packet, garbled, received >>

\* External: troll replaces a byte of the datagram by another one.
Garble ==
  /\ phase = "wire" /\ Cardinality(garbled) < MaxGarbled
  /\ \E k \in (1 .. PacketSize) \ garbled, b \in NoiseBytes :
       /\ b # datagram[k]
       /\ datagram' = [datagram EXCEPT ![k] = b]
       /\ garbled' = garbled \cup {k}
  /\ UNCHANGED << phase, line, offset, packet, received >>

Decode ==
  /\ phase = "wire"
  /\ received' = decode(datagram)
  /\ offset' = offset + PayloadSize
  /\ phase' = "next"
  /\ UNCHANGED << line, packet, datagram, garbled >>

\* LDP::send returns.
Done == phase = "next" /\ ~MoreToSend /\ UNCHANGED vars

Next == Build \/ Encode \/ Garble \/ Decode \/ Done

Spec == Init /\ [][Next]_vars

-----------------------------------------------------------------------------
(* Properties *)

\* The variables have their types: every byte of a datagram is a byte.
TypeOK ==
  /\ phase \in {"next", "built", "wire"}
  /\ line \in Lines
  /\ offset \in 0 .. Len(line) + PayloadSize
  /\ datagram # << >> => datagram \in [1 .. PacketSize -> Byte]
  /\ garbled \subseteq 1 .. PacketSize
  /\ received # NoPacket => received.payload \in [1 .. PayloadSize -> Byte]

JustDecoded == phase = "next" /\ received # NoPacket

\* encode and decode are inverse: a datagram nothing has changed is accepted by
\* the checksum test of the receiver, and all its fields are those of the packet
\* that was sent, whatever the uninitialised bytes of the payload hold.
RoundTrip ==
  JustDecoded /\ garbled = {} =>
    /\ ~received.isCorrupted
    /\ \A f \in DOMAIN packet : received[f] = packet[f]

\* The bytes the checksum protects: all but the last byte of the payload.
Protected == 1 .. PacketSize - 1

\* One wrong byte, in the checksum, the flags, the numbers or the first seven
\* bytes of the payload, and decode marks the packet as corrupted.
SingleGarbleCaught ==
  JustDecoded /\ (\E k \in Protected : garbled = {k}) => received.isCorrupted

\* What calculateChecksum says of the byte its loop leaves over ("Add left-over
\* byte, if any"): a wrong last byte of the payload is caught like any other.
LeftOverByteCaught ==
  JustDecoded /\ garbled = {PacketSize} => received.isCorrupted

\* The characters of a payload before its first NUL.
Characters(payload) ==
  LET Nuls == { k \in 1 .. PayloadSize : payload[k] = 0 }
      End  == IF Nuls = {} THEN PayloadSize + 1
              ELSE CHOOSE k \in Nuls : \A m \in Nuls : k <= m
  IN  SubSeq(payload, 1, End - 1)

\* The part of the line that the packet at hand carries, when the loop has moved
\* on from it.
Piece == SubSeq(line, offset - PayloadSize + 1, IF MoreToSend THEN offset ELSE Len(line))

\* The loop of LDP::send cuts the line so that the packets carry every one of
\* its characters once and in order, and the terminating NUL is in the last
\* packet and in no other: an undisturbed packet spells its piece of the line,
\* whatever follows the NUL, and the loop ends with the packet that says where the
\* line ends.
TextArrives ==
  JustDecoded /\ garbled = {} =>
    /\ Characters(received.payload) = Piece
    /\ MoreToSend <=> (\A k \in 1 .. PayloadSize : received.payload[k] # 0)

=============================================================================
