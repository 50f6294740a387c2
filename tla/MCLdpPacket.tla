---------------------------- MODULE MCLdpPacket ----------------------------
(* Model-checking instances of LdpPacket. *)
EXTENDS LdpPacket

\* A line whose bytes are all different, so that a byte that is moved shows.
Counting(n) == [k \in 1 .. n |-> 64 + k]

\* A line of the highest bytes, whose sum carries most.
Highest(n) == [k \in 1 .. n |-> 255]

\* Lengths on both sides of one, two and three payloads, NUL included.
Lengths == {0, 1, 6, 7, 8, 9, 15, 16, 17, 23, 24}

WireLines == { Counting(n) : n \in Lengths } \cup { Highest(n) : n \in {5, 7} }
WireStale == {0, 90}
WireNoise == {0, 1, 2, 64, 127, 128, 254, 255}
=============================================================================
