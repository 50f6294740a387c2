---------------------------- MODULE LdpChatProofs ----------------------------
(***************************************************************************)
(* The safety of a chat, for every number of packets, every capacity of    *)
(* the windows, queues and sockets and every number of faults; and that a  *)
(* chat the network does no harm to is a pipe in each direction.           *)
(*                                                                         *)
(* A direction of the chat is named by the endpoint that sends.  What it   *)
(* has sent lies in five lanes, the oldest packets in the first, and every *)
(* step adds a packet to the window, moves the first packet of the window  *)
(* or of a lane on to the next, loses it, or is a fault of the network.    *)
(***************************************************************************)
EXTENDS LdpChat, SequenceTheorems, TLAPS

Lanes == 1 .. 5
Lane(e) == << printed[Other(e)], queue[Other(e)], hand[Other(e)], socket[Other(e)],
              network[e] >>
Way(e) == [made |-> made[e], window |-> window[e], lane |-> Lane(e), lost |-> lost[e]]

\* The packets in the lanes are in the order they were made: those further on in a
\* lane, and those in the lanes behind it, have higher numbers.
Sorted(L) ==
  \A a, b \in Lanes : \A i \in 1 .. Len(L[a]), j \in 1 .. Len(L[b]) :
    a < b \/ (a = b /\ i < j) => L[a][i].packet < L[b][j].packet

-----------------------------------------------------------------------------
(* The inductive invariant. *)

\* Every variable is a function on the endpoints.
Reasons == {"astray", "unreceived", "dropped", "corrupted"}
AnyDatagram == [packet : Nat, damage : Damages]
Shape ==
  /\ status \in [Endpoints -> {"off", "running", "exited"}]
  /\ setUp \in [Endpoints -> Outcomes] /\ \A e \in Endpoints : setUp[e] \in SetUps[e]
  /\ peer \in [Endpoints -> {"set", "unset"}]
  /\ faults \in 0 .. MaxFaults
  /\ made \in [Endpoints -> Nat] /\ window \in [Endpoints -> Seq(Nat)]
  /\ lost \in [Endpoints -> SUBSET [packet : Nat, why : Reasons]]
  /\ \A f \in {hand, queue, printed, network, socket} : f \in [Endpoints -> Seq(AnyDatagram)]

\* Who has received anything, a damaged packet included, has an address, and so has who
\* looked one up; who has no socket receives nothing and never has one.
Addressed ==
  \A e \in Endpoints :
    /\ peer[e] = "unset" => /\ setUp[e] # "known" /\ hand[e] = << >>
                            /\ queue[e] = << >> /\ printed[e] = << >>
    /\ setUp[e] = "unbound" => peer[e] = "unset" /\ socket[e] = << >>
    /\ status[e] = "exited" => peer[e] = "unset"

\* No container holds more than it may.
Bounded ==
  \A e \in Endpoints :
    /\ made[e] <= MaxPackets[e] /\ Len(window[e]) <= WindowCapacity
    /\ Len(hand[e]) <= 1 /\ Len(queue[e]) <= QueueCapacity /\ Len(socket[e]) <= SocketSize

\* The rest is said of a direction of the chat, given as the record Way(e): of the
\* packets made, so many have left the window.
Passed(s) == s.made - Len(s.window)

\* The window holds the last packets made, in order.
Windowed(s) ==
  /\ Len(s.window) <= s.made
  /\ \A i \in 1 .. Len(s.window) : s.window[i] = Passed(s) + i

\* Each packet that has left the window is in a lane or lost, and nothing else is.
Sent(L)    == { n \in Nat : \E a \in Lanes : \E i \in 1 .. Len(L[a]) : L[a][i].packet = n }
NumbersOf(S) == { l.packet : l \in S }
Traced(s)  == 1 .. Passed(s) = Sent(s.lane) \cup NumbersOf(s.lost)

\* There are as many copies as packets and repetitions at most.
Total(L)      == Len(L[1]) + Len(L[2]) + Len(L[3]) + Len(L[4]) + Len(L[5])
Counted(s, k) == Total(s.lane) <= Passed(s) + k

\* No packet is lost for a reason that cannot have been, set-up having come to u.
Reasoned(u, s, k) ==
  \A l \in s.lost : /\ l.why = "astray" => u = "unknown"
                    /\ l.why \in {"dropped", "corrupted"} => k > 0

\* What the receiver thread has passed is not of what the checksum catches; and as
\* long as the network does no harm, packets are whole and in order.
Checked(s, k) ==
  /\ \A a \in 1 .. 3 : \A i \in 1 .. Len(s.lane[a]) : s.lane[a][i].damage # "caught"
  /\ k = 0 =>
       /\ \A a \in Lanes : \A i \in 1 .. Len(s.lane[a]) : s.lane[a][i].damage = "none"
       /\ Sorted(s.lane)

WayInv(u, s, k) ==
  Windowed(s) /\ Traced(s) /\ Counted(s, k) /\ Reasoned(u, s, k) /\ Checked(s, k)

IInv == Shape /\ Addressed /\ Bounded /\ \A e \in Endpoints : WayInv(setUp[e], Way(e), faults)

-----------------------------------------------------------------------------
(* Lanes: what happens to the packets when one moves on or is lost. *)

Lanewise(L, D) == \A a \in Lanes : L[a] \in Seq(D)

\* Every packet in the lanes M was in the lanes L, and every one of L except the first
\* of lane b, when there is one to leave out, is in M.
Stems(L, M) ==
  \A a \in Lanes : \A i \in 1 .. Len(M[a]) :
    \E b \in Lanes : \E j \in 1 .. Len(L[b]) : M[a][i] = L[b][j]

\* The first packet of lane c + 1 goes to the end of lane c.
Moves(L, M, c) ==
  /\ L[c + 1] # << >>
  /\ M[c] = Append(L[c], Head(L[c + 1])) /\ M[c + 1] = Tail(L[c + 1])
  /\ \A a \in Lanes \ {c, c + 1} : M[a] = L[a]

\* The first packet of lane c is taken out.
Leaves(L, M, c) ==
  /\ L[c] # << >> /\ M[c] = Tail(L[c])
  /\ \A a \in Lanes \ {c} : M[a] = L[a]

\* The same, place by place.
MovedOn(L, M, c) ==
  /\ Len(M[c]) = Len(L[c]) + 1 /\ M[c][Len(L[c]) + 1] = L[c + 1][1]
  /\ \A i \in 1 .. Len(L[c]) : M[c][i] = L[c][i]
  /\ Len(L[c + 1]) \in Nat \ {0} /\ Len(M[c + 1]) = Len(L[c + 1]) - 1
  /\ \A i \in 1 .. Len(L[c + 1]) - 1 : M[c + 1][i] = L[c + 1][i + 1]
  /\ \A a \in Lanes \ {c, c + 1} : M[a] = L[a]
  /\ \A a \in Lanes : Len(L[a]) \in Nat /\ Len(M[a]) \in Nat

LeftOut(L, M, c) ==
  /\ L[c][1] = Head(L[c])
  /\ Len(L[c]) \in Nat \ {0} /\ Len(M[c]) = Len(L[c]) - 1
  /\ \A i \in 1 .. Len(L[c]) - 1 : M[c][i] = L[c][i + 1]
  /\ \A a \in Lanes \ {c} : M[a] = L[a]
  /\ \A a \in Lanes : Len(L[a]) \in Nat /\ Len(M[a]) \in Nat

\* The first element of a sequence and the rest of it.
LEMMA HeadTail ==
  ASSUME NEW D, NEW s \in Seq(D), s # << >>
  PROVE  /\ Head(s) = s[1] /\ Head(s) \in D /\ Tail(s) \in Seq(D)
         /\ Len(s) \in Nat \ {0} /\ Len(Tail(s)) = Len(s) - 1
         /\ \A i \in 1 .. Len(s) - 1 : Tail(s)[i] = s[i + 1]
BY HeadTailProperties, EmptySeq

\* A sequence with one element more.
LEMMA Appended ==
  ASSUME NEW D, NEW s \in Seq(D), NEW d \in D
  PROVE  /\ Append(s, d) \in Seq(D) /\ Len(Append(s, d)) = Len(s) + 1 /\ Len(s) \in Nat
         /\ Append(s, d)[Len(s) + 1] = d
         /\ \A i \in 1 .. Len(s) : Append(s, d)[i] = s[i]
BY AppendProperties, LenProperties

\* What Moves says of the lanes, said position by position.
LEMMA MoveFacts ==
  ASSUME NEW D, NEW L, NEW M, Lanewise(L, D), NEW c \in 1 .. 4, Moves(L, M, c)
  PROVE  Lanewise(M, D) /\ MovedOn(L, M, c)
<1>1. c \in Lanes /\ c + 1 \in Lanes
  BY DEF Lanes
<1>2. L[c] \in Seq(D) /\ L[c + 1] \in Seq(D) /\ L[c + 1] # << >>
  BY <1>1 DEF Lanewise, Moves
<1>3. /\ Head(L[c + 1]) = L[c + 1][1] /\ Head(L[c + 1]) \in D /\ M[c + 1] \in Seq(D)
      /\ Len(L[c + 1]) \in Nat \ {0} /\ Len(M[c + 1]) = Len(L[c + 1]) - 1
      /\ \A i \in 1 .. Len(L[c + 1]) - 1 : M[c + 1][i] = L[c + 1][i + 1]
  BY <1>2, HeadTail DEF Moves
<1>4. /\ M[c] \in Seq(D) /\ Len(M[c]) = Len(L[c]) + 1 /\ M[c][Len(L[c]) + 1] = L[c + 1][1]
      /\ \A i \in 1 .. Len(L[c]) : M[c][i] = L[c][i]
  BY <1>2, <1>3, Appended DEF Moves
<1>5. \A a \in Lanes \ {c, c + 1} : M[a] = L[a]
  BY DEF Moves
<1>6. Lanewise(M, D)
  BY <1>3, <1>4, <1>5 DEF Lanewise
<1>7. \A a \in Lanes : Len(L[a]) \in Nat /\ Len(M[a]) \in Nat
  BY <1>6, LenProperties DEF Lanewise
<1> QED
  BY <1>3, <1>4, <1>5, <1>6, <1>7 DEF MovedOn

\* What Leaves says of the lanes, said position by position.
LEMMA LeaveFacts ==
  ASSUME NEW D, NEW L, NEW M, Lanewise(L, D), NEW c \in Lanes, Leaves(L, M, c)
  PROVE  Lanewise(M, D) /\ LeftOut(L, M, c)
<1>1. L[c] \in Seq(D) /\ L[c] # << >>
  BY DEF Lanewise, Leaves
<1>2. /\ L[c][1] = Head(L[c]) /\ M[c] \in Seq(D)
      /\ Len(L[c]) \in Nat \ {0} /\ Len(M[c]) = Len(L[c]) - 1
      /\ \A i \in 1 .. Len(L[c]) - 1 : M[c][i] = L[c][i + 1]
  BY <1>1, HeadTail DEF Leaves
<1>3. \A a \in Lanes \ {c} : M[a] = L[a]
  BY DEF Leaves
<1>4. Lanewise(M, D)
  BY <1>2, <1>3 DEF Lanewise
<1>5. \A a \in Lanes : Len(L[a]) \in Nat /\ Len(M[a]) \in Nat
  BY <1>4, LenProperties DEF Lanewise
<1> QED
  BY <1>2, <1>3, <1>4, <1>5 DEF LeftOut

\* Moving a packet on makes no packet and loses none.
LEMMA MoveStems ==
  ASSUME NEW L, NEW M, NEW c \in 1 .. 4, MovedOn(L, M, c)
  PROVE  Stems(L, M) /\ Stems(M, L)
<1>1. Stems(L, M)
  <2> SUFFICES ASSUME NEW a \in Lanes, NEW i \in 1 .. Len(M[a])
               PROVE  \E b \in Lanes : \E j \in 1 .. Len(L[b]) : M[a][i] = L[b][j]
    BY DEF Stems
  <2>1. CASE a = c /\ i = Len(L[c]) + 1
    <3>1. c + 1 \in Lanes
      BY DEF Lanes
    <3>2. 1 \in 1 .. Len(L[c + 1]) /\ M[a][i] = L[c + 1][1]
      BY <2>1 DEF MovedOn
    <3> QED
      BY <3>1, <3>2
  <2>2. CASE a = c /\ i # Len(L[c]) + 1
    <3>1. Len(L[c]) \in Nat /\ Len(M[c]) = Len(L[c]) + 1
      BY <2>2 DEF MovedOn
    <3>2. i \in 1 .. Len(L[c])
      BY <2>2, <3>1
    <3>3. M[a][i] = L[c][i]
      BY <2>2, <3>2 DEF MovedOn
    <3> QED
      BY <2>2, <3>2, <3>3
  <2>3. CASE a = c + 1
    <3>1. Len(L[a]) \in Nat \ {0} /\ Len(M[a]) = Len(L[a]) - 1
      BY <2>3 DEF MovedOn
    <3>2. i + 1 \in 1 .. Len(L[a]) /\ i \in 1 .. Len(L[a]) - 1
      BY <3>1
    <3>3. M[a][i] = L[a][i + 1]
      BY <2>3, <3>2 DEF MovedOn
    <3> QED
      BY <3>2, <3>3
  <2>4. CASE a \notin {c, c + 1}
    BY <2>4 DEF MovedOn
  <2> QED
    BY <2>1, <2>2, <2>3, <2>4
<1>2. Stems(M, L)
  <2> SUFFICES ASSUME NEW b \in Lanes, NEW j \in 1 .. Len(L[b])
               PROVE  \E a \in Lanes : \E i \in 1 .. Len(M[a]) : L[b][j] = M[a][i]
    BY DEF Stems
  <2>1. CASE b = c
    <3>1. j \in 1 .. Len(M[c]) /\ M[c][j] = L[b][j]
      BY <2>1 DEF MovedOn, Lanes
    <3> QED
      BY <2>1, <3>1
  <2>2. CASE b = c + 1 /\ j = 1
    <3>1. c \in Lanes /\ Len(L[c]) + 1 \in 1 .. Len(M[c]) /\ M[c][Len(L[c]) + 1] = L[b][j]
      BY <2>2 DEF MovedOn, Lanes
    <3> QED
      BY <3>1
  <2>3. CASE b = c + 1 /\ j # 1
    <3>1. j - 1 \in 1 .. Len(M[b]) /\ M[b][j - 1] = L[b][(j - 1) + 1] /\ (j - 1) + 1 = j
      BY <2>3 DEF MovedOn, Lanes
    <3> QED
      BY <3>1
  <2>4. CASE b \notin {c, c + 1}
    BY <2>4 DEF MovedOn
  <2> QED
    BY <2>1, <2>2, <2>3, <2>4
<1> QED
  BY <1>1, <1>2

\* Taking a packet off its lane makes no packet and loses no other.
LEMMA LeaveStems ==
  ASSUME NEW L, NEW M, NEW c \in Lanes, LeftOut(L, M, c)
  PROVE  /\ Stems(L, M)
         /\ \A b \in Lanes : \A j \in 1 .. Len(L[b]) :
              \/ b = c /\ j = 1
              \/ \E a \in Lanes : \E i \in 1 .. Len(M[a]) : L[b][j] = M[a][i]
<1>0. Len(L[c]) \in Nat \ {0} /\ Len(M[c]) = Len(L[c]) - 1
  BY DEF LeftOut
<1>1. Stems(L, M)
  <2> SUFFICES ASSUME NEW a \in Lanes, NEW i \in 1 .. Len(M[a])
               PROVE  \E b \in Lanes : \E j \in 1 .. Len(L[b]) : M[a][i] = L[b][j]
    BY DEF Stems
  <2>1. CASE a = c
    <3>1. i + 1 \in 1 .. Len(L[a]) /\ i \in 1 .. Len(L[a]) - 1
      BY <1>0, <2>1
    <3>2. M[a][i] = L[a][i + 1]
      BY <2>1, <3>1 DEF LeftOut
    <3> QED
      BY <3>1, <3>2
  <2>2. CASE a # c
    BY <2>2 DEF LeftOut
  <2> QED
    BY <2>1, <2>2
<1>2. ASSUME NEW b \in Lanes, NEW j \in 1 .. Len(L[b]), ~ (b = c /\ j = 1)
      PROVE  \E a \in Lanes : \E i \in 1 .. Len(M[a]) : L[b][j] = M[a][i]
  <2>1. CASE b = c
    <3>1. j - 1 \in 1 .. Len(M[b]) /\ j - 1 \in 1 .. Len(L[b]) - 1 /\ (j - 1) + 1 = j
      BY <1>0, <1>2, <2>1
    <3>2. M[b][j - 1] = L[b][(j - 1) + 1]
      BY <2>1, <3>1 DEF LeftOut
    <3> QED
      BY <3>1, <3>2
  <2>2. CASE b # c
    BY <2>2 DEF LeftOut
  <2> QED
    BY <2>1, <2>2
<1> QED
  BY <1>1, <1>2

\* Neither step changes the order of the packets.
LEMMA MoveSorted ==
  ASSUME NEW L, NEW M, NEW c \in 1 .. 4, MovedOn(L, M, c), Sorted(L)
  PROVE  Sorted(M)
<1> SUFFICES ASSUME NEW a \in Lanes, NEW b \in Lanes,
                    NEW i \in 1 .. Len(M[a]), NEW j \in 1 .. Len(M[b]),
                    a < b \/ (a = b /\ i < j)
             PROVE  M[a][i].packet < M[b][j].packet
  BY DEF Sorted
\* Where each of the two packets comes from.
<1>1. ASSUME NEW x \in Lanes, NEW k \in 1 .. Len(M[x])
      PROVE  \E y \in Lanes : \E m \in 1 .. Len(L[y]) :
               /\ M[x][k] = L[y][m]
               /\ \/ x = c /\ y = c /\ m = k /\ k <= Len(L[c])
                  \/ x = c /\ y = c + 1 /\ m = 1 /\ k = Len(L[c]) + 1
                  \/ x = c + 1 /\ y = c + 1 /\ m = k + 1
                  \/ x \notin {c, c + 1} /\ y = x /\ m = k
  <2>1. CASE x = c /\ k = Len(L[c]) + 1
    <3>1. c + 1 \in Lanes /\ 1 \in 1 .. Len(L[c + 1]) /\ M[x][k] = L[c + 1][1]
      BY <2>1 DEF MovedOn, Lanes
    <3> QED
      BY <2>1, <3>1
  <2>2. CASE x = c /\ k # Len(L[c]) + 1
    <3>1. Len(L[c]) \in Nat /\ Len(M[c]) = Len(L[c]) + 1
      BY <2>2 DEF MovedOn
    <3>2. k \in 1 .. Len(L[c])
      BY <2>2, <3>1
    <3>3. M[x][k] = L[c][k]
      BY <2>2, <3>2 DEF MovedOn
    <3> QED
      BY <2>2, <3>2, <3>3
  <2>3. CASE x = c + 1
    <3>1. Len(L[x]) \in Nat \ {0} /\ Len(M[x]) = Len(L[x]) - 1
      BY <2>3 DEF MovedOn
    <3>2. k + 1 \in 1 .. Len(L[x]) /\ k \in 1 .. Len(L[x]) - 1
      BY <3>1
    <3>3. M[x][k] = L[x][k + 1]
      BY <2>3, <3>2 DEF MovedOn
    <3> QED
      BY <2>3, <3>2, <3>3
  <2>4. CASE x \notin {c, c + 1}
    BY <2>4 DEF MovedOn
  <2> QED
    BY <2>1, <2>2, <2>3, <2>4
<1>2a. PICK y \in Lanes : \E m \in 1 .. Len(L[y]) :
        /\ M[a][i] = L[y][m]
        /\ \/ a = c /\ y = c /\ m = i /\ i <= Len(L[c])
           \/ a = c /\ y = c + 1 /\ m = 1 /\ i = Len(L[c]) + 1
           \/ a = c + 1 /\ y = c + 1 /\ m = i + 1
           \/ a \notin {c, c + 1} /\ y = a /\ m = i
  BY <1>1
<1>2. PICK m \in 1 .. Len(L[y]) :
        /\ M[a][i] = L[y][m]
        /\ \/ a = c /\ y = c /\ m = i /\ i <= Len(L[c])
           \/ a = c /\ y = c + 1 /\ m = 1 /\ i = Len(L[c]) + 1
           \/ a = c + 1 /\ y = c + 1 /\ m = i + 1
           \/ a \notin {c, c + 1} /\ y = a /\ m = i
  BY <1>2a
<1>3a. PICK z \in Lanes : \E n \in 1 .. Len(L[z]) :
        /\ M[b][j] = L[z][n]
        /\ \/ b = c /\ z = c /\ n = j /\ j <= Len(L[c])
           \/ b = c /\ z = c + 1 /\ n = 1 /\ j = Len(L[c]) + 1
           \/ b = c + 1 /\ z = c + 1 /\ n = j + 1
           \/ b \notin {c, c + 1} /\ z = b /\ n = j
  BY <1>1
<1>3. PICK n \in 1 .. Len(L[z]) :
        /\ M[b][j] = L[z][n]
        /\ \/ b = c /\ z = c /\ n = j /\ j <= Len(L[c])
           \/ b = c /\ z = c + 1 /\ n = 1 /\ j = Len(L[c]) + 1
           \/ b = c + 1 /\ z = c + 1 /\ n = j + 1
           \/ b \notin {c, c + 1} /\ z = b /\ n = j
  BY <1>3a
<1>4. a \in Int /\ b \in Int /\ i \in Int /\ j \in Int /\ c \in Int
  BY DEF Lanes
<1>5. Len(L[c]) \in Nat /\ i > 0 /\ j > 0
  BY DEF MovedOn, Lanes
<1>6. y < z \/ (y = z /\ m < n)
  BY <1>2, <1>3, <1>4, <1>5 DEF Lanes
<1> QED
  BY <1>2, <1>3, <1>6 DEF Sorted

\* Taking a packet off its lane keeps the order of the others.
LEMMA LeaveSorted ==
  ASSUME NEW L, NEW M, NEW c \in Lanes, LeftOut(L, M, c), Sorted(L)
  PROVE  Sorted(M)
<1> SUFFICES ASSUME NEW a \in Lanes, NEW b \in Lanes,
                    NEW i \in 1 .. Len(M[a]), NEW j \in 1 .. Len(M[b]),
                    a < b \/ (a = b /\ i < j)
             PROVE  M[a][i].packet < M[b][j].packet
  BY DEF Sorted
<1>1. ASSUME NEW x \in Lanes, NEW k \in 1 .. Len(M[x])
      PROVE  \E m \in 1 .. Len(L[x]) :
               M[x][k] = L[x][m] /\ m = IF x = c THEN k + 1 ELSE k
  <2>1. CASE x = c
    <3>1. Len(L[x]) \in Nat \ {0} /\ Len(M[x]) = Len(L[x]) - 1
      BY <2>1 DEF LeftOut
    <3>2. k + 1 \in 1 .. Len(L[x]) /\ k \in 1 .. Len(L[x]) - 1
      BY <3>1
    <3>3. M[x][k] = L[x][k + 1]
      BY <2>1, <3>2 DEF LeftOut
    <3> QED
      BY <2>1, <3>2, <3>3
  <2>2. CASE x # c
    BY <2>2 DEF LeftOut
  <2> QED
    BY <2>1, <2>2
<1>2. PICK m \in 1 .. Len(L[a]) : M[a][i] = L[a][m] /\ m = IF a = c THEN i + 1 ELSE i
  BY <1>1
<1>3. PICK n \in 1 .. Len(L[b]) : M[b][j] = L[b][n] /\ n = IF b = c THEN j + 1 ELSE j
  BY <1>1
<1>4. a < b \/ (a = b /\ m < n)
  BY <1>2, <1>3 DEF Lanes
<1> QED
  BY <1>2, <1>3, <1>4 DEF Sorted

-----------------------------------------------------------------------------
(* What the network does to the datagrams of a lane. *)

\* A sequence without its i-th element.
LEMMA WithoutFacts ==
  ASSUME NEW D, NEW s \in Seq(D), NEW i \in 1 .. Len(s)
  PROVE  /\ Without(s, i) \in Seq(D) /\ Len(Without(s, i)) = Len(s) - 1 /\ Len(s) \in Nat
         /\ \A k \in 1 .. Len(s) - 1 : Without(s, i)[k] = IF k < i THEN s[k] ELSE s[k + 1]
<1> DEFINE head == SubSeq(s, 1, i - 1)
           tail == SubSeq(s, i + 1, Len(s))
<1>1. Len(s) \in Nat /\ i \in Nat
  OBVIOUS
<1>2. /\ head \in Seq(D) /\ Len(head) = i - 1
      /\ \A k \in 1 .. i - 1 : head[k] = s[k]
  <2>1. \A k \in 1 .. i - 1 : s[k] \in D
    BY <1>1, ElementOfSeq
  <2> QED
    BY <1>1, <2>1, SubSeqProperties
<1>3. /\ tail \in Seq(D) /\ Len(tail) = Len(s) - i
      /\ \A k \in 1 .. Len(s) - i : tail[k] = s[i + k]
  <2>1. \A k \in i + 1 .. Len(s) : s[k] \in D
    BY <1>1, ElementOfSeq
  <2>2. /\ tail \in Seq(D)
        /\ Len(tail) = IF i + 1 <= Len(s) THEN Len(s) - (i + 1) + 1 ELSE 0
        /\ \A k \in 1 .. Len(s) - (i + 1) + 1 : tail[k] = s[i + 1 + k - 1]
    <3>1. i + 1 \in Int /\ Len(s) \in Int
      BY <1>1
    <3> QED
      BY <2>1, <3>1, SubSeqProperties
  <2>3. Len(s) - (i + 1) + 1 = Len(s) - i /\ (i + 1 > Len(s) => Len(s) - i = 0)
    BY <1>1
  <2> HIDE DEF tail
  <2>4. Len(tail) = Len(s) - i
    <3>1. CASE i + 1 <= Len(s)
      BY <1>1, <2>2, <3>1, SMT
    <3>2. CASE ~ (i + 1 <= Len(s))
      <4>1. i = Len(s)
        BY <1>1, <3>2
      <4>2. Len(tail) = 0
        BY <2>2, <3>2
      <4> QED
        BY <1>1, <4>1, <4>2
    <3> QED
      BY <3>1, <3>2
  <2>5. ASSUME NEW k \in 1 .. Len(s) - i PROVE tail[k] = s[i + k]
    <3>1. k \in 1 .. Len(s) - (i + 1) + 1 /\ i + 1 + k - 1 = i + k
      BY <1>1
    <3> QED
      BY <2>2, <3>1
  <2> QED
    BY <2>2, <2>4, <2>5
<1> HIDE DEF head, tail
<1>4. /\ head \o tail \in Seq(D) /\ Len(head \o tail) = Len(s) - 1
      /\ \A k \in 1 .. Len(s) - 1 :
           (head \o tail)[k] = IF k <= i - 1 THEN head[k] ELSE tail[k - (i - 1)]
  <2>1. /\ head \o tail \in Seq(D) /\ Len(head \o tail) = (i - 1) + (Len(s) - i)
        /\ \A k \in 1 .. (i - 1) + (Len(s) - i) :
             (head \o tail)[k] = IF k <= i - 1 THEN head[k] ELSE tail[k - (i - 1)]
    <3>1. /\ head \o tail \in Seq(D) /\ Len(head \o tail) = Len(head) + Len(tail)
          /\ \A k \in 1 .. Len(head) + Len(tail) :
               (head \o tail)[k] = IF k <= Len(head) THEN head[k] ELSE tail[k - Len(head)]
      BY <1>2, <1>3, ConcatProperties
    <3> QED
      BY <1>2, <1>3, <3>1
  <2>2. (i - 1) + (Len(s) - i) = Len(s) - 1
    BY <1>1
  <2> QED
    BY <2>1, <2>2
<1>5. ASSUME NEW k \in 1 .. Len(s) - 1
      PROVE  (head \o tail)[k] = IF k < i THEN s[k] ELSE s[k + 1]
  <2>1. CASE k < i
    <3>1. k \in 1 .. i - 1 /\ k <= i - 1
      BY <1>1, <2>1
    <3> QED
      BY <1>2, <1>4, <2>1, <3>1
  <2>2. CASE ~ (k < i)
    <3>1. ~ (k <= i - 1) /\ k - (i - 1) \in 1 .. Len(s) - i /\ i + (k - (i - 1)) = k + 1
      BY <1>1, <2>2
    <3> QED
      BY <1>3, <1>4, <2>2, <3>1
  <2> QED
    BY <2>1, <2>2
<1> QED
  BY <1>1, <1>4, <1>5 DEF Without, head, tail

\* A fault on the lane N leaves the lane P, of which every packet was there; the only
\* packet that can be missing is number n, when the fault is a loss.
Harms(N, P, dropped) ==
  /\ \A i \in 1 .. Len(P) : \E j \in 1 .. Len(N) : P[i].packet = N[j].packet
  /\ \A j \in 1 .. Len(N) : \/ N[j].packet \in dropped
                            \/ \E i \in 1 .. Len(P) : P[i].packet = N[j].packet
  /\ \A n \in dropped : \E j \in 1 .. Len(N) : N[j].packet = n
  /\ Len(P) <= Len(N) + 1

\* Each of the four faults of the network, in the terms of Harms: a drop loses the
\* packet it drops.
LEMMA DropHarms ==
  ASSUME NEW s \in Seq(AnyDatagram), NEW i \in 1 .. Len(s)
  PROVE  Drop(s, i) \in Seq(AnyDatagram) /\ Harms(s, Drop(s, i), {s[i].packet})
<1> DEFINE t == Without(s, i)
<1>1. /\ t \in Seq(AnyDatagram) /\ Len(t) = Len(s) - 1 /\ Len(s) \in Nat
      /\ \A k \in 1 .. Len(s) - 1 : t[k] = IF k < i THEN s[k] ELSE s[k + 1]
  BY WithoutFacts
<1> HIDE DEF t
<1>2. ASSUME NEW k \in 1 .. Len(t) PROVE \E j \in 1 .. Len(s) : t[k].packet = s[j].packet
  <2>1. k \in 1 .. Len(s) /\ k + 1 \in 1 .. Len(s) /\ k \in 1 .. Len(s) - 1
    BY <1>1
  <2> QED
    BY <1>1, <2>1
<1>3. ASSUME NEW j \in 1 .. Len(s), j # i
      PROVE  \E k \in 1 .. Len(t) : t[k].packet = s[j].packet
  <2>1. CASE j < i
    <3>1. j \in 1 .. Len(t) /\ j \in 1 .. Len(s) - 1
      BY <1>1, <2>1
    <3> QED
      BY <1>1, <2>1, <3>1
  <2>2. CASE j > i
    <3>1. j - 1 \in 1 .. Len(t) /\ j - 1 \in 1 .. Len(s) - 1 /\ ~ (j - 1 < i) /\ (j - 1) + 1 = j
      BY <1>1, <2>2
    <3>2. t[j - 1] = s[(j - 1) + 1]
      BY <1>1, <3>1
    <3> QED
      BY <3>1, <3>2
  <2> QED
    BY <1>1, <1>3, <2>1, <2>2
<1>4. Len(t) <= Len(s) + 1
  BY <1>1
<1>5. Harms(s, t, {s[i].packet})
  BY <1>2, <1>3, <1>4 DEF Harms
<1> QED
  BY <1>1, <1>5 DEF Drop, t

\* A repetition loses nothing and adds one copy.
LEMMA RepeatHarms ==
  ASSUME NEW s \in Seq(AnyDatagram), NEW i \in 1 .. Len(s)
  PROVE  Repeat(s, i) \in Seq(AnyDatagram) /\ Harms(s, Repeat(s, i), {})
<1> DEFINE t == Append(s, s[i])
<1>1. s[i] \in AnyDatagram
  BY ElementOfSeq
<1>2. /\ t \in Seq(AnyDatagram) /\ Len(t) = Len(s) + 1 /\ Len(s) \in Nat
      /\ t[Len(s) + 1] = s[i] /\ \A k \in 1 .. Len(s) : t[k] = s[k]
  BY <1>1, Appended
<1> HIDE DEF t
<1>3. ASSUME NEW k \in 1 .. Len(t) PROVE \E j \in 1 .. Len(s) : t[k].packet = s[j].packet
  <2>1. k \in 1 .. Len(s) \/ k = Len(s) + 1
    BY <1>2
  <2> QED
    BY <1>2, <2>1
<1>4. ASSUME NEW j \in 1 .. Len(s) PROVE \E k \in 1 .. Len(t) : t[k].packet = s[j].packet
  <2>1. j \in 1 .. Len(t)
    BY <1>2
  <2> QED
    BY <1>2, <2>1
<1>5. Len(t) <= Len(s) + 1
  BY <1>2
<1>6. Harms(s, t, {})
  BY <1>3, <1>4, <1>5 DEF Harms
<1> QED
  BY <1>2, <1>6 DEF Repeat, t

\* Overtaking changes the order alone.
LEMMA OvertakeHarms ==
  ASSUME NEW s \in Seq(AnyDatagram), NEW i \in 1 .. Len(s)
  PROVE  Overtake(s, i) \in Seq(AnyDatagram) /\ Harms(s, Overtake(s, i), {})
<1> DEFINE u == Without(s, i)
           t == << s[i] >> \o u
<1>1. s[i] \in AnyDatagram
  BY ElementOfSeq
<1>2. /\ u \in Seq(AnyDatagram) /\ Len(u) = Len(s) - 1 /\ Len(s) \in Nat
      /\ \A k \in 1 .. Len(s) - 1 : u[k] = IF k < i THEN s[k] ELSE s[k + 1]
  BY WithoutFacts
<1> HIDE DEF u
<1>3. << s[i] >> \in Seq(AnyDatagram) /\ Len(<< s[i] >>) = 1 /\ << s[i] >>[1] = s[i]
  BY <1>1
<1>4. /\ t \in Seq(AnyDatagram) /\ Len(t) = 1 + Len(u)
      /\ \A k \in 1 .. 1 + Len(u) : t[k] = IF k <= 1 THEN << s[i] >>[k] ELSE u[k - 1]
  BY <1>2, <1>3, ConcatProperties
<1>5. Len(t) = Len(s) /\ t[1] = s[i] /\ \A k \in 2 .. Len(s) : t[k] = u[k - 1]
  BY <1>2, <1>3, <1>4
<1> HIDE DEF t
<1>6. ASSUME NEW k \in 1 .. Len(t) PROVE \E j \in 1 .. Len(s) : t[k].packet = s[j].packet
  <2>1. CASE k = 1
    BY <1>5, <2>1
  <2>2. CASE k # 1
    <3>1. k \in 2 .. Len(s) /\ k - 1 \in 1 .. Len(s) - 1 /\ (k - 1) + 1 = k /\ k - 1 \in 1 .. Len(s)
      BY <1>2, <1>5, <2>2
    <3>2. t[k] = u[k - 1] /\ (u[k - 1] = s[k - 1] \/ u[k - 1] = s[k])
      BY <1>2, <1>5, <3>1
    <3> QED
      BY <1>5, <3>1, <3>2
  <2> QED
    BY <2>1, <2>2
<1>7. ASSUME NEW j \in 1 .. Len(s) PROVE \E k \in 1 .. Len(t) : t[k].packet = s[j].packet
  <2>1. CASE j = i
    BY <1>2, <1>5, <2>1
  <2>2. CASE j < i
    <3>1. /\ j \in 1 .. Len(s) - 1 /\ j + 1 \in 2 .. Len(s) /\ (j + 1) - 1 = j
          /\ j + 1 \in 1 .. Len(t)
      BY <1>2, <1>5, <2>2
    <3>2. t[j + 1] = u[(j + 1) - 1] /\ u[j] = s[j]
      BY <1>2, <1>5, <2>2, <3>1
    <3> QED
      BY <3>1, <3>2
  <2>3. CASE j > i
    <3>1. /\ j - 1 \in 1 .. Len(s) - 1 /\ ~ (j - 1 < i) /\ (j - 1) + 1 = j
          /\ j \in 2 .. Len(s) /\ j \in 1 .. Len(t)
      BY <1>2, <1>5, <2>3
    <3>2. t[j] = u[j - 1] /\ u[j - 1] = s[(j - 1) + 1]
      BY <1>2, <1>5, <3>1
    <3> QED
      BY <3>1, <3>2
  <2> QED
    BY <2>1, <2>2, <2>3
<1>8. Len(t) <= Len(s) + 1
  BY <1>2, <1>5
<1>9. Harms(s, t, {})
  BY <1>6, <1>7, <1>8 DEF Harms
<1> QED
  BY <1>4, <1>9 DEF Overtake, t, u

\* Damage changes no number of a packet.
LEMMA DamageHarms ==
  ASSUME NEW s \in Seq(AnyDatagram), NEW i \in 1 .. Len(s), NEW d \in Damages
  PROVE  Damage(s, i, d) \in Seq(AnyDatagram) /\ Harms(s, Damage(s, i, d), {})
<1> DEFINE e == [s[i] EXCEPT !.damage = d]
           t == [s EXCEPT ![i] = e]
<1>1. s[i] \in AnyDatagram
  BY ElementOfSeq
<1>2. e \in AnyDatagram /\ e.packet = s[i].packet
  BY <1>1 DEF AnyDatagram
<1> HIDE DEF e
<1>3. /\ t \in Seq(AnyDatagram) /\ Len(t) = Len(s) /\ Len(s) \in Nat
      /\ \A j \in 1 .. Len(s) : t[j] = IF j = i THEN e ELSE s[j]
  BY <1>2, ExceptSeq
<1> HIDE DEF t
<1>4. \A j \in 1 .. Len(s) : t[j].packet = s[j].packet
  BY <1>2, <1>3
<1>5. Harms(s, t, {})
  BY <1>3, <1>4 DEF Harms
<1>6. Damage(s, i, d) = t
  BY DEF Damage, t, e
<1> QED
  BY <1>3, <1>5, <1>6

-----------------------------------------------------------------------------
(* Shape: every variable stays a function on the endpoints. *)

\* There are two endpoints, each the other of the other.
LEMMA Others ==
  \A e \in Endpoints : Other(e) \in Endpoints /\ Other(e) # e /\ Other(Other(e)) = e
                       /\ \A x \in Endpoints : x = e \/ x = Other(e)
BY LdpChatAssumption DEF Endpoints, Other

\* Before the programs start everything is empty.
LEMMA InitShape == Init => Shape
<1> SUFFICES ASSUME Init PROVE Shape
  OBVIOUS
<1>1. << >> \in Seq(Nat) /\ << >> \in Seq(AnyDatagram)
  OBVIOUS
<1>2. 0 \in 0 .. MaxFaults
  BY LdpChatAssumption
<1> QED
  BY <1>1, <1>2 DEF Init, Shape, FirstPeer

\* Set-up comes to what it comes to once.
LEMMA SetUpOnce == [Next]_vars => setUp' = setUp
BY DEF Next, vars, Quiet, Start, Make, Sender, UdpSend, UdpSendAstray, UdpSendFails, Receiver,
   UdpReceive, ReceiverFails, Enqueue, PrintMessage, Deliver, Fault

\* A loss has one of the four reasons.
LEMMA LoseTyped ==
  ASSUME Shape, NEW e \in Endpoints, NEW n \in Nat, NEW why \in Reasons, Lose(e, n, why)
  PROVE  lost' \in [Endpoints -> SUBSET [packet : Nat, why : Reasons]]
<1> DEFINE losses == [packet : Nat, why : Reasons]
           l == [packet |-> n, why |-> why]
<1>1. l \in losses
  OBVIOUS
<1>2. lost \in [Endpoints -> SUBSET losses] /\ lost' = [lost EXCEPT ![e] = @ \cup {l}]
  BY DEF Shape, Lose
<1> HIDE DEF losses, l
<1>3. lost[e] \cup {l} \in SUBSET losses
  BY <1>1, <1>2
<1>4. lost' \in [Endpoints -> SUBSET losses]
  BY <1>2, <1>3
<1> QED
  BY <1>4 DEF losses

\* Every step keeps the variables functions on the endpoints.
LEMMA ShapeKept == Shape /\ [Next]_vars => Shape'
<1> SUFFICES ASSUME Shape, [Next]_vars PROVE Shape'
  OBVIOUS
<1> USE DEF Shape, senderVars, receiverVars, netVars
<1>u. setUp' = setUp
  BY SetUpOnce
<1>1. ASSUME NEW e \in Endpoints, Start(e) \/ ReceiverFails(e) PROVE Shape'
  <2>1. \A x \in {"running", "exited"} :
          [status EXCEPT ![e] = x] \in [Endpoints -> {"off", "running", "exited"}]
    OBVIOUS
  <2>2. status' \in [Endpoints -> {"off", "running", "exited"}]
    BY <1>1, <2>1 DEF Start, ReceiverFails
  <2>3. UNCHANGED << peer, made, window, hand, queue, printed, lost, network, socket, faults >>
    BY <1>1 DEF Start, ReceiverFails
  <2> QED
    BY <1>u, <2>2, <2>3
<1>2. ASSUME NEW e \in Endpoints, Make(e) PROVE Shape'
  <2>1. made' \in [Endpoints -> Nat] /\ made'[e] \in Nat
    BY <1>2 DEF Make
  <2>2. Append(window[e], made'[e]) \in Seq(Nat)
    BY <2>1
  <2>3. window' \in [Endpoints -> Seq(Nat)]
    BY <1>2, <2>2 DEF Make
  <2> QED
    BY <1>2, <2>1, <2>3 DEF Make
<1>3. ASSUME NEW e \in Endpoints, Sender(e) PROVE Shape'
  <2>1. window[e] # << >> /\ window[e] \in Seq(Nat)
    BY <1>3 DEF Sender, UdpSend, UdpSendAstray, UdpSendFails
  <2>2. Tail(window[e]) \in Seq(Nat) /\ Head(window[e]) \in Nat
    BY <2>1, HeadTail
  <2>3. CASE UdpSend(e)
    <3>1. [packet |-> Head(window[e]), damage |-> "none"] \in AnyDatagram
      BY <2>2 DEF AnyDatagram, Damages
    <3>2. Append(network[e], [packet |-> Head(window[e]), damage |-> "none"]) \in Seq(AnyDatagram)
      BY <3>1
    <3>3. network' \in [Endpoints -> Seq(AnyDatagram)] /\ window' \in [Endpoints -> Seq(Nat)]
      BY <2>2, <2>3, <3>2 DEF UdpSend
    <3> QED
      BY <2>3, <3>3 DEF UdpSend
  <2>4. CASE UdpSendAstray(e)
    <3>1. window' \in [Endpoints -> Seq(Nat)]
      BY <2>2, <2>4 DEF UdpSendAstray
    <3>2. lost' \in [Endpoints -> SUBSET [packet : Nat, why : Reasons]]
      BY <2>2, <2>4, LoseTyped DEF UdpSendAstray, Reasons
    <3> QED
      BY <2>4, <3>1, <3>2 DEF UdpSendAstray
  <2>5. CASE UdpSendFails(e)
    BY <2>5 DEF UdpSendFails
  <2> QED
    BY <1>3, <2>3, <2>4, <2>5 DEF Sender
<1>4. ASSUME NEW e \in Endpoints, UdpReceive(e) PROVE Shape'
  <2>1. socket[e] # << >> /\ socket[e] \in Seq(AnyDatagram)
    BY <1>4 DEF UdpReceive
  <2>2. Tail(socket[e]) \in Seq(AnyDatagram) /\ Head(socket[e]) \in AnyDatagram
    BY <2>1, HeadTail
  <2>3. << Head(socket[e]) >> \in Seq(AnyDatagram)
    BY <2>2
  <2>3a. Head(socket[e]).packet \in Nat
    BY <2>2 DEF AnyDatagram
  <2>4. socket' \in [Endpoints -> Seq(AnyDatagram)] /\ peer' \in [Endpoints -> {"set", "unset"}]
    BY <1>4, <2>2 DEF UdpReceive
  <2>5. hand' \in [Endpoints -> Seq(AnyDatagram)]
    BY <1>4, <2>3 DEF UdpReceive
  <2>6. lost' \in [Endpoints -> SUBSET [packet : Nat, why : Reasons]]
    <3>1. CASE Head(socket[e]).damage = "caught"
      <4>1. Lose(Other(e), Head(socket[e]).packet, "corrupted") /\ Other(e) \in Endpoints
        BY <1>4, <3>1, Others DEF UdpReceive
      <4> QED
        BY <2>3a, <4>1, LoseTyped DEF Reasons
    <3>2. CASE Head(socket[e]).damage # "caught"
      BY <1>4, <3>2 DEF UdpReceive
    <3> QED
      BY <3>1, <3>2
  <2>7. UNCHANGED << status, faults, made, window, queue, printed, network >>
    BY <1>4 DEF UdpReceive
  <2> QED
    BY <1>u, <2>4, <2>5, <2>6, <2>7
<1>5. ASSUME NEW e \in Endpoints, Enqueue(e) PROVE Shape'
  <2>1. hand[e] # << >> /\ hand[e] \in Seq(AnyDatagram) /\ queue[e] \in Seq(AnyDatagram)
    BY <1>5 DEF Enqueue
  <2>2. Append(queue[e], Head(hand[e])) \in Seq(AnyDatagram) /\ << >> \in Seq(AnyDatagram)
    BY <2>1, HeadTail
  <2>3. /\ queue' \in [Endpoints -> Seq(AnyDatagram)]
        /\ hand' \in [Endpoints -> Seq(AnyDatagram)]
    BY <1>5, <2>2 DEF Enqueue
  <2> QED
    BY <1>5, <2>3 DEF Enqueue
<1>6. ASSUME NEW e \in Endpoints, PrintMessage(e) PROVE Shape'
  <2>1. queue[e] # << >> /\ queue[e] \in Seq(AnyDatagram) /\ printed[e] \in Seq(AnyDatagram)
    BY <1>6 DEF PrintMessage
  <2>2. /\ Append(printed[e], Head(queue[e])) \in Seq(AnyDatagram)
        /\ Tail(queue[e]) \in Seq(AnyDatagram)
    BY <2>1, HeadTail
  <2>3. /\ queue' \in [Endpoints -> Seq(AnyDatagram)]
        /\ printed' \in [Endpoints -> Seq(AnyDatagram)]
    BY <1>6, <2>2 DEF PrintMessage
  <2> QED
    BY <1>6, <2>3 DEF PrintMessage
<1>7. ASSUME NEW e \in Endpoints, Deliver(e) PROVE Shape'
  <2>0. Other(e) \in Endpoints
    BY Others
  <2>1. network[e] # << >> /\ network[e] \in Seq(AnyDatagram) /\ socket[Other(e)] \in Seq(AnyDatagram)
    BY <1>7, <2>0 DEF Deliver
  <2>2. /\ Append(socket[Other(e)], Head(network[e])) \in Seq(AnyDatagram)
        /\ Tail(network[e]) \in Seq(AnyDatagram) /\ Head(network[e]) \in AnyDatagram
    BY <2>1, HeadTail
  <2>2a. Head(network[e]).packet \in Nat
    BY <2>2 DEF AnyDatagram
  <2>3. network' \in [Endpoints -> Seq(AnyDatagram)]
    BY <1>7, <2>2 DEF Deliver
  <2>4. socket' \in [Endpoints -> Seq(AnyDatagram)]
    BY <1>7, <2>0, <2>2 DEF Deliver
  <2>5. lost' \in [Endpoints -> SUBSET [packet : Nat, why : Reasons]]
    <3>1. CASE UNCHANGED lost
      BY <3>1
    <3>2. CASE Lose(e, Head(network[e]).packet, "unreceived")
      BY <2>2a, <3>2, LoseTyped DEF Reasons
    <3> QED
      BY <1>7, <3>1, <3>2 DEF Deliver
  <2> QED
    BY <1>7, <2>3, <2>4, <2>5 DEF Deliver
<1>8. ASSUME NEW e \in Endpoints, Fault(e) PROVE Shape'
  <2>1. faults' \in 0 .. MaxFaults
    BY <1>8, LdpChatAssumption DEF Fault
  <2>2. PICK i \in 1 .. Len(network[e]) :
       \/ /\ network' = [network EXCEPT ![e] = Drop(@, i)]
          /\ Lose(e, network[e][i].packet, "dropped")
       \/ /\ \/ network' = [network EXCEPT ![e] = Repeat(@, i)]
             \/ i > 1 /\ network' = [network EXCEPT ![e] = Overtake(@, i)]
             \/ /\ network[e][i].damage = "none"
                /\ \E d \in Damages \ {"none"} :
                     network' = [network EXCEPT ![e] = Damage(@, i, d)]
          /\ UNCHANGED lost
    BY <1>8 DEF Fault
  <2>3. network[e] \in Seq(AnyDatagram)
    OBVIOUS
  <2>4. /\ Drop(network[e], i) \in Seq(AnyDatagram) /\ Repeat(network[e], i) \in Seq(AnyDatagram)
        /\ Overtake(network[e], i) \in Seq(AnyDatagram)
        /\ \A d \in Damages : Damage(network[e], i, d) \in Seq(AnyDatagram)
    BY <2>3, DropHarms, RepeatHarms, OvertakeHarms, DamageHarms
  <2>5. network' \in [Endpoints -> Seq(AnyDatagram)]
    BY <2>2, <2>4
  <2>6a. network[e][i] \in AnyDatagram
    BY <2>3, ElementOfSeq
  <2>6. network[e][i].packet \in Nat
    BY <2>6a DEF AnyDatagram
  <2>7. lost' \in [Endpoints -> SUBSET [packet : Nat, why : Reasons]]
    <3>1. CASE UNCHANGED lost
      BY <3>1
    <3>2. CASE Lose(e, network[e][i].packet, "dropped")
      BY <2>6, <3>2, LoseTyped DEF Reasons
    <3> QED
      BY <2>2, <3>1, <3>2
  <2>8. UNCHANGED << status, peer, made, window, hand, queue, printed, socket >>
    BY <1>8 DEF Fault
  <2> QED
    BY <1>u, <2>1, <2>5, <2>7, <2>8
<1>9. CASE UNCHANGED vars
  BY <1>9 DEF vars
<1> QED
  BY <1>1, <1>2, <1>3, <1>4, <1>5, <1>6, <1>7, <1>8, <1>9 DEF Next, Quiet, Receiver

-----------------------------------------------------------------------------
(* Addresses and bounds. *)

\* Nobody has received anything, and who looked an address up has it from the start.
LEMMA InitAddressed == Init => Addressed /\ Bounded
<1> SUFFICES ASSUME Init PROVE Addressed /\ Bounded
  OBVIOUS
<1>1. Addressed
  BY DEF Init, Addressed, FirstPeer
<1>2. Bounded
  BY LdpChatAssumption DEF Init, Bounded
<1> QED
  BY <1>1, <1>2

\* udpReceive sets the address with whatever it receives; nothing unsets it.
LEMMA AddressedKept == Shape /\ Addressed /\ [Next]_vars => Addressed'
<1> SUFFICES ASSUME Shape, Addressed, [Next]_vars, NEW x \in Endpoints
             PROVE  /\ peer'[x] = "unset" => /\ setUp'[x] # "known" /\ hand'[x] = << >>
                                             /\ queue'[x] = << >> /\ printed'[x] = << >>
                    /\ setUp'[x] = "unbound" => peer'[x] = "unset" /\ socket'[x] = << >>
                    /\ status'[x] = "exited" => peer'[x] = "unset"
  BY DEF Addressed
<1> USE DEF Shape, Addressed, Running, Bound, senderVars, receiverVars, netVars
<1>u. setUp' = setUp
  BY SetUpOnce
<1>1. ASSUME NEW e \in Endpoints, Start(e) \/ Make(e) \/ UdpSend(e) \/ UdpSendAstray(e)
                                  \/ UdpSendFails(e) \/ ReceiverFails(e)
      PROVE  UNCHANGED << peer, hand, queue, printed, socket >>
             /\ (status'[x] = "exited" => peer[x] = "unset")
  BY <1>1 DEF Start, Make, UdpSend, UdpSendAstray, UdpSendFails, ReceiverFails
<1>2. ASSUME NEW e \in Endpoints, Deliver(e) \/ Fault(e)
      PROVE  /\ UNCHANGED << status, peer, hand, queue, printed >>
             /\ setUp[x] = "unbound" => socket'[x] = socket[x]
  BY <1>2, Others DEF Deliver, Fault
<1>3. ASSUME NEW e \in Endpoints, UdpReceive(e)
      PROVE  /\ status[e] = "running" /\ setUp[e] # "unbound"
             /\ UNCHANGED << status, queue, printed >>
             /\ peer' = [peer EXCEPT ![e] = "set"]
             /\ x # e => hand'[x] = hand[x] /\ socket'[x] = socket[x]
  BY <1>3 DEF UdpReceive
<1>4. ASSUME NEW e \in Endpoints, Enqueue(e) \/ PrintMessage(e)
      PROVE  /\ status[e] = "running" /\ peer[e] = "set" /\ UNCHANGED << status, peer, socket >>
             /\ x # e => hand'[x] = hand[x] /\ queue'[x] = queue[x] /\ printed'[x] = printed[x]
  BY <1>4 DEF Enqueue, PrintMessage
<1>5. CASE UNCHANGED vars
  BY <1>5 DEF vars
<1> QED
  BY <1>1, <1>2, <1>3, <1>4, <1>5, <1>u DEF Next, Quiet, Sender, Receiver

\* The guards of the containers keep their bounds: the receiver takes a packet only
\* when it holds none.
LEMMA BoundedKept == Shape /\ Bounded /\ [Next]_vars => Bounded'
<1> SUFFICES ASSUME Shape, Bounded, [Next]_vars PROVE Bounded'
  OBVIOUS
<1> USE DEF Shape, Bounded, Running, senderVars, receiverVars, netVars
<1>1. ASSUME NEW e \in Endpoints, Start(e) \/ ReceiverFails(e) PROVE Bounded'
  BY <1>1 DEF Start, ReceiverFails
<1>2. ASSUME NEW e \in Endpoints, Make(e) PROVE Bounded'
  <2>1. /\ made'[e] = made[e] + 1 /\ made[e] < MaxPackets[e] /\ made[e] \in Nat
        /\ window'[e] = Append(window[e], made'[e]) /\ Len(window[e]) < WindowCapacity
        /\ window[e] \in Seq(Nat) /\ made'[e] \in Nat
        /\ \A x \in Endpoints \ {e} : made'[x] = made[x] /\ window'[x] = window[x]
        /\ UNCHANGED << hand, queue, socket >>
    BY <1>2 DEF Make
  <2>2. Len(window'[e]) = Len(window[e]) + 1 /\ Len(window[e]) \in Nat
    BY <2>1, Appended
  <2>3. made'[e] <= MaxPackets[e] /\ Len(window'[e]) <= WindowCapacity
    BY <2>1, <2>2, LdpChatAssumption
  <2> QED
    BY <2>1, <2>3
<1>3. ASSUME NEW e \in Endpoints, Sender(e) PROVE Bounded'
  <2>1. /\ UNCHANGED << made, hand, queue, socket >>
        /\ \A x \in Endpoints \ {e} : window'[x] = window[x]
        /\ window'[e] = window[e] \/ window'[e] = Tail(window[e])
        /\ window[e] # << >> /\ window[e] \in Seq(Nat)
    BY <1>3 DEF Sender, UdpSend, UdpSendAstray, UdpSendFails
  <2>2. Len(Tail(window[e])) = Len(window[e]) - 1 /\ Len(window[e]) \in Nat
    BY <2>1, HeadTail
  <2>3. Len(window'[e]) <= WindowCapacity
    BY <2>1, <2>2, LdpChatAssumption
  <2> QED
    BY <2>1, <2>3
<1>4. ASSUME NEW e \in Endpoints, UdpReceive(e) PROVE Bounded'
  <2>1. /\ UNCHANGED << made, window, queue >>
        /\ \A x \in Endpoints \ {e} : hand'[x] = hand[x] /\ socket'[x] = socket[x]
        /\ hand'[e] = hand[e] \/ hand'[e] = << Head(socket[e]) >>
        /\ socket'[e] = Tail(socket[e]) /\ socket[e] # << >> /\ socket[e] \in Seq(AnyDatagram)
    BY <1>4 DEF UdpReceive
  <2>2. Len(socket'[e]) = Len(socket[e]) - 1 /\ Len(socket[e]) \in Nat
    BY <2>1, HeadTail
  <2>3. \A x \in Endpoints : Len(socket'[x]) <= SocketSize
    <3>1. Len(socket'[e]) <= SocketSize
      BY <2>2, LdpChatAssumption
    <3> QED
      BY <2>1, <3>1
  <2>4. \A x \in Endpoints : Len(hand'[x]) <= 1
    <3>1. Len(<< Head(socket[e]) >>) = 1
      OBVIOUS
    <3>2. Len(hand'[e]) <= 1
      <4>1. CASE hand'[e] = hand[e]
        BY <4>1
      <4>2. CASE hand'[e] = << Head(socket[e]) >>
        BY <3>1, <4>2
      <4> QED
        BY <2>1, <4>1, <4>2
    <3> QED
      BY <2>1, <3>2
  <2> QED
    BY <2>1, <2>3, <2>4
<1>5. ASSUME NEW e \in Endpoints, Enqueue(e) PROVE Bounded'
  <2>1. /\ UNCHANGED << made, window, socket >>
        /\ \A x \in Endpoints \ {e} : hand'[x] = hand[x] /\ queue'[x] = queue[x]
        /\ hand'[e] = << >> /\ queue'[e] = Append(queue[e], Head(hand[e]))
        /\ Len(queue[e]) < QueueCapacity /\ queue[e] \in Seq(AnyDatagram)
        /\ hand[e] \in Seq(AnyDatagram) /\ hand[e] # << >>
    BY <1>5 DEF Enqueue
  <2>2. Len(queue'[e]) = Len(queue[e]) + 1 /\ Len(queue[e]) \in Nat
    BY <2>1, HeadTail, Appended
  <2>3. \A x \in Endpoints : Len(queue'[x]) <= QueueCapacity
    <3>1. Len(queue'[e]) <= QueueCapacity
      BY <2>1, <2>2, LdpChatAssumption
    <3> QED
      BY <2>1, <3>1
  <2>4. \A x \in Endpoints : Len(hand'[x]) <= 1
    <3>1. Len(hand'[e]) = 0
      BY <2>1, EmptySeq
    <3>2. Len(hand'[e]) <= 1
      BY <3>1
    <3>3. \A x \in Endpoints \ {e} : hand'[x] = hand[x]
      BY <2>1
    <3> HIDE DEF Shape
    <3> QED
      BY <3>2, <3>3
  <2> QED
    BY <2>1, <2>3, <2>4
<1>6. ASSUME NEW e \in Endpoints, PrintMessage(e) PROVE Bounded'
  <2>1. /\ UNCHANGED << made, window, socket, hand >>
        /\ \A x \in Endpoints \ {e} : queue'[x] = queue[x]
        /\ queue'[e] = Tail(queue[e]) /\ queue[e] # << >> /\ queue[e] \in Seq(AnyDatagram)
    BY <1>6 DEF PrintMessage
  <2>2. Len(queue'[e]) = Len(queue[e]) - 1 /\ Len(queue[e]) \in Nat
    BY <2>1, HeadTail
  <2>3. Len(queue'[e]) <= QueueCapacity
    BY <2>1, <2>2, LdpChatAssumption
  <2> QED
    BY <2>1, <2>3
<1>7. ASSUME NEW e \in Endpoints, Deliver(e) PROVE Bounded'
  <2>1. /\ UNCHANGED << made, window, hand, queue >> /\ Other(e) \in Endpoints
        /\ \A x \in Endpoints \ {Other(e)} : socket'[x] = socket[x]
        /\ \/ socket'[Other(e)] = socket[Other(e)]
           \/ /\ socket'[Other(e)] = Append(socket[Other(e)], Head(network[e]))
              /\ Len(socket[Other(e)]) < SocketSize
        /\ socket[Other(e)] \in Seq(AnyDatagram)
        /\ network[e] \in Seq(AnyDatagram) /\ network[e] # << >>
    BY <1>7, Others DEF Deliver
  <2>2. /\ Len(Append(socket[Other(e)], Head(network[e]))) = Len(socket[Other(e)]) + 1
        /\ Len(socket[Other(e)]) \in Nat
    BY <2>1, HeadTail, Appended
  <2>3. Len(socket'[Other(e)]) <= SocketSize
    <3>1. SocketSize \in Nat
      BY LdpChatAssumption
    <3>2. CASE socket'[Other(e)] = socket[Other(e)]
      BY <2>1, <3>2 DEF Bounded
    <3>3. CASE /\ socket'[Other(e)] = Append(socket[Other(e)], Head(network[e]))
               /\ Len(socket[Other(e)]) < SocketSize
      <4> DEFINE before == Len(socket[Other(e)])
                 after  == Len(socket'[Other(e)])
      <4>1. after = before + 1 /\ before \in Nat /\ before < SocketSize
        BY <2>2, <3>3
      <4> HIDE DEF before, after
      <4>2. after <= SocketSize
        BY <3>1, <4>1, SMT
      <4> QED BY <4>2 DEF after
    <3> QED BY <2>1, <3>2, <3>3
  <2> QED
    BY <2>1, <2>3
<1>8. ASSUME NEW e \in Endpoints, Fault(e) PROVE Bounded'
  BY <1>8 DEF Fault
<1>9. CASE UNCHANGED vars
  BY <1>9 DEF vars
<1> QED
  BY <1>1, <1>2, <1>3, <1>4, <1>5, <1>6, <1>7, <1>8, <1>9 DEF Next, Quiet, Receiver

-----------------------------------------------------------------------------
(* The steps of one direction, from s to t. *)

WayOK(s) ==
  /\ s.made \in Nat /\ s.window \in Seq(Nat) /\ Lanewise(s.lane, AnyDatagram)
  /\ s.lost \subseteq [packet : Nat, why : Reasons]

\* A packet is made.
Makes(s, t) ==
  /\ t.made = s.made + 1 /\ t.window = Append(s.window, s.made + 1)
  /\ t.lane = s.lane /\ t.lost = s.lost

\* The first packet leaves the window, ...
Leaves1(s, t) == s.window # << >> /\ t.window = Tail(s.window) /\ t.made = s.made

\* for the network ...
Emits(s, t) ==
  /\ Leaves1(s, t) /\ t.lost = s.lost
  /\ t.lane[5] = Append(s.lane[5], [packet |-> Head(s.window), damage |-> "none"])
  /\ \A a \in Lanes \ {5} : t.lane[a] = s.lane[a]

\* or for nowhere.
Astray(s, t) ==
  /\ Leaves1(s, t) /\ t.lane = s.lane
  /\ t.lost = s.lost \cup {[packet |-> Head(s.window), why |-> "astray"]}

SameWindow(s, t) == t.made = s.made /\ t.window = s.window

\* A packet moves on to lane c, past the checksum when that is the receiver's hand.
Shifts(s, t, c) ==
  /\ SameWindow(s, t) /\ t.lost = s.lost /\ Moves(s.lane, t.lane, c)
  /\ c = 3 => Head(s.lane[4]).damage # "caught"

\* The first packet of lane c is lost.
Loses(s, t, c, why) ==
  /\ SameWindow(s, t) /\ Leaves(s.lane, t.lane, c)
  /\ t.lost = s.lost \cup {[packet |-> Head(s.lane[c]).packet, why |-> why]}
  /\ \/ why = "unreceived"
     \/ why = "corrupted" /\ Head(s.lane[c]).damage = "caught"

\* The network does harm.
Harmed(s, t, dropped) ==
  /\ SameWindow(s, t) /\ Harms(s.lane[5], t.lane[5], dropped)
  /\ \A a \in Lanes \ {5} : t.lane[a] = s.lane[a]
  /\ t.lost = s.lost \cup { [packet |-> n, why |-> "dropped"] : n \in dropped }

WayStep(u, s, t, k, m) ==
  \/ t = s /\ m >= k
  \/ /\ m = k
     /\ \/ Makes(s, t) \/ Emits(s, t)
        \/ Astray(s, t) /\ u = "unknown"
        \/ \E c \in 1 .. 4 : Shifts(s, t, c)
        \/ \E c \in Lanes : \E why \in Reasons : Loses(s, t, c, why)
  \/ m = k + 1 /\ \E dropped \in SUBSET Nat : Harmed(s, t, dropped)

\* Making a packet keeps the window in order.
LEMMA MakesFacts ==
  ASSUME NEW s, NEW t, WayOK(s), Windowed(s), Makes(s, t)
  PROVE  Windowed(t) /\ Passed(t) = Passed(s)
<1>1. s.made \in Nat /\ s.window \in Seq(Nat) /\ s.made + 1 \in Nat
  BY DEF WayOK
<1>2. /\ Len(t.window) = Len(s.window) + 1 /\ Len(s.window) \in Nat
      /\ t.window[Len(s.window) + 1] = s.made + 1
      /\ \A i \in 1 .. Len(s.window) : t.window[i] = s.window[i]
  BY <1>1, Appended DEF Makes
<1>3. Passed(t) = Passed(s) /\ Passed(t) + Len(t.window) = s.made + 1
  <2>1. t.made = s.made + 1 /\ Len(t.window) = Len(s.window) + 1
    BY <1>2 DEF Makes
  <2>2. (s.made + 1) - (Len(s.window) + 1) = s.made - Len(s.window)
    BY <1>1, <1>2
  <2>3. (s.made - Len(s.window)) + (Len(s.window) + 1) = s.made + 1
    BY <1>1, <1>2
  <2> QED
    BY <2>1, <2>2, <2>3 DEF Passed
<1>4. ASSUME NEW i \in 1 .. Len(t.window) PROVE t.window[i] = Passed(t) + i
  <2>1. CASE i = Len(t.window)
    BY <1>2, <1>3, <2>1
  <2>2. CASE i # Len(t.window)
    <3>1. i \in 1 .. Len(s.window)
      BY <1>2, <2>2
    <3> QED
      BY <1>2, <1>3, <3>1 DEF Windowed
  <2> QED
    BY <2>1, <2>2
<1>5. Len(t.window) <= t.made
  BY <1>1, <1>2 DEF Makes, Windowed
<1> QED
  BY <1>3, <1>4, <1>5 DEF Windowed

\* What leaves the window is the packet next in number.
LEMMA LeavesFacts ==
  ASSUME NEW s, NEW t, WayOK(s), Windowed(s), Leaves1(s, t)
  PROVE  /\ Windowed(t) /\ Passed(s) \in Nat /\ Passed(t) = Passed(s) + 1
         /\ Head(s.window) = Passed(t)
<1>1. s.made \in Nat /\ s.window \in Seq(Nat) /\ s.window # << >>
  BY DEF WayOK, Leaves1
<1>2. /\ Len(t.window) = Len(s.window) - 1 /\ Len(s.window) \in Nat \ {0}
      /\ Head(s.window) = s.window[1]
      /\ \A i \in 1 .. Len(s.window) - 1 : t.window[i] = s.window[i + 1]
  BY <1>1, HeadTail DEF Leaves1
<1>3. Len(s.window) <= s.made /\ \A i \in 1 .. Len(s.window) : s.window[i] = Passed(s) + i
  BY DEF Windowed
<1>4. Passed(s) \in Nat /\ Passed(t) = Passed(s) + 1
  BY <1>1, <1>2, <1>3 DEF Passed, Leaves1
<1>5. Head(s.window) = Passed(t)
  BY <1>2, <1>3, <1>4
<1>6. ASSUME NEW i \in 1 .. Len(t.window) PROVE t.window[i] = Passed(t) + i
  <2>1. i \in 1 .. Len(s.window) - 1 /\ i + 1 \in 1 .. Len(s.window)
    BY <1>2
  <2>2. t.window[i] = Passed(s) + (i + 1)
    BY <1>2, <1>3, <2>1
  <2> QED
    BY <1>4, <2>2
<1>7. Len(t.window) <= t.made
  BY <1>1, <1>2, <1>3 DEF Leaves1
<1> QED
  BY <1>4, <1>5, <1>6, <1>7 DEF Windowed

\* A step that leaves the window alone keeps what holds of it.
LEMMA SameWindowFacts ==
  ASSUME NEW s, NEW t, WayOK(s), Windowed(s), SameWindow(s, t)
  PROVE  Windowed(t) /\ Passed(t) = Passed(s) /\ Passed(s) \in Nat
<1>1. s.made \in Nat /\ Len(s.window) \in Nat /\ Len(s.window) <= s.made
  BY LenProperties DEF WayOK, Windowed
<1>2. Passed(t) = Passed(s) /\ Passed(s) \in Nat
  BY <1>1 DEF Passed, SameWindow
<1> QED
  BY <1>2 DEF Windowed, SameWindow

\* Every packet in a lane has a number.
LEMMA PacketNumbers ==
  ASSUME NEW L, Lanewise(L, AnyDatagram), NEW a \in Lanes, NEW i \in 1 .. Len(L[a])
  PROVE  L[a][i] \in AnyDatagram /\ L[a][i].packet \in Nat /\ L[a][i].packet \in Sent(L)
<1>1. L[a][i] \in AnyDatagram
  BY ElementOfSeq DEF Lanewise
<1>2. L[a][i].packet \in Nat
  BY <1>1 DEF AnyDatagram
<1> QED
  BY <1>1, <1>2 DEF Sent

\* What is sent is sent, wherever it lies.
LEMMA StemsSent ==
  ASSUME NEW L, NEW M, Stems(L, M)
  PROVE  Sent(M) \subseteq Sent(L)
BY DEF Stems, Sent

\* Moving a packet on changes neither which packets are sent nor how many copies
\* there are.
LEMMA MovesSent ==
  ASSUME NEW L, NEW M, NEW c \in 1 .. 4, Lanewise(L, AnyDatagram), Moves(L, M, c)
  PROVE  Sent(M) = Sent(L) /\ Total(M) = Total(L) /\ MovedOn(L, M, c)
<1>1. MovedOn(L, M, c)
  BY MoveFacts
<1>2. Sent(M) = Sent(L)
  <2>1. Stems(L, M) /\ Stems(M, L)
    BY <1>1, MoveStems
  <2> QED
    <3>1. Sent(M) \subseteq Sent(L)
      BY <2>1, StemsSent
    <3>2. Sent(L) \subseteq Sent(M)
      BY <2>1, StemsSent
    <3> QED
      BY <3>1, <3>2
<1>3. Total(M) = Total(L)
  <2>1. /\ Len(M[c]) = Len(L[c]) + 1 /\ Len(M[c + 1]) = Len(L[c + 1]) - 1
        /\ \A a \in Lanes \ {c, c + 1} : Len(M[a]) = Len(L[a])
        /\ \A a \in Lanes : Len(L[a]) \in Nat
    BY <1>1 DEF MovedOn
  <2> DEFINE l(a) == Len(L[a])
             m(a) == Len(M[a])
  <2>2. \A a \in Lanes : l(a) \in Nat
    BY <2>1
  <2>3. /\ m(c) = l(c) + 1 /\ m(c + 1) = l(c + 1) - 1
        /\ \A a \in Lanes \ {c, c + 1} : m(a) = l(a)
    BY <2>1
  <2> HIDE DEF l, m
  <2>4. c = 1 \/ c = 2 \/ c = 3 \/ c = 4
    OBVIOUS
  <2>5. m(1) + m(2) + m(3) + m(4) + m(5) = l(1) + l(2) + l(3) + l(4) + l(5)
    BY <2>2, <2>3, <2>4, SMT DEF Lanes
  <2> QED
    BY <2>5 DEF Total, l, m
<1> QED
  BY <1>1, <1>2, <1>3

\* A packet off its lane is one copy less, and the one packet that may no longer be
\* there.
LEMMA LeavesSent ==
  ASSUME NEW L, NEW M, NEW c \in Lanes, Lanewise(L, AnyDatagram), Leaves(L, M, c)
  PROVE  /\ Sent(L) = Sent(M) \cup {Head(L[c]).packet} /\ Total(M) = Total(L) - 1
         /\ LeftOut(L, M, c) /\ 1 \in 1 .. Len(L[c]) /\ Head(L[c]) = L[c][1]
<1>1. LeftOut(L, M, c)
  BY LeaveFacts
<1>2. 1 \in 1 .. Len(L[c]) /\ Head(L[c]) = L[c][1]
  BY <1>1 DEF LeftOut
<1>3. Sent(M) \subseteq Sent(L) /\ L[c][1].packet \in Sent(L)
  BY <1>1, <1>2, LeaveStems, StemsSent, PacketNumbers
<1>4. ASSUME NEW n \in Sent(L), n # L[c][1].packet PROVE n \in Sent(M)
  <2>1. PICK b \in Lanes : \E j \in 1 .. Len(L[b]) : L[b][j].packet = n
    BY DEF Sent
  <2>2. PICK j \in 1 .. Len(L[b]) : L[b][j].packet = n
    BY <2>1
  <2>3. \E a \in Lanes : \E i \in 1 .. Len(M[a]) : L[b][j] = M[a][i]
    BY <1>1, <1>4, <2>2, LeaveStems
  <2> QED
    BY <2>2, <2>3 DEF Sent
<1>5. Total(M) = Total(L) - 1
  <2> DEFINE l(a) == Len(L[a])
             m(a) == Len(M[a])
  <2>1. /\ \A a \in Lanes : l(a) \in Nat
        /\ m(c) = l(c) - 1 /\ \A a \in Lanes \ {c} : m(a) = l(a)
    BY <1>1 DEF LeftOut
  <2>0. /\ Total(L) = l(1) + l(2) + l(3) + l(4) + l(5)
        /\ Total(M) = m(1) + m(2) + m(3) + m(4) + m(5)
    BY DEF Total
  <2> HIDE DEF l, m
  <2>2. c = 1 \/ c = 2 \/ c = 3 \/ c = 4 \/ c = 5
    BY DEF Lanes
  <2>3. m(1) + m(2) + m(3) + m(4) + m(5) = (l(1) + l(2) + l(3) + l(4) + l(5)) - 1
    BY <2>1, <2>2, SMT DEF Lanes
  <2> QED
    BY <2>0, <2>3
<1> QED
  BY <1>1, <1>2, <1>3, <1>4, <1>5

\* The last lane alone changes.
LEMMA LastLaneTotal ==
  ASSUME NEW L, NEW M, Lanewise(L, AnyDatagram), Lanewise(M, AnyDatagram),
         \A a \in Lanes \ {5} : M[a] = L[a]
  PROVE  /\ Total(M) = (Total(L) - Len(L[5])) + Len(M[5]) /\ Total(L) \in Nat
         /\ Len(L[5]) \in Nat /\ Len(M[5]) \in Nat
<1> DEFINE l(a) == Len(L[a])
           m(a) == Len(M[a])
<1>1. /\ \A a \in Lanes : l(a) \in Nat /\ m(a) \in Nat
      /\ \A a \in Lanes \ {5} : m(a) = l(a)
  BY LenProperties DEF Lanewise
<1>0. /\ Total(L) = l(1) + l(2) + l(3) + l(4) + l(5)
      /\ Total(M) = m(1) + m(2) + m(3) + m(4) + m(5)
  BY DEF Total
<1>4. Len(L[5]) = l(5) /\ Len(M[5]) = m(5)
  OBVIOUS
<1> HIDE DEF l, m
<1>2. /\ m(1) + m(2) + m(3) + m(4) + m(5) = ((l(1) + l(2) + l(3) + l(4) + l(5)) - l(5)) + m(5)
      /\ l(1) + l(2) + l(3) + l(4) + l(5) \in Nat
  BY <1>1, SMT DEF Lanes
<1>3. l(5) \in Nat /\ m(5) \in Nat
  BY <1>1 DEF Lanes
<1> QED
  BY <1>0, <1>2, <1>3, <1>4

\* A packet put on the network is one copy more, with the next number.
LEMMA EmitsSent ==
  ASSUME NEW s, NEW t, WayOK(s), WayOK(t), Windowed(s), Emits(s, t)
  PROVE  Sent(t.lane) = Sent(s.lane) \cup {Passed(t)} /\ Total(t.lane) = Total(s.lane) + 1
<1> DEFINE L == s.lane
           M == t.lane
           d == [packet |-> Head(s.window), damage |-> "none"]
<1>1. Passed(t) \in Nat /\ Head(s.window) = Passed(t)
  BY LeavesFacts DEF Emits
<1>2. d \in AnyDatagram /\ d.packet = Passed(t)
  BY <1>1 DEF AnyDatagram, Damages
<1>3. L[5] \in Seq(AnyDatagram) /\ M[5] = Append(L[5], d) /\ \A a \in Lanes \ {5} : M[a] = L[a]
  BY DEF Emits, WayOK, Lanewise, Lanes
<1> HIDE DEF L, M, d
<1>4. /\ Len(M[5]) = Len(L[5]) + 1 /\ Len(L[5]) \in Nat /\ M[5][Len(L[5]) + 1] = d
      /\ \A i \in 1 .. Len(L[5]) : M[5][i] = L[5][i]
  BY <1>2, <1>3, Appended
<1>5. ASSUME NEW n \in Sent(L) PROVE n \in Sent(M)
  <2>1. PICK b \in Lanes : \E j \in 1 .. Len(L[b]) : L[b][j].packet = n
    BY DEF Sent
  <2>2. PICK j \in 1 .. Len(L[b]) : L[b][j].packet = n
    BY <2>1
  <2>3. j \in 1 .. Len(M[b]) /\ M[b][j].packet = n
    BY <1>3, <1>4, <2>2
  <2> QED
    BY <2>3 DEF Sent
<1>6. Passed(t) \in Sent(M)
  <2>1. 5 \in Lanes /\ Len(L[5]) + 1 \in 1 .. Len(M[5]) /\ M[5][Len(L[5]) + 1].packet = Passed(t)
    BY <1>2, <1>4 DEF Lanes
  <2> QED
    BY <1>1, <2>1 DEF Sent
<1>7. ASSUME NEW n \in Sent(M), n # Passed(t) PROVE n \in Sent(L)
  <2>1. PICK b \in Lanes : \E j \in 1 .. Len(M[b]) : M[b][j].packet = n
    BY DEF Sent
  <2>2. PICK j \in 1 .. Len(M[b]) : M[b][j].packet = n
    BY <2>1
  <2>3. ~ (b = 5 /\ j = Len(L[5]) + 1)
    BY <1>2, <1>4, <1>7, <2>2
  <2>4. j \in 1 .. Len(L[b]) /\ L[b][j].packet = n
    BY <1>3, <1>4, <2>2, <2>3
  <2> QED
    BY <2>4 DEF Sent
<1>8. Total(M) = Total(L) + 1
  <2>1. Lanewise(L, AnyDatagram) /\ Lanewise(M, AnyDatagram)
    BY DEF WayOK, L, M
  <2>2. Total(M) = (Total(L) - Len(L[5])) + Len(M[5]) /\ Total(L) \in Nat
    BY <1>3, <2>1, LastLaneTotal
  <2> QED
    BY <1>4, <2>2
<1>9. Sent(M) = Sent(L) \cup {Passed(t)}
  BY <1>5, <1>6, <1>7
<1> QED
  BY <1>8, <1>9 DEF L, M

\* A fault loses what it dropped and adds one copy at most.
LEMMA HarmsSent ==
  ASSUME NEW s, NEW t, NEW dropped \in SUBSET Nat, WayOK(s), WayOK(t), Harmed(s, t, dropped)
  PROVE  Sent(t.lane) \cup dropped = Sent(s.lane) /\ Total(t.lane) <= Total(s.lane) + 1
<1> DEFINE L == s.lane
           M == t.lane
<1>1. Harms(L[5], M[5], dropped) /\ \A a \in Lanes \ {5} : M[a] = L[a]
  BY DEF Harmed
<1>2. Lanewise(L, AnyDatagram) /\ Lanewise(M, AnyDatagram)
  BY DEF WayOK
<1> HIDE DEF L, M
<1>3. ASSUME NEW n \in Sent(L), n \notin dropped PROVE n \in Sent(M)
  <2>1. PICK b \in Lanes : \E j \in 1 .. Len(L[b]) : L[b][j].packet = n
    BY DEF Sent
  <2>2. PICK j \in 1 .. Len(L[b]) : L[b][j].packet = n
    BY <2>1
  <2>3. \E i \in 1 .. Len(M[b]) : M[b][i].packet = n
    <3>1. CASE b = 5
      <4>1. \A m \in 1 .. Len(L[5]) : \/ L[5][m].packet \in dropped
                                      \/ \E i \in 1 .. Len(M[5]) : M[5][i].packet = L[5][m].packet
        BY <1>1 DEF Harms
      <4>2. PICK i \in 1 .. Len(M[5]) : M[5][i].packet = L[5][j].packet
        BY <1>3, <2>2, <3>1, <4>1
      <4> QED BY <2>2, <3>1, <4>2
    <3>2. CASE b # 5
      <4>1. M[b] = L[b]
        BY <1>1, <3>2
      <4> QED BY <2>2, <4>1
    <3> QED BY <3>1, <3>2
  <2> QED
    BY <2>3 DEF Sent
<1>4. ASSUME NEW n \in Sent(M) PROVE n \in Sent(L)
  <2>1. PICK b \in Lanes : \E j \in 1 .. Len(M[b]) : M[b][j].packet = n
    BY DEF Sent
  <2>2. PICK j \in 1 .. Len(M[b]) : M[b][j].packet = n
    BY <2>1
  <2>3. \E i \in 1 .. Len(L[b]) : L[b][i].packet = n
    <3>1. CASE b = 5
      <4>1. \A i \in 1 .. Len(M[5]) : \E m \in 1 .. Len(L[5]) : M[5][i].packet = L[5][m].packet
        BY <1>1 DEF Harms
      <4>2. PICK m \in 1 .. Len(L[5]) : M[5][j].packet = L[5][m].packet
        BY <2>2, <3>1, <4>1
      <4> QED BY <2>2, <3>1, <4>2
    <3>2. CASE b # 5
      <4>1. M[b] = L[b]
        BY <1>1, <3>2
      <4> QED BY <2>2, <4>1
    <3> QED BY <3>1, <3>2
  <2> QED
    BY <2>3 DEF Sent
<1>5. ASSUME NEW n \in dropped PROVE n \in Sent(L)
  BY <1>1 DEF Harms, Sent, Lanes
<1>6. Sent(M) \cup dropped = Sent(L)
  BY <1>3, <1>4, <1>5
<1>7. Total(M) <= Total(L) + 1
  <2> DEFINE all == Total(L)
             more == Total(M)
             old == Len(L[5])
             new == Len(M[5])
  <2>1. more = (all - old) + new /\ all \in Nat /\ old \in Nat /\ new \in Nat
    BY <1>1, <1>2, LastLaneTotal
  <2>2. new <= old + 1
    BY <1>1 DEF Harms
  <2> HIDE DEF all, more, old, new
  <2>3. more <= all + 1
    BY <2>1, <2>2, SMT
  <2> QED BY <2>3 DEF more, all
<1> QED
  BY <1>6, <1>7 DEF L, M

\* The checks of a step that leaves the lanes alone carry over.
LEMMA CheckedStays ==
  ASSUME NEW s, NEW t, NEW k \in Nat, NEW m \in Nat, m >= k, t.lane = s.lane, Checked(s, k)
  PROVE  Checked(t, m)
BY DEF Checked

\* A new packet is undamaged and has the highest number so far.
LEMMA EmitsChecked ==
  ASSUME NEW s, NEW t, NEW k \in Nat, WayOK(s), WayOK(t), Windowed(s), Traced(s), Emits(s, t),
         Checked(s, k)
  PROVE  Checked(t, k)
<1> DEFINE L == s.lane
           M == t.lane
           d == [packet |-> Head(s.window), damage |-> "none"]
<1>1. Passed(s) \in Nat /\ Passed(t) = Passed(s) + 1 /\ Head(s.window) = Passed(t)
  BY LeavesFacts DEF Emits
<1>2. d \in AnyDatagram /\ d.packet = Passed(t) /\ d.damage = "none"
  BY <1>1 DEF AnyDatagram, Damages
<1>3. /\ L[5] \in Seq(AnyDatagram) /\ M[5] = Append(L[5], d)
      /\ \A a \in Lanes \ {5} : M[a] = L[a]
      /\ Lanewise(L, AnyDatagram)
  BY DEF Emits, WayOK, Lanewise, Lanes
<1>4. ASSUME NEW a \in Lanes, NEW i \in 1 .. Len(L[a])
      PROVE  L[a][i].packet < Passed(t) /\ L[a][i].packet \in Nat
  <2>1. L[a][i].packet \in Sent(L) /\ L[a][i].packet \in Nat
    BY <1>3, PacketNumbers
  <2>2. L[a][i].packet \in 1 .. Passed(s)
    BY <2>1 DEF Traced
  <2> QED
    BY <1>1, <2>1, <2>2
<1>5. \A a \in 1 .. 3 : M[a] = L[a]
  BY <1>3 DEF Lanes
<1>6. /\ \A a \in 1 .. 3 : \A i \in 1 .. Len(L[a]) : L[a][i].damage # "caught"
      /\ k = 0 => /\ \A a \in Lanes : \A i \in 1 .. Len(L[a]) : L[a][i].damage = "none"
                  /\ Sorted(L)
  BY DEF Checked
<1> HIDE DEF L, M, d
<1>7. /\ Len(M[5]) = Len(L[5]) + 1 /\ Len(L[5]) \in Nat /\ M[5][Len(L[5]) + 1] = d
      /\ \A i \in 1 .. Len(L[5]) : M[5][i] = L[5][i]
  BY <1>2, <1>3, Appended
<1>8. ASSUME NEW a \in Lanes, NEW i \in 1 .. Len(M[a])
      PROVE  \/ a = 5 /\ i = Len(L[5]) + 1 /\ M[a][i] = d
             \/ i \in 1 .. Len(L[a]) /\ M[a][i] = L[a][i]
  <2>1. CASE a = 5
    <3>1. i = Len(L[5]) + 1 \/ i \in 1 .. Len(L[5])
      BY <1>7, <2>1
    <3> QED
      BY <1>7, <2>1, <3>1
  <2>2. CASE a # 5
    BY <1>3, <2>2
  <2> QED
    BY <2>1, <2>2
<1>9. \A a \in 1 .. 3 : \A i \in 1 .. Len(M[a]) : M[a][i].damage # "caught"
  BY <1>5, <1>6
<1>10. ASSUME k = 0, NEW a \in Lanes, NEW i \in 1 .. Len(M[a]) PROVE M[a][i].damage = "none"
  BY <1>2, <1>6, <1>8, <1>10
<1>11. ASSUME k = 0 PROVE Sorted(M)
  <2> SUFFICES ASSUME NEW a \in Lanes, NEW b \in Lanes,
                      NEW i \in 1 .. Len(M[a]), NEW j \in 1 .. Len(M[b]),
                      a < b \/ (a = b /\ i < j)
               PROVE  M[a][i].packet < M[b][j].packet
    BY DEF Sorted
  <2>1. i \in 1 .. Len(L[a]) /\ M[a][i] = L[a][i]
    <3>1. CASE a = 5 /\ i = Len(L[5]) + 1
      <4>1. b = 5 /\ i < j
        BY <3>1 DEF Lanes
      <4>2. j <= Len(L[5]) + 1
        BY <1>7, <4>1
      <4> QED
        BY <1>7, <3>1, <4>1, <4>2
    <3> QED
      BY <1>8, <3>1
  <2>2. CASE b = 5 /\ M[b][j] = d
    BY <1>2, <1>4, <2>1, <2>2
  <2>3. CASE j \in 1 .. Len(L[b]) /\ M[b][j] = L[b][j]
    BY <1>6, <1>11, <2>1, <2>3 DEF Sorted
  <2> QED
    BY <1>8, <2>2, <2>3
<1>12. /\ \A a \in 1 .. 3 : \A i \in 1 .. Len(t.lane[a]) : t.lane[a][i].damage # "caught"
       /\ k = 0 => /\ \A a \in Lanes : \A i \in 1 .. Len(t.lane[a]) : t.lane[a][i].damage = "none"
                   /\ Sorted(t.lane)
  BY <1>9, <1>10, <1>11 DEF M
<1> QED
  BY <1>12 DEF Checked

\* A packet moved on stays undamaged and in order; udpReceive lets none pass that the
\* checksum catches.
LEMMA ShiftsChecked ==
  ASSUME NEW s, NEW t, NEW k \in Nat, NEW c \in 1 .. 4, WayOK(s), Shifts(s, t, c),
         Checked(s, k)
  PROVE  Checked(t, k)
<1> DEFINE L == s.lane
           M == t.lane
<1>1. MovedOn(L, M, c) /\ Stems(L, M) /\ Lanewise(L, AnyDatagram)
  BY MovesSent, MoveStems DEF Shifts, WayOK
<1>2. /\ \A a \in 1 .. 3 : \A i \in 1 .. Len(L[a]) : L[a][i].damage # "caught"
      /\ k = 0 => /\ \A a \in Lanes : \A i \in 1 .. Len(L[a]) : L[a][i].damage = "none"
                  /\ Sorted(L)
  BY DEF Checked
<1>3. c = 3 => L[4][1].damage # "caught"
  <2>1. c = 3 => L[4] \in Seq(AnyDatagram) /\ L[4] # << >>
    BY <1>1 DEF Shifts, Moves, Lanewise, Lanes
  <2>2. c = 3 => Head(L[4]) = L[4][1]
    BY <2>1, HeadTail
  <2> QED
    BY <2>2 DEF Shifts
<1> HIDE DEF L, M
<1>4. ASSUME NEW a \in 1 .. 3, NEW i \in 1 .. Len(M[a]) PROVE M[a][i].damage # "caught"
  <2>1. a \in Lanes /\ c \in Lanes /\ c + 1 \in Lanes
    BY DEF Lanes
  <2>2. CASE a = c /\ i = Len(L[c]) + 1
    <3>1. M[a][i] = L[c + 1][1] /\ 1 \in 1 .. Len(L[c + 1])
      BY <1>1, <2>2 DEF MovedOn
    <3>2. CASE c = 3
      BY <1>3, <3>1, <3>2
    <3>3. CASE c # 3
      <4>1. c + 1 \in 1 .. 3
        BY <2>2, <3>3
      <4> QED
        BY <1>2, <3>1, <4>1
    <3> QED
      BY <3>2, <3>3
  <2>3. CASE a = c /\ i # Len(L[c]) + 1
    <3>1. Len(L[c]) \in Nat /\ Len(M[c]) = Len(L[c]) + 1
      BY <1>1, <2>1 DEF MovedOn
    <3>2. i \in 1 .. Len(L[c])
      BY <2>3, <3>1
    <3>3. M[a][i] = L[a][i]
      BY <1>1, <2>3, <3>2 DEF MovedOn
    <3> QED
      BY <1>2, <2>3, <3>2, <3>3
  <2>4. CASE a = c + 1
    <3>1. Len(L[a]) \in Nat \ {0} /\ Len(M[a]) = Len(L[a]) - 1
      BY <1>1, <2>4 DEF MovedOn
    <3>2. i + 1 \in 1 .. Len(L[a]) /\ i \in 1 .. Len(L[a]) - 1
      BY <3>1
    <3>3. M[a][i] = L[a][i + 1]
      BY <1>1, <2>4, <3>2 DEF MovedOn
    <3> QED
      BY <1>2, <3>2, <3>3
  <2>5. CASE a \notin {c, c + 1}
    BY <1>1, <1>2, <2>1, <2>5 DEF MovedOn
  <2> QED
    BY <2>2, <2>3, <2>4, <2>5
<1>5. ASSUME k = 0, NEW a \in Lanes, NEW i \in 1 .. Len(M[a]) PROVE M[a][i].damage = "none"
  <2>1. PICK b \in Lanes : \E j \in 1 .. Len(L[b]) : M[a][i] = L[b][j]
    BY <1>1 DEF Stems
  <2>2. PICK j \in 1 .. Len(L[b]) : M[a][i] = L[b][j]
    BY <2>1
  <2>3. L[b][j].damage = "none"
    BY <1>2, <1>5
  <2> QED BY <2>2, <2>3
<1>6. k = 0 => Sorted(M)
  BY <1>1, <1>2, MoveSorted
<1>7. /\ \A a \in 1 .. 3 : \A i \in 1 .. Len(t.lane[a]) : t.lane[a][i].damage # "caught"
      /\ k = 0 => /\ \A a \in Lanes : \A i \in 1 .. Len(t.lane[a]) : t.lane[a][i].damage = "none"
                  /\ Sorted(t.lane)
  BY <1>4, <1>5, <1>6 DEF M
<1> QED
  BY <1>7 DEF Checked

\* A lost packet leaves the rest undamaged and in order.
LEMMA LosesChecked ==
  ASSUME NEW s, NEW t, NEW k \in Nat, NEW c \in Lanes, NEW why, WayOK(s), Loses(s, t, c, why),
         Checked(s, k)
  PROVE  Checked(t, k)
<1> DEFINE L == s.lane
           M == t.lane
<1>1. LeftOut(L, M, c) /\ Stems(L, M)
  BY LeavesSent, LeaveStems DEF Loses, WayOK
<1>2. /\ \A a \in 1 .. 3 : \A i \in 1 .. Len(L[a]) : L[a][i].damage # "caught"
      /\ k = 0 => /\ \A a \in Lanes : \A i \in 1 .. Len(L[a]) : L[a][i].damage = "none"
                  /\ Sorted(L)
  BY DEF Checked
<1> HIDE DEF L, M
<1>3. ASSUME NEW a \in 1 .. 3, NEW i \in 1 .. Len(M[a]) PROVE M[a][i].damage # "caught"
  <2>1. CASE a = c
    <3>1. Len(L[a]) \in Nat \ {0} /\ Len(M[a]) = Len(L[a]) - 1
      BY <1>1, <2>1 DEF LeftOut
    <3>2. i + 1 \in 1 .. Len(L[a]) /\ i \in 1 .. Len(L[a]) - 1
      BY <3>1
    <3>3. M[a][i] = L[a][i + 1]
      BY <1>1, <2>1, <3>2 DEF LeftOut
    <3> QED
      BY <1>2, <3>2, <3>3
  <2>2. CASE a # c
    <3>1. a \in Lanes
      BY DEF Lanes
    <3>2. M[a] = L[a]
      BY <1>1, <2>2, <3>1 DEF LeftOut
    <3> QED
      BY <1>2, <3>2
  <2> QED
    BY <2>1, <2>2
<1>4. ASSUME k = 0, NEW a \in Lanes, NEW i \in 1 .. Len(M[a]) PROVE M[a][i].damage = "none"
  <2>1. \E b \in Lanes : \E j \in 1 .. Len(L[b]) : M[a][i] = L[b][j]
    BY <1>1 DEF Stems
  <2> QED
    BY <1>2, <1>4, <2>1
<1>5. k = 0 => Sorted(M)
  BY <1>1, <1>2, LeaveSorted
<1>6. /\ \A a \in 1 .. 3 : \A i \in 1 .. Len(t.lane[a]) : t.lane[a][i].damage # "caught"
      /\ k = 0 => /\ \A a \in Lanes : \A i \in 1 .. Len(t.lane[a]) : t.lane[a][i].damage = "none"
                  /\ Sorted(t.lane)
  BY <1>3, <1>4, <1>5 DEF M
<1> QED
  BY <1>6 DEF Checked

\* After a fault nothing is claimed of order or damage in the lane of the network.
LEMMA HarmedChecked ==
  ASSUME NEW s, NEW t, NEW k \in Nat, NEW dropped, Harmed(s, t, dropped), Checked(s, k)
  PROVE  Checked(t, k + 1)
<1>1. k + 1 # 0
  OBVIOUS
<1>2. \A a \in 1 .. 3 : t.lane[a] = s.lane[a]
  BY DEF Harmed, Lanes
<1> QED
  BY <1>1, <1>2 DEF Checked

\* No step of a direction breaks what is said of it.
LEMMA WayKept ==
  ASSUME NEW u, NEW s, NEW t, NEW k \in Nat, NEW m \in Nat,
         WayOK(s), WayOK(t), WayStep(u, s, t, k, m), WayInv(u, s, k)
  PROVE  WayInv(u, t, m)
<1>0. Windowed(s) /\ Traced(s) /\ Counted(s, k) /\ Reasoned(u, s, k) /\ Checked(s, k)
  BY DEF WayInv
<1>1. Lanewise(s.lane, AnyDatagram) /\ Lanewise(t.lane, AnyDatagram)
  BY DEF WayOK
<1>2. Total(s.lane) \in Nat /\ Total(t.lane) \in Nat
  BY <1>1, LastLaneTotal
<1>3. Passed(s) \in Nat
  BY <1>0, SameWindowFacts DEF SameWindow
<1>4. ASSUME NEW S, NEW r PROVE NumbersOf(S \cup {r}) = NumbersOf(S) \cup {r.packet}
  BY DEF NumbersOf
<1>5. CASE t = s /\ m >= k
  <2>1. Counted(t, m)
    BY <1>0, <1>2, <1>3, <1>5 DEF Counted
  <2>2. Reasoned(u, t, m)
    BY <1>0, <1>5 DEF Reasoned
  <2>3. Checked(t, m)
    BY <1>0, <1>5, CheckedStays
  <2> QED
    BY <1>0, <1>5, <2>1, <2>2, <2>3 DEF WayInv
<1>6. CASE m = k /\ Makes(s, t)
  <2>1. Windowed(t) /\ Passed(t) = Passed(s)
    BY <1>0, <1>6, MakesFacts
  <2>2. t.lane = s.lane /\ t.lost = s.lost
    BY <1>6 DEF Makes
  <2>3. Traced(t) /\ Counted(t, m) /\ Reasoned(u, t, m)
    BY <1>0, <1>6, <2>1, <2>2 DEF Traced, Counted, Reasoned
  <2>4. Checked(t, m)
    BY <1>0, <1>6, <2>2, CheckedStays
  <2> QED
    BY <2>1, <2>3, <2>4 DEF WayInv
<1>7. CASE m = k /\ Emits(s, t)
  <2>1. Windowed(t) /\ Passed(t) = Passed(s) + 1
    BY <1>0, <1>7, LeavesFacts DEF Emits
  <2>2. Sent(t.lane) = Sent(s.lane) \cup {Passed(t)} /\ Total(t.lane) = Total(s.lane) + 1
    BY <1>0, <1>7, EmitsSent
  <2>3. t.lost = s.lost
    BY <1>7 DEF Emits
  <2>4. 1 .. Passed(t) = (1 .. Passed(s)) \cup {Passed(t)}
    BY <1>3, <2>1
  <2>5. Traced(t)
    BY <1>0, <2>2, <2>3, <2>4 DEF Traced
  <2>6. Counted(t, m)
    BY <1>0, <1>2, <1>3, <1>7, <2>1, <2>2 DEF Counted
  <2>7. Reasoned(u, t, m)
    BY <1>0, <1>7, <2>3 DEF Reasoned
  <2>8. Checked(t, m)
    BY <1>0, <1>7, EmitsChecked
  <2> QED
    BY <2>1, <2>5, <2>6, <2>7, <2>8 DEF WayInv
<1>8. CASE m = k /\ Astray(s, t) /\ u = "unknown"
  <2> DEFINE l == [packet |-> Head(s.window), why |-> "astray"]
  <2>1. Windowed(t) /\ Passed(t) = Passed(s) + 1 /\ Head(s.window) = Passed(t)
    BY <1>0, <1>8, LeavesFacts DEF Astray
  <2>2. t.lane = s.lane /\ t.lost = s.lost \cup {l}
    BY <1>8 DEF Astray
  <2>3. l.packet = Passed(t) /\ l.why = "astray"
    BY <2>1
  <2> HIDE DEF l
  <2>4. 1 .. Passed(t) = (1 .. Passed(s)) \cup {Passed(t)}
    BY <1>3, <2>1
  <2>5. NumbersOf(t.lost) = NumbersOf(s.lost) \cup {Passed(t)}
    BY <1>4, <2>2, <2>3
  <2>6. Traced(t)
    BY <1>0, <2>2, <2>4, <2>5 DEF Traced
  <2>7. Counted(t, m)
    BY <1>0, <1>2, <1>3, <1>8, <2>1, <2>2 DEF Counted
  <2>8. Reasoned(u, t, m)
    BY <1>0, <1>8, <2>2, <2>3 DEF Reasoned
  <2>9. Checked(t, m)
    BY <1>0, <1>8, <2>2, CheckedStays
  <2> QED
    BY <2>1, <2>6, <2>7, <2>8, <2>9 DEF WayInv
<1>9. ASSUME m = k, NEW c \in 1 .. 4, Shifts(s, t, c) PROVE WayInv(u, t, m)
  <2>1. Windowed(t) /\ Passed(t) = Passed(s)
    BY <1>0, <1>9, SameWindowFacts DEF Shifts
  <2>2. Sent(t.lane) = Sent(s.lane) /\ Total(t.lane) = Total(s.lane)
    BY <1>1, <1>9, MovesSent DEF Shifts
  <2>3. t.lost = s.lost
    BY <1>9 DEF Shifts
  <2>4. Traced(t) /\ Counted(t, m) /\ Reasoned(u, t, m)
    BY <1>0, <1>9, <2>1, <2>2, <2>3 DEF Traced, Counted, Reasoned
  <2>5. Checked(t, m)
    BY <1>0, <1>9, ShiftsChecked
  <2> QED
    BY <2>1, <2>4, <2>5 DEF WayInv
<1>10. ASSUME m = k, NEW c \in Lanes, NEW why \in Reasons, Loses(s, t, c, why)
       PROVE  WayInv(u, t, m)
  <2> DEFINE l == [packet |-> Head(s.lane[c]).packet, why |-> why]
  <2>1. Windowed(t) /\ Passed(t) = Passed(s)
    BY <1>0, <1>10, SameWindowFacts DEF Loses
  <2>2. /\ Sent(s.lane) = Sent(t.lane) \cup {Head(s.lane[c]).packet}
        /\ Total(t.lane) = Total(s.lane) - 1
        /\ 1 \in 1 .. Len(s.lane[c]) /\ Head(s.lane[c]) = s.lane[c][1]
    BY <1>1, <1>10, LeavesSent DEF Loses
  <2>3. t.lost = s.lost \cup {l} /\ l.packet = Head(s.lane[c]).packet /\ l.why = why
    BY <1>10 DEF Loses
  <2> HIDE DEF l
  <2>4. NumbersOf(t.lost) = NumbersOf(s.lost) \cup {Head(s.lane[c]).packet}
    BY <1>4, <2>3
  <2>5. Traced(t)
    BY <1>0, <2>1, <2>2, <2>4 DEF Traced
  <2>6. Counted(t, m)
    BY <1>0, <1>2, <1>3, <1>10, <2>1, <2>2 DEF Counted
  <2>7. why # "astray" /\ (why \in {"dropped", "corrupted"} => k > 0)
    <3>1. why = "unreceived" \/ (why = "corrupted" /\ s.lane[c][1].damage = "caught")
      BY <1>10, <2>2 DEF Loses
    <3>2. k = 0 => s.lane[c][1].damage = "none"
      BY <1>0, <2>2 DEF Checked
    <3> QED
      BY <3>1, <3>2
  <2>8. Reasoned(u, t, m)
    BY <1>0, <1>10, <2>3, <2>7 DEF Reasoned
  <2>9. Checked(t, m)
    BY <1>0, <1>10, LosesChecked
  <2> QED
    BY <2>1, <2>5, <2>6, <2>8, <2>9 DEF WayInv
<1>11. ASSUME m = k + 1, NEW dropped \in SUBSET Nat, Harmed(s, t, dropped)
       PROVE  WayInv(u, t, m)
  <2>1. Windowed(t) /\ Passed(t) = Passed(s)
    BY <1>0, <1>11, SameWindowFacts DEF Harmed
  <2>2. Sent(t.lane) \cup dropped = Sent(s.lane) /\ Total(t.lane) <= Total(s.lane) + 1
    BY <1>11, HarmsSent
  <2>3. t.lost = s.lost \cup { [packet |-> n, why |-> "dropped"] : n \in dropped }
    BY <1>11 DEF Harmed
  <2>4. NumbersOf(t.lost) = NumbersOf(s.lost) \cup dropped
    <3> DEFINE r(n) == [packet |-> n, why |-> "dropped"]
    <3>1. \A n \in dropped : r(n).packet = n
      OBVIOUS
    <3>2. t.lost = s.lost \cup { r(n) : n \in dropped }
      BY <2>3
    <3> HIDE DEF r
    <3>3. NumbersOf(t.lost) \subseteq NumbersOf(s.lost) \cup dropped
      BY <3>1, <3>2 DEF NumbersOf
    <3>4. NumbersOf(s.lost) \subseteq NumbersOf(t.lost)
      BY <3>2 DEF NumbersOf
    <3>5. ASSUME NEW n \in dropped PROVE n \in NumbersOf(t.lost)
      <4>1. r(n) \in t.lost /\ r(n).packet = n
        BY <3>1, <3>2
      <4> QED
        BY <4>1 DEF NumbersOf
    <3> QED
      BY <3>3, <3>4, <3>5
  <2>5. Traced(t)
    BY <1>0, <2>1, <2>2, <2>4 DEF Traced
  <2>6. Counted(t, m)
    BY <1>0, <1>2, <1>3, <1>11, <2>1, <2>2 DEF Counted
  <2>7. m > 0
    BY <1>11
  <2>8. Reasoned(u, t, m)
    <3>1. \A l \in t.lost : l \in s.lost \/ l.why = "dropped"
      BY <2>3
    <3> QED
      BY <1>0, <2>7, <3>1 DEF Reasoned
  <2>9. Checked(t, m)
    BY <1>0, <1>11, HarmedChecked
  <2> QED
    BY <2>1, <2>5, <2>6, <2>8, <2>9 DEF WayInv
<1> QED
  BY <1>5, <1>6, <1>7, <1>8, <1>9, <1>10, <1>11 DEF WayStep

-----------------------------------------------------------------------------
(* Every step of the chat is a step of each direction. *)

\* The lanes, listed.
LEMMA FiveLanes == Lanes = {1, 2, 3, 4, 5}
BY DEF Lanes

\* The fields of the record, before and after a step.
Fields(e) ==
  /\ Way(e).made = made[e] /\ Way(e).window = window[e] /\ Way(e).lost = lost[e]
  /\ Way(e).lane = Lane(e)
  /\ Lane(e)[1] = printed[Other(e)] /\ Lane(e)[2] = queue[Other(e)]
  /\ Lane(e)[3] = hand[Other(e)] /\ Lane(e)[4] = socket[Other(e)] /\ Lane(e)[5] = network[e]
  /\ (Way(e)').made = made'[e] /\ (Way(e)').window = window'[e]
  /\ (Way(e)').lost = lost'[e] /\ (Way(e)').lane = Lane(e)'
  /\ Lane(e)'[1] = printed'[Other(e)] /\ Lane(e)'[2] = queue'[Other(e)]
  /\ Lane(e)'[3] = hand'[Other(e)] /\ Lane(e)'[4] = socket'[Other(e)]
  /\ Lane(e)'[5] = network'[e]

\* The fields of the record of a direction.
LEMMA WayFields ==
  ASSUME NEW e
  PROVE  Fields(e)
BY DEF Fields, Way, Lane

\* A step that touches no container of a direction leaves its record as it is.
LEMMA Untouched ==
  ASSUME NEW e, made'[e] = made[e], window'[e] = window[e], lost'[e] = lost[e],
         network'[e] = network[e], socket'[Other(e)] = socket[Other(e)],
         hand'[Other(e)] = hand[Other(e)], queue'[Other(e)] = queue[Other(e)],
         printed'[Other(e)] = printed[Other(e)]
  PROVE  Way(e)' = Way(e)
BY DEF Way, Lane

\* The record of a direction is well typed.
LEMMA WayShape ==
  ASSUME Shape, NEW e \in Endpoints
  PROVE  WayOK(Way(e))
<1>f. Fields(e)
  BY WayFields
<1>1. Other(e) \in Endpoints
  BY Others
<1>2. /\ printed[Other(e)] \in Seq(AnyDatagram) /\ queue[Other(e)] \in Seq(AnyDatagram)
      /\ hand[Other(e)] \in Seq(AnyDatagram) /\ socket[Other(e)] \in Seq(AnyDatagram)
      /\ network[e] \in Seq(AnyDatagram)
      /\ made[e] \in Nat /\ window[e] \in Seq(Nat)
      /\ lost[e] \subseteq [packet : Nat, why : Reasons]
  BY <1>1 DEF Shape
<1>3. Lanewise(Lane(e), AnyDatagram)
  BY <1>2, <1>f DEF Fields, Lanewise, Lanes
<1> QED
  BY <1>2, <1>3, <1>f DEF Fields, WayOK

\* Taking the head of one lane and appending it to the one before is a move.
LEMMA MovesBy ==
  ASSUME NEW L, NEW M, NEW c \in 1 .. 4, NEW b, b = c + 1, L[b] # << >>,
         M[c] = Append(L[c], Head(L[b])), M[b] = Tail(L[b]),
         \A a \in Lanes \ {c, b} : M[a] = L[a]
  PROVE  Moves(L, M, c)
BY DEF Moves

\* Before the programs start each direction is empty.
LEMMA InitWays ==
  ASSUME Init, NEW e \in Endpoints
  PROVE  WayInv(setUp[e], Way(e), faults)
<1> DEFINE s == Way(e)
<1>f. Fields(e)
  BY WayFields
<1>1. Other(e) \in Endpoints
  BY Others
<1>2. /\ made[e] = 0 /\ window[e] = << >> /\ lost[e] = {} /\ faults = 0
      /\ printed[Other(e)] = << >> /\ queue[Other(e)] = << >> /\ hand[Other(e)] = << >>
      /\ socket[Other(e)] = << >> /\ network[e] = << >>
  BY <1>1 DEF Init
<1>3. /\ s.made = 0 /\ s.window = << >> /\ s.lost = {}
      /\ \A a \in Lanes : s.lane[a] = << >>
  BY <1>2, <1>f, FiveLanes DEF Fields
<1> HIDE DEF s
<1>4. Len(s.window) = 0 /\ \A a \in Lanes : Len(s.lane[a]) = 0
  BY <1>3, EmptySeq
<1>5. Passed(s) = 0 /\ Windowed(s)
  <2>1. s.made = 0 /\ Len(s.window) = 0
    BY <1>3, <1>4
  <2> QED
    BY <2>1 DEF Passed, Windowed
<1>6. Sent(s.lane) = {} /\ NumbersOf(s.lost) = {} /\ 1 .. 0 = {}
  BY <1>3, <1>4 DEF Sent, NumbersOf
<1>7. Traced(s)
  BY <1>5, <1>6 DEF Traced
<1>8. Counted(s, faults)
  <2>1. Total(s.lane) = 0
    <3>1. /\ Len(s.lane[1]) = 0 /\ Len(s.lane[2]) = 0 /\ Len(s.lane[3]) = 0
          /\ Len(s.lane[4]) = 0 /\ Len(s.lane[5]) = 0
      BY <1>4, FiveLanes
    <3> QED
      BY <3>1 DEF Total
  <2> QED
    BY <1>2, <1>5, <2>1 DEF Counted
<1>9. Reasoned(setUp[e], s, faults)
  BY <1>3 DEF Reasoned
<1>10. Checked(s, faults)
  <2>1. \A a \in Lanes : 1 .. Len(s.lane[a]) = {}
    BY <1>4
  <2>2. 1 .. 3 \subseteq Lanes
    BY DEF Lanes
  <2> QED
    BY <2>1, <2>2 DEF Checked, Sorted
<1> QED
  BY <1>5, <1>7, <1>8, <1>9, <1>10 DEF WayInv, s

\* A packet that an endpoint x moves, or that the network moves, is of one direction.
LEMMA StepMakes ==
  ASSUME Shape, NEW x \in Endpoints, Make(x), NEW e \in Endpoints
  PROVE  WayStep(setUp[e], Way(e), Way(e)', faults, faults')
<1> USE DEF Shape, senderVars, receiverVars, netVars
<1>f. Fields(e)
  BY WayFields
<1>1. faults' = faults /\ faults \in Nat
  BY LdpChatAssumption DEF Make
<1>2. CASE e # x
  <2>1. Way(e)' = Way(e)
    BY <1>2, Untouched DEF Make
  <2> QED
    BY <1>1, <2>1 DEF WayStep
<1>3. CASE e = x
  <2>1. /\ made'[e] = made[e] + 1 /\ window'[e] = Append(window[e], made[e] + 1)
        /\ lost'[e] = lost[e] /\ Lane(e)' = Lane(e)
    BY <1>3 DEF Make, Lane
  <2>2. Makes(Way(e), Way(e)')
    BY <2>1, <1>f DEF Fields, Makes
  <2> QED
    BY <1>1, <2>2 DEF WayStep
<1> QED
  BY <1>2, <1>3

\* sendto by one endpoint: its own direction emits or loses a packet, or nothing
\* leaves.
LEMMA StepSends ==
  ASSUME Shape, Addressed, NEW x \in Endpoints, Sender(x), NEW e \in Endpoints
  PROVE  WayStep(setUp[e], Way(e), Way(e)', faults, faults')
<1> USE DEF Shape, senderVars, receiverVars, netVars
<1>f. Fields(e)
  BY WayFields
<1>1. faults' = faults /\ faults \in Nat
  BY LdpChatAssumption DEF Sender, UdpSend, UdpSendAstray, UdpSendFails
<1>2. CASE e # x \/ UdpSendFails(x)
  <2>1. Way(e)' = Way(e)
    BY <1>2, Untouched DEF Sender, UdpSend, UdpSendAstray, UdpSendFails, Lose
  <2> QED
    BY <1>1, <2>1 DEF WayStep
<1>3. CASE e = x /\ UdpSend(x)
  <2>1. /\ made'[e] = made[e] /\ window'[e] = Tail(window[e]) /\ window[e] # << >>
        /\ lost'[e] = lost[e]
        /\ network'[e] = Append(network[e], [packet |-> Head(window[e]), damage |-> "none"])
        /\ UNCHANGED << printed, queue, hand, socket >>
    BY <1>3 DEF UdpSend
  <2>2. \A a \in Lanes \ {5} : Lane(e)'[a] = Lane(e)[a]
    BY <2>1, <1>f, FiveLanes DEF Fields
  <2>3. Emits(Way(e), Way(e)')
    BY <2>1, <2>2, <1>f DEF Fields, Emits, Leaves1
  <2> QED
    BY <1>1, <2>3 DEF WayStep
<1>4. CASE e = x /\ UdpSendAstray(x)
  <2>1. /\ made'[e] = made[e] /\ window'[e] = Tail(window[e]) /\ window[e] # << >>
        /\ lost'[e] = lost[e] \cup {[packet |-> Head(window[e]), why |-> "astray"]}
        /\ Lane(e)' = Lane(e)
    BY <1>4 DEF UdpSendAstray, Lose, Lane
  <2>2. Astray(Way(e), Way(e)')
    BY <2>1, <1>f DEF Fields, Astray, Leaves1
  <2>3. setUp[e] = "unknown"
    BY <1>4 DEF Addressed, UdpSendAstray, Bound, Outcomes
  <2> QED
    BY <1>1, <2>2, <2>3 DEF WayStep
<1> QED
  BY <1>2, <1>3, <1>4 DEF Sender

\* udpReceive takes a packet into the hand, or refuses it; of the other direction it
\* changes nothing.
LEMMA StepReceives ==
  ASSUME Shape, NEW x \in Endpoints, UdpReceive(x), NEW e \in Endpoints
  PROVE  WayStep(setUp[e], Way(e), Way(e)', faults, faults')
<1> USE DEF Shape, senderVars, receiverVars, netVars
<1>f. Fields(e)
  BY WayFields
<1>1. faults' = faults /\ faults \in Nat
  BY LdpChatAssumption DEF UdpReceive
<1>0. Other(e) \in Endpoints /\ Other(x) \in Endpoints
  BY Others
<1>2. CASE e = x
  <2>1. x # Other(x)
    BY Others
  <2>2. lost'[e] = lost[e] /\ hand'[Other(e)] = hand[Other(e)]
    BY <1>0, <1>2, <2>1 DEF UdpReceive, Lose
  <2>3. /\ made'[e] = made[e] /\ window'[e] = window[e] /\ network'[e] = network[e]
        /\ socket'[Other(e)] = socket[Other(e)] /\ queue'[Other(e)] = queue[Other(e)]
        /\ printed'[Other(e)] = printed[Other(e)]
    BY <1>0, <1>2, <2>1 DEF UdpReceive
  <2>4. Way(e)' = Way(e)
    BY <2>2, <2>3, Untouched
  <2> QED
    BY <1>1, <2>4 DEF WayStep
<1>3. CASE e # x
  <2>1. e = Other(x) /\ x = Other(e)
    BY <1>3, Others
  <2>2. /\ made'[e] = made[e] /\ window'[e] = window[e]
        /\ socket[x] # << >> /\ socket'[x] = Tail(socket[x])
        /\ UNCHANGED << queue, printed, network >>
        /\ socket[x] \in Seq(AnyDatagram)
    BY DEF UdpReceive
  <2>3. Head(socket[x]) \in AnyDatagram
    BY <2>2, HeadTail
  <2>4. CASE Head(socket[x]).damage = "caught"
    <3>1. /\ lost'[e] = lost[e] \cup {[packet |-> Head(socket[x]).packet, why |-> "corrupted"]}
          /\ hand' = hand
      BY <1>0, <2>1, <2>4 DEF UdpReceive, Lose
    <3>2. Leaves(Lane(e), Lane(e)', 4)
      BY <2>1, <2>2, <3>1, <1>f, FiveLanes DEF Fields, Leaves
    <3>3. Loses(Way(e), Way(e)', 4, "corrupted")
      BY <2>1, <2>2, <2>4, <3>1, <3>2, <1>f DEF Fields, Loses, SameWindow
    <3> QED
      BY <1>1, <3>3 DEF WayStep, Lanes, Reasons
  <2>5. CASE Head(socket[x]).damage # "caught"
    <3>1. lost'[e] = lost[e] /\ hand'[x] = << Head(socket[x]) >>
      BY <2>5 DEF UdpReceive
    <3>2. hand'[x] = Append(hand[x], Head(socket[x]))
      <4>1. hand[x] = << >>
        BY DEF UdpReceive
      <4>2. Append(<< >>, Head(socket[x])) = << Head(socket[x]) >>
        BY <2>3
      <4> QED
        BY <3>1, <4>1, <4>2
    <3>3. Moves(Lane(e), Lane(e)', 3)
      <4>1. \A a \in Lanes \ {3, 4} : Lane(e)'[a] = Lane(e)[a]
        BY <2>1, <2>2, <3>1, <3>2, <1>f, FiveLanes DEF Fields
      <4>2. /\ Lane(e)[4] # << >> /\ Lane(e)'[4] = Tail(Lane(e)[4])
            /\ Lane(e)'[3] = Append(Lane(e)[3], Head(Lane(e)[4]))
        BY <2>1, <2>2, <3>2, <1>f DEF Fields
      <4>3. 4 = 3 + 1 /\ 3 \in 1 .. 4
        OBVIOUS
      <4> HIDE DEF Shape
      <4> QED
        BY <4>1, <4>2, <4>3, MovesBy
    <3>4. Shifts(Way(e), Way(e)', 3)
      BY <2>1, <2>2, <2>5, <3>1, <3>3, <1>f DEF Fields, Shifts, SameWindow
    <3> QED
      BY <1>1, <3>4 DEF WayStep
  <2> QED
    BY <2>4, <2>5
<1> QED
  BY <1>2, <1>3

\* The receiver moves the packet in its hand into the queue.
LEMMA StepEnqueues ==
  ASSUME Shape, Bounded, NEW x \in Endpoints, Enqueue(x), NEW e \in Endpoints
  PROVE  WayStep(setUp[e], Way(e), Way(e)', faults, faults')
<1> USE DEF Shape, senderVars, receiverVars, netVars
<1>f. Fields(e)
  BY WayFields
<1>1. faults' = faults /\ faults \in Nat
  BY LdpChatAssumption DEF Enqueue
<1>0. Other(e) \in Endpoints /\ Other(x) \in Endpoints
  BY Others
<1>2. CASE e = x
  <2>1. x # Other(x)
    BY Others
  <2>2. Way(e)' = Way(e)
    BY <1>0, <1>2, <2>1, Untouched DEF Enqueue
  <2> QED
    BY <1>1, <2>2 DEF WayStep
<1>3. CASE e # x
  <2>1. e = Other(x) /\ x = Other(e)
    BY <1>3, Others
  <2>2. /\ made'[e] = made[e] /\ window'[e] = window[e] /\ lost'[e] = lost[e]
        /\ hand[x] # << >> /\ hand'[x] = << >> /\ queue'[x] = Append(queue[x], Head(hand[x]))
        /\ UNCHANGED << socket, printed, network >>
        /\ hand[x] \in Seq(AnyDatagram) /\ Len(hand[x]) <= 1
    BY DEF Enqueue, Bounded
  <2>3. Tail(hand[x]) = << >>
    <3>1. /\ Tail(hand[x]) \in Seq(AnyDatagram) /\ Len(Tail(hand[x])) = Len(hand[x]) - 1
          /\ Len(hand[x]) \in Nat \ {0}
      BY <2>2, HeadTail
    <3>2. Len(Tail(hand[x])) = 0
      BY <2>2, <3>1
    <3> QED
      BY <3>1, <3>2, EmptySeq
  <2>4. Moves(Lane(e), Lane(e)', 2)
    <3>1. \A a \in Lanes \ {2, 3} : Lane(e)'[a] = Lane(e)[a]
      BY <2>1, <2>2, <2>3, <1>f, FiveLanes DEF Fields
    <3>2. /\ Lane(e)[3] # << >> /\ Lane(e)'[3] = Tail(Lane(e)[3])
          /\ Lane(e)'[2] = Append(Lane(e)[2], Head(Lane(e)[3]))
      BY <2>1, <2>2, <2>3, <1>f DEF Fields
    <3>3. 3 = 2 + 1 /\ 2 \in 1 .. 4
      OBVIOUS
    <3> HIDE DEF Shape
    <3> QED
      BY <3>1, <3>2, <3>3, MovesBy
  <2>5. Shifts(Way(e), Way(e)', 2)
    BY <2>2, <2>4, <1>f DEF Fields, Shifts, SameWindow
  <2> QED
    BY <1>1, <2>5 DEF WayStep
<1> QED
  BY <1>2, <1>3

\* The consumer moves a packet from the queue to the screen.
LEMMA StepPrints ==
  ASSUME Shape, NEW x \in Endpoints, PrintMessage(x), NEW e \in Endpoints
  PROVE  WayStep(setUp[e], Way(e), Way(e)', faults, faults')
<1> USE DEF Shape, senderVars, receiverVars, netVars
<1>f. Fields(e)
  BY WayFields
<1>1. faults' = faults /\ faults \in Nat
  BY LdpChatAssumption DEF PrintMessage
<1>0. Other(e) \in Endpoints /\ Other(x) \in Endpoints
  BY Others
<1>2. CASE e = x
  <2>1. x # Other(x)
    BY Others
  <2>2. Way(e)' = Way(e)
    BY <1>0, <1>2, <2>1, Untouched DEF PrintMessage
  <2> QED
    BY <1>1, <2>2 DEF WayStep
<1>3. CASE e # x
  <2>1. e = Other(x) /\ x = Other(e)
    BY <1>3, Others
  <2>2. /\ made'[e] = made[e] /\ window'[e] = window[e] /\ lost'[e] = lost[e]
        /\ queue[x] # << >> /\ queue'[x] = Tail(queue[x])
        /\ printed'[x] = Append(printed[x], Head(queue[x]))
        /\ UNCHANGED << socket, hand, network >>
    BY DEF PrintMessage
  <2>3. Moves(Lane(e), Lane(e)', 1)
    <3>1. \A a \in Lanes \ {1, 2} : Lane(e)'[a] = Lane(e)[a]
      BY <2>1, <2>2, <1>f, FiveLanes DEF Fields
    <3>2. /\ Lane(e)[2] # << >> /\ Lane(e)'[2] = Tail(Lane(e)[2])
          /\ Lane(e)'[1] = Append(Lane(e)[1], Head(Lane(e)[2]))
      BY <2>1, <2>2, <1>f DEF Fields
    <3>3. 2 = 1 + 1 /\ 1 \in 1 .. 4
      OBVIOUS
    <3> HIDE DEF Shape
    <3> QED
      BY <3>1, <3>2, <3>3, MovesBy
  <2>4. Shifts(Way(e), Way(e)', 1)
    BY <2>2, <2>3, <1>f DEF Fields, Shifts, SameWindow
  <2> QED
    BY <1>1, <2>4 DEF WayStep
<1> QED
  BY <1>2, <1>3

\* The network hands over its first datagram, or there is nobody or no room to take
\* it.
LEMMA StepDelivers ==
  ASSUME Shape, NEW x \in Endpoints, Deliver(x), NEW e \in Endpoints
  PROVE  WayStep(setUp[e], Way(e), Way(e)', faults, faults')
<1> USE DEF Shape, senderVars, receiverVars, netVars
<1>f. Fields(e)
  BY WayFields
<1>1. faults' = faults /\ faults \in Nat
  BY LdpChatAssumption DEF Deliver
<1>0. Other(e) \in Endpoints /\ Other(x) \in Endpoints
  BY Others
<1>2. CASE e # x
  <2>1. Other(e) # Other(x)
    BY <1>2, Others
  <2>2. lost'[e] = lost[e] /\ socket'[Other(e)] = socket[Other(e)]
    BY <1>0, <1>2, <2>1 DEF Deliver, Lose
  <2>3. /\ made'[e] = made[e] /\ window'[e] = window[e] /\ network'[e] = network[e]
        /\ UNCHANGED << hand, queue, printed >>
    BY <1>2 DEF Deliver
  <2>4. Way(e)' = Way(e)
    BY <2>2, <2>3, Untouched
  <2> QED
    BY <1>1, <2>4 DEF WayStep
<1>3. CASE e = x
  <2>1. /\ made'[e] = made[e] /\ window'[e] = window[e]
        /\ network[e] # << >> /\ network'[e] = Tail(network[e])
        /\ UNCHANGED << hand, queue, printed >>
    BY <1>3 DEF Deliver
  <2>2. CASE /\ socket'[Other(e)] = Append(socket[Other(e)], Head(network[e]))
             /\ lost' = lost
    <3>1. Moves(Lane(e), Lane(e)', 4)
      <4>1. \A a \in Lanes \ {4, 5} : Lane(e)'[a] = Lane(e)[a]
        BY <2>1, <2>2, <1>f, FiveLanes DEF Fields
      <4>2. /\ Lane(e)[5] # << >> /\ Lane(e)'[5] = Tail(Lane(e)[5])
            /\ Lane(e)'[4] = Append(Lane(e)[4], Head(Lane(e)[5]))
        BY <2>1, <2>2, <1>f DEF Fields
      <4>3. 5 = 4 + 1 /\ 4 \in 1 .. 4
        OBVIOUS
      <4> HIDE DEF Shape
      <4> QED
        BY <4>1, <4>2, <4>3, MovesBy
    <3>2. Shifts(Way(e), Way(e)', 4)
      BY <2>1, <2>2, <3>1, <1>f DEF Fields, Shifts, SameWindow
    <3> QED
      BY <1>1, <3>2 DEF WayStep
  <2>3. CASE /\ lost'[e] = lost[e] \cup {[packet |-> Head(network[e]).packet,
                                          why |-> "unreceived"]}
             /\ socket' = socket
    <3>1. Leaves(Lane(e), Lane(e)', 5)
      BY <2>1, <2>3, <1>f, FiveLanes DEF Fields, Leaves
    <3>2. Loses(Way(e), Way(e)', 5, "unreceived")
      BY <2>1, <2>3, <3>1, <1>f DEF Fields, Loses, SameWindow
    <3> QED
      BY <1>1, <3>2 DEF WayStep, Lanes, Reasons
  <2> QED
    BY <1>0, <1>3, <2>2, <2>3 DEF Deliver, Lose
<1> QED
  BY <1>2, <1>3

\* A fault of troll harms one direction.
LEMMA StepHarms ==
  ASSUME Shape, NEW x \in Endpoints, Fault(x), NEW e \in Endpoints
  PROVE  WayStep(setUp[e], Way(e), Way(e)', faults, faults')
<1> USE DEF Shape, senderVars, receiverVars, netVars
<1>f. Fields(e)
  BY WayFields
<1>1. faults' = faults + 1 /\ faults' >= faults
  BY LdpChatAssumption DEF Fault
<1>2. CASE e # x
  <2>1. lost'[e] = lost[e] /\ network'[e] = network[e]
    BY <1>2 DEF Fault, Lose
  <2>2. made'[e] = made[e] /\ window'[e] = window[e] /\ UNCHANGED << socket, hand, queue, printed >>
    BY DEF Fault
  <2>3. Way(e)' = Way(e)
    BY <2>1, <2>2, Untouched
  <2> QED
    BY <1>1, <2>3 DEF WayStep
<1>3. CASE e = x
  <2>1. made'[e] = made[e] /\ window'[e] = window[e] /\ UNCHANGED << socket, hand, queue, printed >>
    BY DEF Fault
  <2>2. \A a \in Lanes \ {5} : Lane(e)'[a] = Lane(e)[a]
    BY <2>1, <1>f, FiveLanes DEF Fields
  <2>3. PICK i \in 1 .. Len(network[e]) :
       \/ /\ network' = [network EXCEPT ![e] = Drop(@, i)]
          /\ Lose(e, network[e][i].packet, "dropped")
       \/ /\ \/ network' = [network EXCEPT ![e] = Repeat(@, i)]
             \/ i > 1 /\ network' = [network EXCEPT ![e] = Overtake(@, i)]
             \/ /\ network[e][i].damage = "none"
                /\ \E d \in Damages \ {"none"} :
                     network' = [network EXCEPT ![e] = Damage(@, i, d)]
          /\ UNCHANGED lost
    BY <1>3 DEF Fault
  <2>4. network[e] \in Seq(AnyDatagram)
    OBVIOUS
  <2>5. network[e][i] \in AnyDatagram
    BY <2>4, ElementOfSeq
  <2>6. network[e][i].packet \in Nat
    BY <2>5 DEF AnyDatagram
  <2>7. ASSUME NEW dropped \in SUBSET Nat, Harms(network[e], network'[e], dropped),
               lost'[e] = lost[e] \cup { [packet |-> n, why |-> "dropped"] : n \in dropped }
        PROVE  WayStep(setUp[e], Way(e), Way(e)', faults, faults')
    <3>1. Harmed(Way(e), Way(e)', dropped)
      BY <2>1, <2>2, <2>7, <1>f DEF Fields, Harmed, SameWindow
    <3> QED
      BY <1>1, <3>1 DEF WayStep
  <2>8. CASE /\ network' = [network EXCEPT ![e] = Drop(@, i)]
             /\ Lose(e, network[e][i].packet, "dropped")
    <3>1. Harms(network[e], network'[e], {network[e][i].packet})
      BY <2>4, <2>8, DropHarms
    <3>2. lost'[e] = lost[e] \cup { [packet |-> n, why |-> "dropped"] : n \in {network[e][i].packet} }
      BY <2>8 DEF Lose
    <3>3. {network[e][i].packet} \in SUBSET Nat
      BY <2>6
    <3> QED
      BY <2>7, <3>1, <3>2, <3>3
  <2>9. CASE /\ UNCHANGED lost
             /\ \/ network' = [network EXCEPT ![e] = Repeat(@, i)]
                \/ network' = [network EXCEPT ![e] = Overtake(@, i)]
                \/ \E d \in Damages : network' = [network EXCEPT ![e] = Damage(@, i, d)]
    <3>1. Harms(network[e], network'[e], {})
      BY <2>4, <2>9, RepeatHarms, OvertakeHarms, DamageHarms
    <3>2. lost'[e] = lost[e] \cup { [packet |-> n, why |-> "dropped"] : n \in {} }
      BY <2>9
    <3>3. {} \in SUBSET Nat
      OBVIOUS
    <3> QED
      BY <2>7, <3>1, <3>2, <3>3
  <2> QED
    BY <2>3, <2>8, <2>9
<1> QED
  BY <1>2, <1>3

\* Every step of the chat is a step of each direction.
LEMMA WaySteps ==
  ASSUME Shape, Addressed, Bounded, [Next]_vars, NEW e \in Endpoints
  PROVE  WayStep(setUp[e], Way(e), Way(e)', faults, faults')
<1>1. faults \in Nat
  BY LdpChatAssumption DEF Shape
<1>2. ASSUME NEW x \in Endpoints, Start(x) \/ ReceiverFails(x)
      PROVE  Way(e)' = Way(e) /\ faults' = faults
  BY <1>2, Untouched DEF Start, ReceiverFails, senderVars, receiverVars, netVars
<1>3. CASE UNCHANGED vars
  <2>1. Way(e)' = Way(e) /\ faults' = faults
    BY <1>3, Untouched DEF vars, senderVars, receiverVars, netVars
  <2> QED
    BY <1>1, <2>1 DEF WayStep
<1>4. ASSUME NEW x \in Endpoints, Start(x) \/ ReceiverFails(x)
      PROVE  WayStep(setUp[e], Way(e), Way(e)', faults, faults')
  BY <1>1, <1>2, <1>4 DEF WayStep
<1> QED
  BY <1>3, <1>4, StepMakes, StepSends, StepReceives, StepEnqueues, StepPrints, StepDelivers,
     StepHarms DEF Next, Quiet, Receiver

-----------------------------------------------------------------------------
(* The theorems. *)

\* The inductive invariant holds at the start.
LEMMA IInvInit == Init => IInv
BY InitShape, InitAddressed, InitWays DEF IInv

\* It is kept by every step.
LEMMA IInvNext == IInv /\ [Next]_vars => IInv'
<1> SUFFICES ASSUME IInv, [Next]_vars PROVE IInv'
  OBVIOUS
<1>1. Shape' /\ Addressed' /\ Bounded'
  BY ShapeKept, AddressedKept, BoundedKept DEF IInv
<1>2. faults \in Nat /\ faults' \in Nat
  BY <1>1, LdpChatAssumption DEF IInv, Shape
<1>3. ASSUME NEW e \in Endpoints PROVE WayInv(setUp'[e], Way(e)', faults')
  <2>f. Fields(e)
    BY WayFields
  <2>1. WayOK(Way(e))
    BY WayShape DEF IInv
  <2>2. WayOK(Way(e)')
    <3>1. Other(e) \in Endpoints
      BY Others
    <3>2. \A a \in Lanes : Lane(e)'[a] \in Seq(AnyDatagram)
      BY <1>1, <3>1, <2>f DEF Fields, Shape, Lanes
    <3>3. /\ made'[e] \in Nat /\ window'[e] \in Seq(Nat)
          /\ lost'[e] \subseteq [packet : Nat, why : Reasons]
      BY <1>1 DEF Shape
    <3> QED
      BY <3>2, <3>3, <2>f DEF Fields, WayOK, Lanewise
  <2>3. WayStep(setUp[e], Way(e), Way(e)', faults, faults') /\ WayInv(setUp[e], Way(e), faults)
    BY WaySteps DEF IInv
  <2>4. WayInv(setUp[e], Way(e)', faults')
    BY <1>2, <2>1, <2>2, <2>3, WayKept
  <2> QED
    BY <2>4, SetUpOnce
<1> QED
  BY <1>1, <1>3 DEF IInv

\* It holds always.
LEMMA IInvAlways == Spec => []IInv
<1>1. Init => IInv
  BY IInvInit
<1>2. IInv /\ [Next]_vars => IInv'
  BY IInvNext
<1> QED
  BY <1>1, <1>2, PTL DEF Spec

\* What the invariant says of one direction, in the words of LdpChat.
LEMMA OneWay ==
  ASSUME IInv, NEW e \in Endpoints
  PROVE  /\ Other(e) \in Endpoints
         /\ made[e] \in 0 .. MaxPackets[e] /\ window[e] \in Seq(Nat)
         /\ Len(window[e]) \in 0 .. made[e]
         /\ \A i \in 1 .. Len(window[e]) : window[e][i] = (made[e] - Len(window[e])) + i
         /\ Lanewise(Lane(e), AnyDatagram)
         /\ lost[e] \subseteq [packet : Nat, why : Reasons]
         /\ 1 .. made[e] - Len(window[e]) = Sent(Lane(e)) \cup LostOf(e)
         /\ Total(Lane(e)) <= (made[e] - Len(window[e])) + faults
         /\ \A l \in lost[e] : /\ l.why = "astray" => setUp[e] = "unknown"
                               /\ l.why \in {"dropped", "corrupted"} => faults > 0
         /\ \A a \in 1 .. 3 : \A i \in 1 .. Len(Lane(e)[a]) : Lane(e)[a][i].damage # "caught"
         /\ faults = 0 =>
              /\ \A a \in Lanes : \A i \in 1 .. Len(Lane(e)[a]) : Lane(e)[a][i].damage = "none"
              /\ Sorted(Lane(e))
<1>f. Fields(e)
  BY WayFields
<1>s. Way(e).made = made[e] /\ Way(e).window = window[e] /\ Way(e).lost = lost[e]
      /\ Way(e).lane = Lane(e)
  BY <1>f DEF Fields
<1>1. WayOK(Way(e)) /\ WayInv(setUp[e], Way(e), faults)
  BY WayShape DEF IInv
<1>2. Passed(Way(e)) = made[e] - Len(window[e])
  BY <1>s DEF Passed
<1>3. NumbersOf(Way(e).lost) = LostOf(e)
  BY <1>s DEF NumbersOf, LostOf
<1>4. MaxPackets[e] \in Nat /\ made[e] <= MaxPackets[e] /\ Other(e) \in Endpoints
  BY LdpChatAssumption, Others DEF IInv, Bounded
<1>5. made[e] \in Nat /\ window[e] \in Seq(Nat) /\ Lanewise(Lane(e), AnyDatagram)
      /\ lost[e] \subseteq [packet : Nat, why : Reasons]
  BY <1>1, <1>s DEF WayOK
<1>6. /\ Len(window[e]) <= made[e]
      /\ \A i \in 1 .. Len(window[e]) : window[e][i] = (made[e] - Len(window[e])) + i
  BY <1>1, <1>2, <1>s DEF WayInv, Windowed
<1>7. made[e] \in 0 .. MaxPackets[e] /\ Len(window[e]) \in 0 .. made[e]
  <2>1. Len(window[e]) \in Nat
    BY <1>5, LenProperties
  <2> QED
    BY <1>4, <1>5, <1>6, <2>1
<1>8. /\ 1 .. made[e] - Len(window[e]) = Sent(Lane(e)) \cup LostOf(e)
      /\ Total(Lane(e)) <= (made[e] - Len(window[e])) + faults
  BY <1>1, <1>2, <1>3, <1>s DEF WayInv, Traced, Counted
<1>9. \A l \in lost[e] : /\ l.why = "astray" => setUp[e] = "unknown"
                         /\ l.why \in {"dropped", "corrupted"} => faults > 0
  BY <1>1, <1>s DEF WayInv, Reasoned
<1>10. /\ \A a \in 1 .. 3 : \A i \in 1 .. Len(Lane(e)[a]) : Lane(e)[a][i].damage # "caught"
       /\ faults = 0 =>
            /\ \A a \in Lanes : \A i \in 1 .. Len(Lane(e)[a]) : Lane(e)[a][i].damage = "none"
            /\ Sorted(Lane(e))
  BY <1>1, <1>s DEF WayInv, Checked
<1> QED
  BY <1>4, <1>5, <1>6, <1>7, <1>8, <1>9, <1>10

\* A sequence is one of whatever all its elements are in.
LEMMA Retyped ==
  ASSUME NEW D, NEW E, NEW s \in Seq(D), \A i \in 1 .. Len(s) : s[i] \in E
  PROVE  s \in Seq(E)
<1>1. s \in [1 .. Len(s) -> D] /\ Len(s) \in Nat
  BY LenProperties
<1>2. s \in [1 .. Len(s) -> E]
  BY <1>1
<1> QED
  BY <1>1, <1>2, SeqDef

\* TypeOK: the variables have their types, the windows, queues and sockets hold no more
\* than they may, and every packet number is of a packet that was made.
THEOREM TypeCorrect == Spec => []TypeOK
<1>1. IInv => TypeOK
  <2> SUFFICES ASSUME IInv PROVE TypeOK
    OBVIOUS
  <2>1. /\ status \in [Endpoints -> {"off", "running", "exited"}]
        /\ setUp \in [Endpoints -> Outcomes]
        /\ peer \in [Endpoints -> {"set", "unset"}] /\ faults \in 0 .. MaxFaults
    BY DEF IInv, Shape
  <2>2. ASSUME NEW e \in Endpoints
        PROVE  /\ made[e] \in 0 .. MaxPackets[e]
               /\ window[e] \in Seq(1 .. MaxPackets[e]) /\ Len(window[e]) <= WindowCapacity
               /\ \A s \in {network[e], socket[Other(e)], hand[Other(e)], queue[Other(e)],
                            printed[Other(e)]} : s \in Seq(Datagrams(e))
               /\ Len(hand[e]) <= 1 /\ Len(queue[e]) <= QueueCapacity
               /\ Len(socket[e]) <= SocketSize
               /\ lost[e] \subseteq [packet : 1 .. MaxPackets[e],
                                     why : {"astray", "unreceived", "dropped", "corrupted"}]
    <3>1. /\ made[e] \in 0 .. MaxPackets[e] /\ window[e] \in Seq(Nat)
          /\ Len(window[e]) \in 0 .. made[e]
          /\ \A i \in 1 .. Len(window[e]) : window[e][i] = (made[e] - Len(window[e])) + i
          /\ Lanewise(Lane(e), AnyDatagram)
          /\ lost[e] \subseteq [packet : Nat, why : Reasons]
          /\ 1 .. made[e] - Len(window[e]) = Sent(Lane(e)) \cup LostOf(e)
      BY OneWay
    <3>2. MaxPackets[e] \in Nat
      BY LdpChatAssumption
    <3>3. \A i \in 1 .. Len(window[e]) : window[e][i] \in 1 .. MaxPackets[e]
      BY <3>1, <3>2
    <3>4. window[e] \in Seq(1 .. MaxPackets[e])
      BY <3>1, <3>3, Retyped
    <3>5. 1 .. made[e] - Len(window[e]) \subseteq 1 .. MaxPackets[e]
      BY <3>1, <3>2
    <3>6. ASSUME NEW a \in Lanes PROVE Lane(e)[a] \in Seq(Datagrams(e))
      <4>1. Lane(e)[a] \in Seq(AnyDatagram)
        BY <3>1 DEF Lanewise
      <4>2. ASSUME NEW i \in 1 .. Len(Lane(e)[a]) PROVE Lane(e)[a][i] \in Datagrams(e)
        <5>1. /\ Lane(e)[a][i] \in AnyDatagram
              /\ Lane(e)[a][i].packet \in Sent(Lane(e))
          BY <3>1, PacketNumbers
        <5>2. Lane(e)[a][i].packet \in 1 .. MaxPackets[e]
          BY <3>1, <3>5, <5>1
        <5> QED
          BY <5>1, <5>2 DEF AnyDatagram, Datagrams
      <4> QED
        BY <4>1, <4>2, Retyped
    <3>7. \A s \in {network[e], socket[Other(e)], hand[Other(e)], queue[Other(e)],
                    printed[Other(e)]} : s \in Seq(Datagrams(e))
      <4>1. Fields(e)
        BY WayFields
      <4>2. /\ Lane(e)[1] \in Seq(Datagrams(e)) /\ Lane(e)[2] \in Seq(Datagrams(e))
            /\ Lane(e)[3] \in Seq(Datagrams(e)) /\ Lane(e)[4] \in Seq(Datagrams(e))
            /\ Lane(e)[5] \in Seq(Datagrams(e))
        BY <3>6, FiveLanes
      <4> QED
        BY <4>1, <4>2 DEF Fields
    <3>8. lost[e] \subseteq [packet : 1 .. MaxPackets[e], why : Reasons]
      <4> SUFFICES ASSUME NEW l \in lost[e]
                   PROVE  l \in [packet : 1 .. MaxPackets[e], why : Reasons]
        OBVIOUS
      <4>1. l \in [packet : Nat, why : Reasons] /\ l.packet \in LostOf(e)
        BY <3>1 DEF LostOf
      <4>2. l.packet \in 1 .. MaxPackets[e]
        BY <3>1, <3>5, <4>1
      <4> QED
        BY <4>1, <4>2
    <3>9. /\ Len(window[e]) <= WindowCapacity /\ Len(hand[e]) <= 1
          /\ Len(queue[e]) <= QueueCapacity /\ Len(socket[e]) <= SocketSize
      BY DEF IInv, Bounded
    <3> QED
      BY <3>1, <3>4, <3>7, <3>8, <3>9 DEF Reasons
  <2> QED
    BY <2>1, <2>2 DEF TypeOK
<1> QED
  BY <1>1, IInvAlways, PTL

\* What is printed of a direction is its first lane.
LEMMA FirstLane ==
  ASSUME NEW e \in Endpoints
  PROVE  /\ Other(e) \in Endpoints /\ printed[e] = Lane(Other(e))[1]
         /\ 1 \in Lanes /\ 1 \in 1 .. 3
<1>1. Other(e) \in Endpoints /\ Other(Other(e)) = e
  BY Others
<1>2. Fields(Other(e))
  BY WayFields
<1> QED
  BY <1>1, <1>2 DEF Fields, Lanes

\* InOrder: on a network that does no harm what is printed is printed once, in order and
\* undamaged.
THEOREM PrintedInOrder == Spec => []InOrder
<1>1. IInv => InOrder
  <2> SUFFICES ASSUME IInv, faults = 0, NEW e \in Endpoints,
                      NEW i \in 1 .. Len(printed[e]), NEW j \in 1 .. Len(printed[e])
               PROVE  /\ i < j => printed[e][i].packet < printed[e][j].packet
                      /\ printed[e][i].damage = "none"
    BY DEF InOrder
  <2>1. /\ Other(e) \in Endpoints /\ printed[e] = Lane(Other(e))[1] /\ 1 \in Lanes
    BY FirstLane
  <2>2. /\ \A a \in Lanes : \A n \in 1 .. Len(Lane(Other(e))[a]) :
             Lane(Other(e))[a][n].damage = "none"
        /\ Sorted(Lane(Other(e)))
    BY <2>1, OneWay
  <2> QED
    BY <2>1, <2>2 DEF Sorted
<1> QED
  BY <1>1, IInvAlways, PTL

\* OnlyLastByteSlips: no packet that the checksum catches is printed, whatever the network
\* does.
THEOREM NothingCaughtIsPrinted == Spec => []OnlyLastByteSlips
<1>1. IInv => OnlyLastByteSlips
  <2> SUFFICES ASSUME IInv, NEW e \in Endpoints, NEW i \in 1 .. Len(printed[e])
               PROVE  printed[e][i].damage # "caught"
    BY DEF OnlyLastByteSlips
  <2>1. /\ Other(e) \in Endpoints /\ printed[e] = Lane(Other(e))[1] /\ 1 \in 1 .. 3
    BY FirstLane
  <2>2. \A a \in 1 .. 3 : \A n \in 1 .. Len(Lane(Other(e))[a]) :
          Lane(Other(e))[a][n].damage # "caught"
    BY <2>1, OneWay
  <2> QED
    BY <2>1, <2>2
<1> QED
  BY <1>1, IInvAlways, PTL

\* KeepsUp: only a program that set-up left without an address or a socket, and that has
\* printed nothing, ever exits.
THEOREM ExitsOnlyUnaddressed == Spec => []KeepsUp
<1>1. IInv => KeepsUp
  BY DEF IInv, Addressed, KeepsUp
<1> QED
  BY <1>1, IInvAlways, PTL

\* The lanes one behind the other hold what the lanes hold.
LEMMA Joined ==
  ASSUME NEW s \in Seq(AnyDatagram), NEW t \in Seq(AnyDatagram)
  PROVE  /\ s \o t \in Seq(AnyDatagram) /\ Len(s \o t) = Len(s) + Len(t)
         /\ Len(s) \in Nat /\ Len(t) \in Nat
         /\ PacketsOf(s \o t) = PacketsOf(s) \cup PacketsOf(t)
<1>1. /\ s \o t \in Seq(AnyDatagram) /\ Len(s \o t) = Len(s) + Len(t)
      /\ \A i \in 1 .. Len(s) + Len(t) :
           (s \o t)[i] = IF i <= Len(s) THEN s[i] ELSE t[i - Len(s)]
      /\ Len(s) \in Nat /\ Len(t) \in Nat
  BY ConcatProperties, LenProperties
<1> DEFINE u == s \o t
<1>2. /\ Len(u) = Len(s) + Len(t)
      /\ \A i \in 1 .. Len(s) + Len(t) : u[i] = IF i <= Len(s) THEN s[i] ELSE t[i - Len(s)]
  BY <1>1
<1> HIDE DEF u
<1>3. ASSUME NEW i \in 1 .. Len(u) PROVE u[i].packet \in PacketsOf(s) \cup PacketsOf(t)
  <2>1. CASE i <= Len(s)
    <3>1. i \in 1 .. Len(s) /\ u[i] = s[i]
      BY <1>1, <1>2, <2>1
    <3> QED
      BY <3>1 DEF PacketsOf
  <2>2. CASE ~ (i <= Len(s))
    <3>1. i - Len(s) \in 1 .. Len(t) /\ u[i] = t[i - Len(s)]
      BY <1>1, <1>2, <2>2
    <3> QED
      BY <3>1 DEF PacketsOf
  <2> QED
    BY <2>1, <2>2
<1>4. ASSUME NEW i \in 1 .. Len(s) PROVE s[i].packet \in PacketsOf(u)
  <2>1. i \in 1 .. Len(u) /\ u[i] = s[i]
    BY <1>1, <1>2
  <2> QED
    BY <2>1 DEF PacketsOf
<1>5. ASSUME NEW i \in 1 .. Len(t) PROVE t[i].packet \in PacketsOf(u)
  <2>1. /\ Len(s) + i \in 1 .. Len(u) /\ ~ (Len(s) + i <= Len(s))
        /\ (Len(s) + i) - Len(s) = i
    BY <1>1, <1>2
  <2>2. u[Len(s) + i] = t[i]
    BY <1>2, <2>1
  <2> QED
    BY <2>1, <2>2 DEF PacketsOf
<1>6. PacketsOf(u) = PacketsOf(s) \cup PacketsOf(t)
  <2>1. PacketsOf(u) \subseteq PacketsOf(s) \cup PacketsOf(t)
    BY <1>3 DEF PacketsOf
  <2>2. PacketsOf(s) \subseteq PacketsOf(u)
    BY <1>4 DEF PacketsOf
  <2>3. PacketsOf(t) \subseteq PacketsOf(u)
    BY <1>5 DEF PacketsOf
  <2> QED
    BY <2>1, <2>2, <2>3
<1> QED
  BY <1>1, <1>6 DEF u

\* The copies the property counts are those in the five lanes.
LEMMA CopiesAreTheLanes ==
  ASSUME NEW e, Lanewise(Lane(e), AnyDatagram)
  PROVE  Len(Copies(e)) = Total(Lane(e)) /\ PacketsOf(Copies(e)) = Sent(Lane(e))
<1> DEFINE l(a) == Lane(e)[a]
           c2 == l(5) \o l(4)
           c3 == c2 \o l(3)
           c4 == c3 \o l(2)
           c5 == c4 \o l(1)
<1>1. Copies(e) = c5
  BY DEF Copies, Lane
<1>2. \A a \in Lanes : l(a) \in Seq(AnyDatagram)
  BY DEF Lanewise
<1>3. /\ l(1) \in Seq(AnyDatagram) /\ l(2) \in Seq(AnyDatagram) /\ l(3) \in Seq(AnyDatagram)
      /\ l(4) \in Seq(AnyDatagram) /\ l(5) \in Seq(AnyDatagram)
  BY <1>2, FiveLanes
<1>t. Total(Lane(e)) = Len(l(1)) + Len(l(2)) + Len(l(3)) + Len(l(4)) + Len(l(5))
  BY DEF Total
<1>s. ASSUME NEW a \in Lanes, NEW i \in 1 .. Len(l(a))
      PROVE  l(a)[i].packet \in Nat /\ l(a)[i].packet \in Sent(Lane(e))
  BY PacketNumbers
<1>u. ASSUME NEW n \in Sent(Lane(e)) PROVE \E a \in Lanes : \E i \in 1 .. Len(l(a)) : l(a)[i].packet = n
  BY DEF Sent
<1> HIDE DEF l
<1>4. /\ c2 \in Seq(AnyDatagram) /\ Len(c2) = Len(l(5)) + Len(l(4))
      /\ Len(l(5)) \in Nat /\ Len(l(4)) \in Nat
      /\ PacketsOf(c2) = PacketsOf(l(5)) \cup PacketsOf(l(4))
  BY <1>3, Joined
<1> HIDE DEF c2
<1>5. /\ c3 \in Seq(AnyDatagram) /\ Len(c3) = Len(c2) + Len(l(3)) /\ Len(l(3)) \in Nat
      /\ PacketsOf(c3) = PacketsOf(c2) \cup PacketsOf(l(3))
  BY <1>3, <1>4, Joined
<1> HIDE DEF c3
<1>6. /\ c4 \in Seq(AnyDatagram) /\ Len(c4) = Len(c3) + Len(l(2)) /\ Len(l(2)) \in Nat
      /\ PacketsOf(c4) = PacketsOf(c3) \cup PacketsOf(l(2))
  BY <1>3, <1>5, Joined
<1> HIDE DEF c4
<1>7. /\ c5 \in Seq(AnyDatagram) /\ Len(c5) = Len(c4) + Len(l(1)) /\ Len(l(1)) \in Nat
      /\ PacketsOf(c5) = PacketsOf(c4) \cup PacketsOf(l(1))
  BY <1>3, <1>6, Joined
<1> HIDE DEF c5
<1>8. Len(c5) = Total(Lane(e))
  BY <1>4, <1>5, <1>6, <1>7, <1>t
<1>9. PacketsOf(c5) = PacketsOf(l(1)) \cup PacketsOf(l(2)) \cup PacketsOf(l(3))
                        \cup PacketsOf(l(4)) \cup PacketsOf(l(5))
  BY <1>4, <1>5, <1>6, <1>7
<1>10. ASSUME NEW n \in Sent(Lane(e)) PROVE n \in PacketsOf(c5)
  <2>1. PICK a \in Lanes : \E i \in 1 .. Len(l(a)) : l(a)[i].packet = n
    BY <1>u
  <2>2. n \in PacketsOf(l(a))
    BY <2>1 DEF PacketsOf
  <2> QED
    BY <1>9, <2>2, FiveLanes
<1>11. ASSUME NEW a \in Lanes PROVE PacketsOf(l(a)) \subseteq Sent(Lane(e))
  BY <1>s DEF PacketsOf
<1>12. PacketsOf(c5) \subseteq Sent(Lane(e))
  BY <1>9, <1>11, FiveLanes
<1> QED
  BY <1>1, <1>8, <1>10, <1>12

\* Accounted: neither program repeats a packet or loses one on its own.
THEOREM PacketsAreAccounted == Spec => []Accounted
<1>1. IInv => Accounted
  <2> SUFFICES ASSUME IInv, NEW e \in Endpoints
               PROVE  /\ 1 .. made[e] = InWindow(e) \cup PacketsOf(Copies(e)) \cup LostOf(e)
                      /\ Len(window[e]) + Len(Copies(e)) <= made[e] + faults
                      /\ \A l \in lost[e] : /\ l.why = "astray" => setUp[e] = "unknown"
                                            /\ l.why \in {"dropped", "corrupted"} => faults > 0
    BY DEF Accounted
  <2>1. /\ made[e] \in 0 .. MaxPackets[e] /\ Len(window[e]) \in 0 .. made[e]
        /\ \A i \in 1 .. Len(window[e]) : window[e][i] = (made[e] - Len(window[e])) + i
        /\ Lanewise(Lane(e), AnyDatagram)
        /\ 1 .. made[e] - Len(window[e]) = Sent(Lane(e)) \cup LostOf(e)
        /\ Total(Lane(e)) <= (made[e] - Len(window[e])) + faults
        /\ \A l \in lost[e] : /\ l.why = "astray" => setUp[e] = "unknown"
                              /\ l.why \in {"dropped", "corrupted"} => faults > 0
    BY OneWay
  <2>2. MaxPackets[e] \in Nat /\ faults \in Nat
    BY LdpChatAssumption DEF IInv, Shape
  <2>3. Len(Copies(e)) = Total(Lane(e)) /\ PacketsOf(Copies(e)) = Sent(Lane(e))
    BY <2>1, CopiesAreTheLanes
  <2> DEFINE k == Len(window[e])
             m == made[e]
  <2>4. InWindow(e) = (m - k) + 1 .. m
    <3>1. ASSUME NEW i \in 1 .. k PROVE window[e][i] \in (m - k) + 1 .. m
      BY <2>1, <2>2
    <3>2. ASSUME NEW n \in (m - k) + 1 .. m PROVE \E i \in 1 .. k : window[e][i] = n
      <4>1. n - (m - k) \in 1 .. k /\ (m - k) + (n - (m - k)) = n
        BY <2>1, <2>2
      <4> QED
        BY <2>1, <4>1
    <3> QED
      BY <3>1, <3>2 DEF InWindow
  <2>5. 1 .. m = ((m - k) + 1 .. m) \cup (1 .. m - k)
    BY <2>1, <2>2
  <2>6. 1 .. m = InWindow(e) \cup PacketsOf(Copies(e)) \cup LostOf(e)
    BY <2>1, <2>3, <2>4, <2>5
  <2>7. Lanewise(Lane(e), AnyDatagram) => Total(Lane(e)) \in Nat
    BY LastLaneTotal
  <2>8. k + Total(Lane(e)) <= m + faults
    BY <2>1, <2>2, <2>7
  <2> QED
    BY <2>1, <2>3, <2>6, <2>8
<1> QED
  BY <1>1, IInvAlways, PTL
-----------------------------------------------------------------------------
(* A calm chat is two pipes. *)

\* The network does no harm, both programs run from the beginning and set-up succeeds, the
\* user at the server waits to be written to, and a socket holds all that one user says.
Calm ==
  /\ MaxFaults = 0 /\ Started = Endpoints /\ ServerWaits
  /\ SetUps[Client] = {"known"} /\ SetUps[Server] = {"unknown"}
  /\ \A e \in Endpoints : MaxPackets[e] <= SocketSize

\* How many packets lie in the lanes before each lane.
Before(L) ==
  << 0, Len(L[1]), Len(L[1]) + Len(L[2]), Len(L[1]) + Len(L[2]) + Len(L[3]),
     Len(L[1]) + Len(L[2]) + Len(L[3]) + Len(L[4]) >>

\* Nothing was lost, and the lanes laid end to end are the packets 1, 2, 3, ... up to the
\* last one that left the window.
Straight(s) ==
  /\ s.lost = {} /\ Total(s.lane) = Passed(s)
  /\ \A a \in Lanes : \A i \in 1 .. Len(s.lane[a]) :
       s.lane[a][i].packet = Before(s.lane)[a] + i

\* The same, number by number.
LEMMA BeforeFacts ==
  ASSUME NEW L, \A a \in Lanes : Len(L[a]) \in Nat
  PROVE  /\ Before(L)[1] = 0 /\ Before(L)[2] = Len(L[1])
         /\ Before(L)[3] = Len(L[1]) + Len(L[2])
         /\ Before(L)[4] = Len(L[1]) + Len(L[2]) + Len(L[3])
         /\ Before(L)[5] = Len(L[1]) + Len(L[2]) + Len(L[3]) + Len(L[4])
         /\ Total(L) = Before(L)[5] + Len(L[5])
         /\ \A a \in Lanes : Before(L)[a] \in Nat
         /\ \A c \in 1 .. 4 : Before(L)[c + 1] = Before(L)[c] + Len(L[c])
<1> DEFINE l(a) == Len(L[a])
           p(a) == Before(L)[a]
<1>1. \A a \in Lanes : l(a) \in Nat
  OBVIOUS
<1>2. /\ p(1) = 0 /\ p(2) = l(1) /\ p(3) = l(1) + l(2) /\ p(4) = l(1) + l(2) + l(3)
      /\ p(5) = l(1) + l(2) + l(3) + l(4)
  BY DEF Before
<1>3. Total(L) = p(5) + l(5)
  BY <1>2 DEF Total
<1> HIDE DEF l, p
<1>4. p(2) = p(1) + l(1) /\ p(3) = p(2) + l(2) /\ p(4) = p(3) + l(3) /\ p(5) = p(4) + l(4)
  BY <1>1, <1>2, SMT DEF Lanes
<1>5. l(1) \in Nat /\ l(2) \in Nat /\ l(3) \in Nat /\ l(4) \in Nat
  BY <1>1, FiveLanes
<1>6. \A a \in Lanes : p(a) \in Nat
  <2>1. p(1) \in Nat
    BY <1>2
  <2>2. p(2) \in Nat
    BY <1>4, <1>5, <2>1
  <2>3. p(3) \in Nat
    BY <1>4, <1>5, <2>2
  <2>4. p(4) \in Nat
    BY <1>4, <1>5, <2>3
  <2>5. p(5) \in Nat
    BY <1>4, <1>5, <2>4
  <2> QED
    BY <2>1, <2>2, <2>3, <2>4, <2>5, FiveLanes
<1>7. ASSUME NEW c \in 1 .. 4 PROVE p(c + 1) = p(c) + l(c)
  <2>1. (c = 1 /\ c + 1 = 2) \/ (c = 2 /\ c + 1 = 3) \/ (c = 3 /\ c + 1 = 4) \/ (c = 4 /\ c + 1 = 5)
    OBVIOUS
  <2> QED
    BY <1>4, <2>1
<1> QED
  BY <1>2, <1>3, <1>6, <1>7 DEF l, p

\* When a packet moves on, one more lies before the lane it left, and as many as ever
\* before the others.
LEMMA BeforeMoves ==
  ASSUME NEW L, NEW M, NEW c \in 1 .. 4, MovedOn(L, M, c)
  PROVE  /\ \A a \in Lanes \ {c + 1} : Before(M)[a] = Before(L)[a]
         /\ Before(M)[c + 1] = Before(L)[c + 1] + 1
<1> DEFINE l(a) == Len(L[a])
           m(a) == Len(M[a])
           p(a) == Before(L)[a]
           q(a) == Before(M)[a]
<1>1. /\ m(c) = l(c) + 1 /\ m(c + 1) = l(c + 1) - 1
      /\ \A a \in Lanes \ {c, c + 1} : m(a) = l(a)
      /\ \A a \in Lanes : l(a) \in Nat /\ m(a) \in Nat
  BY DEF MovedOn
<1>2. /\ p(1) = 0 /\ p(2) = l(1) /\ p(3) = l(1) + l(2) /\ p(4) = l(1) + l(2) + l(3)
      /\ p(5) = l(1) + l(2) + l(3) + l(4)
  BY <1>1, BeforeFacts
<1>3. /\ q(1) = 0 /\ q(2) = m(1) /\ q(3) = m(1) + m(2) /\ q(4) = m(1) + m(2) + m(3)
      /\ q(5) = m(1) + m(2) + m(3) + m(4)
  BY <1>1, BeforeFacts
<1> HIDE DEF l, m, p, q
<1>4. CASE c = 1
  <2>1. /\ l(1) \in Nat /\ l(2) \in Nat /\ l(3) \in Nat /\ l(4) \in Nat
        /\ m(1) = l(1) + 1 /\ m(2) = l(2) - 1 /\ m(3) = l(3) /\ m(4) = l(4)
    BY <1>1, <1>4, SMT DEF Lanes
  <2>2. q(2) = p(2) + 1 /\ q(1) = p(1) /\ q(3) = p(3) /\ q(4) = p(4) /\ q(5) = p(5)
    BY <1>2, <1>3, <2>1
  <2> QED
    BY <1>4, <2>2, FiveLanes DEF p, q
<1>5. CASE c = 2
  <2>1. /\ l(1) \in Nat /\ l(2) \in Nat /\ l(3) \in Nat /\ l(4) \in Nat
        /\ m(1) = l(1) /\ m(2) = l(2) + 1 /\ m(3) = l(3) - 1 /\ m(4) = l(4)
    BY <1>1, <1>5, SMT DEF Lanes
  <2>2. q(3) = p(3) + 1 /\ q(1) = p(1) /\ q(2) = p(2) /\ q(4) = p(4) /\ q(5) = p(5)
    BY <1>2, <1>3, <2>1
  <2> QED
    BY <1>5, <2>2, FiveLanes DEF p, q
<1>6. CASE c = 3
  <2>1. /\ l(1) \in Nat /\ l(2) \in Nat /\ l(3) \in Nat /\ l(4) \in Nat
        /\ m(1) = l(1) /\ m(2) = l(2) /\ m(3) = l(3) + 1 /\ m(4) = l(4) - 1
    BY <1>1, <1>6, SMT DEF Lanes
  <2>2. q(4) = p(4) + 1 /\ q(1) = p(1) /\ q(2) = p(2) /\ q(3) = p(3) /\ q(5) = p(5)
    BY <1>2, <1>3, <2>1
  <2> QED
    BY <1>6, <2>2, FiveLanes DEF p, q
<1>7. CASE c = 4
  <2>1. /\ l(1) \in Nat /\ l(2) \in Nat /\ l(3) \in Nat /\ l(4) \in Nat
        /\ m(1) = l(1) /\ m(2) = l(2) /\ m(3) = l(3) /\ m(4) = l(4) + 1
    BY <1>1, <1>7, SMT DEF Lanes
  <2>2. q(5) = p(5) + 1 /\ q(1) = p(1) /\ q(2) = p(2) /\ q(3) = p(3) /\ q(4) = p(4)
    BY <1>2, <1>3, <2>1
  <2> QED
    BY <1>7, <2>2, FiveLanes DEF p, q
<1>8. c = 1 \/ c = 2 \/ c = 3 \/ c = 4
  OBVIOUS
<1> QED
  BY <1>4, <1>5, <1>6, <1>7, <1>8

\* What a calm chat keeps besides.
Calmly ==
  /\ \A e \in Endpoints : Running(e) /\ Straight(Way(e))
  /\ made[Server] > 0 => printed[Server] # << >>

\* It does so at first.
LEMMA InitCalmly ==
  ASSUME Calm
  PROVE  Init => Calmly
<1> SUFFICES ASSUME Init PROVE Calmly
  OBVIOUS
<1>1. made[Server] = 0 /\ \A e \in Endpoints : Running(e)
  BY DEF Init, Calm, Running, Endpoints
<1>2. ASSUME NEW e \in Endpoints PROVE Straight(Way(e))
  <2>f. Fields(e) /\ Other(e) \in Endpoints
    BY WayFields, Others
  <2>1. /\ made[e] = 0 /\ window[e] = << >> /\ lost[e] = {}
        /\ \A a \in Lanes : Lane(e)[a] = << >>
    BY <2>f, FiveLanes DEF Init, Fields
  <2>2. Len(<< >>) = 0
    OBVIOUS
  <2>3. Total(Lane(e)) = 0 /\ Passed(Way(e)) = 0
    <3>1. /\ Len(Lane(e)[1]) = 0 /\ Len(Lane(e)[2]) = 0 /\ Len(Lane(e)[3]) = 0
          /\ Len(Lane(e)[4]) = 0 /\ Len(Lane(e)[5]) = 0
      BY <2>1, <2>2, FiveLanes
    <3>2. Way(e).made = 0 /\ Len(Way(e).window) = 0
      BY <2>1, <2>2, <2>f DEF Fields
    <3> QED
      BY <3>1, <3>2 DEF Total, Passed
  <2>4. \A a \in Lanes : \A i \in 1 .. Len(Lane(e)[a]) : FALSE
    BY <2>1, <2>2
  <2> QED
    BY <2>1, <2>3, <2>4, <2>f DEF Straight, Fields
<1> QED
  BY <1>1, <1>2 DEF Calmly

\* In a calm chat every socket is bound, and only the server has to wait for an address.
LEMMA CalmSetUps ==
  ASSUME Calm, IInv, NEW e \in Endpoints
  PROVE  Bound(e) /\ (setUp[e] # "known" => e = Server)
<1>1. e = Client \/ e = Server
  BY DEF Endpoints
<1>2. setUp[e] \in SetUps[e]
  BY DEF IInv, Shape
<1> QED
  BY <1>1, <1>2 DEF Calm, Bound

\* In a calm chat nobody sends without an address: the server makes no packet before one
\* was printed, and then it has one.
LEMMA CalmAddresses ==
  ASSUME Calm, IInv, Calmly, NEW e \in Endpoints, window[e] # << >>
  PROVE  peer[e] = "set"
<1>1. Len(window[e]) \in Nat \ {0} /\ Len(window[e]) <= made[e] /\ made[e] \in Nat
  <2>1. window[e] \in Seq(Nat) /\ Len(window[e]) \in 0 .. made[e] /\ made[e] \in Nat
    BY OneWay DEF IInv, Shape
  <2> QED
    BY <2>1, EmptySeq
<1>2. ASSUME peer[e] = "unset" PROVE FALSE
  <2>1. e = Server /\ printed[e] = << >>
    BY <1>2, CalmSetUps DEF IInv, Addressed
  <2> QED
    BY <1>1, <2>1 DEF Calmly
<1> QED
  BY <1>2 DEF IInv, Shape

\* In a calm chat the socket has room for what the network delivers.
LEMMA CalmSockets ==
  ASSUME Calm, IInv, Calmly, NEW e \in Endpoints, network[e] # << >>
  PROVE  Running(Other(e)) /\ Bound(Other(e)) /\ Len(socket[Other(e)]) < SocketSize
<1>f. Fields(e) /\ Other(e) \in Endpoints
  BY WayFields, Others
<1>1. /\ Lanewise(Lane(e), AnyDatagram) /\ made[e] \in 0 .. MaxPackets[e]
      /\ window[e] \in Seq(Nat) /\ Len(window[e]) \in 0 .. made[e]
  BY OneWay
<1>2. \A a \in Lanes : Lane(e)[a] \in Seq(AnyDatagram) /\ Len(Lane(e)[a]) \in Nat
  BY <1>1, LenProperties DEF Lanewise
<1>3. Len(Lane(e)[5]) \in Nat \ {0}
  BY <1>2, <1>f, FiveLanes, EmptySeq DEF Fields
<1>4. Total(Lane(e)) = made[e] - Len(window[e])
  BY <1>f DEF Calmly, Straight, Passed, Fields
<1>5. MaxPackets[e] <= SocketSize /\ MaxPackets[e] \in Nat /\ SocketSize \in Nat
  BY LdpChatAssumption DEF Calm
<1>6. Len(Lane(e)[4]) < SocketSize
  <2>1. /\ Len(Lane(e)[4]) \in Nat /\ Before(Lane(e))[4] \in Nat
        /\ Before(Lane(e))[5] = Before(Lane(e))[4] + Len(Lane(e)[4])
        /\ Total(Lane(e)) = Before(Lane(e))[5] + Len(Lane(e)[5])
    <3>1. 4 \in Lanes /\ 4 \in 1 .. 4 /\ 4 + 1 = 5
      BY DEF Lanes
    <3> QED
      BY <1>2, <3>1, BeforeFacts
  <2> DEFINE l(a) == Len(Lane(e)[a])
             p(a) == Before(Lane(e))[a]
  <2>2. l(4) + 1 <= Total(Lane(e))
    <3>1. l(5) \in Nat \ {0} /\ l(4) \in Nat /\ p(4) \in Nat /\ p(5) = p(4) + l(4)
          /\ Total(Lane(e)) = p(5) + l(5)
      BY <1>3, <2>1
    <3> HIDE DEF l, p
    <3> QED
      BY <3>1
  <2>3. Total(Lane(e)) <= SocketSize /\ Total(Lane(e)) \in Int
    BY <1>1, <1>4, <1>5
  <2> QED
    BY <1>5, <2>1, <2>2, <2>3
<1> QED
  BY <1>6, <1>f, CalmSetUps DEF Fields, Calmly

\* So no step loses anything or makes a program exit.
LEMMA CalmSteps ==
  ASSUME Calm, IInv, Calmly, [Next]_vars
  PROVE  /\ faults' = faults /\ lost' = lost /\ \A e \in Endpoints : Running(e)'
         /\ made'[Server] > 0 => printed'[Server] # << >>
<1> DEFINE Goal == /\ faults' = faults /\ lost' = lost /\ status' = status
                   /\ made'[Server] > 0 => printed'[Server] # << >>
<1>s. Server \in Endpoints /\ (made[Server] > 0 => printed[Server] # << >>)
  BY DEF Calmly, Endpoints
<1>r. faults = 0 /\ \A e \in Endpoints : Running(e)
  BY DEF IInv, Shape, Calm, Calmly
<1>1. ASSUME NEW e \in Endpoints, Start(e) PROVE Goal
  BY <1>1, <1>r DEF Start, Running
<1>2. ASSUME NEW e \in Endpoints, Make(e) PROVE Goal
  <2>1. e = Server => printed[Server] # << >>
    BY <1>2 DEF Make, Calm
  <2>2. /\ faults' = faults /\ lost' = lost /\ status' = status /\ printed' = printed
        /\ e # Server => made'[Server] = made[Server]
    BY <1>2, <1>s DEF Make, receiverVars, netVars, IInv, Shape
  <2> QED
    BY <1>s, <2>1, <2>2
<1>3. ASSUME NEW e \in Endpoints, Sender(e) PROVE Goal
  <2>1. window[e] # << >>
    BY <1>3 DEF Sender, UdpSend, UdpSendAstray, UdpSendFails
  <2>2. UdpSend(e)
    BY <1>3, <2>1, CalmAddresses, CalmSetUps DEF Sender, UdpSendAstray, UdpSendFails
  <2> QED
    BY <1>s, <2>2 DEF UdpSend, receiverVars
<1>4. ASSUME NEW e \in Endpoints, UdpReceive(e) PROVE Goal
  <2>f. Fields(Other(e)) /\ Other(e) \in Endpoints /\ Other(Other(e)) = e
    BY WayFields, Others
  <2>1. socket[e] = Lane(Other(e))[4] /\ 4 \in Lanes
    BY <2>f, FiveLanes DEF Fields
  <2>2. /\ Lanewise(Lane(Other(e)), AnyDatagram)
        /\ \A i \in 1 .. Len(socket[e]) : socket[e][i].damage = "none"
    BY <1>r, <2>1, <2>f, OneWay
  <2>3. socket[e] \in Seq(AnyDatagram) /\ socket[e] # << >>
    BY <1>4, <2>1, <2>2 DEF Lanewise, UdpReceive
  <2>4. Head(socket[e]) = socket[e][1] /\ 1 \in 1 .. Len(socket[e])
    BY <2>3, HeadTail
  <2>5. Head(socket[e]).damage # "caught"
    BY <2>2, <2>4
  <2> QED
    BY <1>4, <1>s, <2>5 DEF UdpReceive, senderVars
<1>5. ASSUME NEW e \in Endpoints, Enqueue(e) PROVE Goal
  BY <1>5, <1>s DEF Enqueue, senderVars, netVars
<1>6. ASSUME NEW e \in Endpoints, PrintMessage(e) PROVE Goal
  <2>1. faults' = faults /\ lost' = lost /\ status' = status /\ made' = made
    BY <1>6 DEF PrintMessage, senderVars, netVars
  <2>2. e # Server => printed'[Server] = printed[Server]
    BY <1>6, <1>s DEF PrintMessage, IInv, Shape
  <2>3. e = Server => printed'[Server] # << >>
    <3>1. printed \in [Endpoints -> Seq(AnyDatagram)] /\ queue[e] \in Seq(AnyDatagram)
      BY DEF IInv, Shape
    <3>2. queue[e] # << >> /\ printed'[e] = Append(printed[e], Head(queue[e]))
      BY <1>6, <3>1 DEF PrintMessage
    <3>3. Head(queue[e]) \in AnyDatagram
      BY <3>1, <3>2, HeadTail
    <3>4. Len(printed'[e]) = Len(printed[e]) + 1 /\ Len(printed[e]) \in Nat
      BY <3>1, <3>2, <3>3, Appended
    <3>5. Len(<< >>) = 0
      OBVIOUS
    <3> QED
      BY <3>4, <3>5
  <2> QED
    BY <1>s, <2>1, <2>2, <2>3
<1>7. ASSUME NEW e \in Endpoints, Deliver(e) PROVE Goal
  <2>1. Running(Other(e)) /\ Bound(Other(e)) /\ Len(socket[Other(e)]) < SocketSize
    BY <1>7, CalmSockets DEF Deliver
  <2> QED
    BY <1>7, <1>s, <2>1 DEF Deliver, senderVars, receiverVars
<1>8. ASSUME NEW e \in Endpoints, Fault(e) \/ ReceiverFails(e) PROVE FALSE
  BY <1>8, <1>r, CalmSetUps DEF Fault, ReceiverFails, Calm
<1>9. ASSUME UNCHANGED vars PROVE Goal
  BY <1>9, <1>s DEF vars, senderVars, receiverVars, netVars
<1> HIDE DEF Goal
<1>10. Goal
  BY <1>1, <1>2, <1>3, <1>4, <1>5, <1>6, <1>7, <1>8, <1>9 DEF Next, Quiet, Receiver
<1> QED
  BY <1>10, <1>r DEF Goal, Running

\* A step that loses nothing keeps a direction straight.
LEMMA StraightKept ==
  ASSUME NEW u, NEW s, NEW t, NEW k \in Nat, WayOK(s), WayOK(t), Windowed(s), Straight(s),
         t.lost = s.lost, WayStep(u, s, t, k, k)
  PROVE  Straight(t)
<1> DEFINE L == s.lane
           M == t.lane
<1>0. /\ s.lost = {} /\ t.lost = {} /\ Total(L) = Passed(s)
      /\ \A a \in Lanes : \A i \in 1 .. Len(L[a]) : L[a][i].packet = Before(L)[a] + i
  BY DEF Straight
<1>t. Lanewise(L, AnyDatagram) /\ Lanewise(M, AnyDatagram)
  BY DEF WayOK
<1>l. /\ \A a \in Lanes : Len(L[a]) \in Nat /\ Len(M[a]) \in Nat
      /\ 1 \in Lanes /\ 2 \in Lanes /\ 3 \in Lanes /\ 4 \in Lanes /\ 5 \in Lanes
  BY <1>t, FiveLanes, LenProperties DEF Lanewise
<1>1. CASE t = s
  BY <1>1
<1>2. CASE Makes(s, t)
  <2>1. M = L /\ Passed(t) = Passed(s)
    BY <1>2, MakesFacts DEF Makes
  <2> QED
    BY <1>0, <2>1 DEF Straight
<1>3. CASE Emits(s, t)
  <2> DEFINE d == [packet |-> Head(s.window), damage |-> "none"]
  <2>1. /\ s.window \in Seq(Nat) /\ s.window # << >> /\ s.made \in Nat
        /\ t.window = Tail(s.window) /\ t.made = s.made
    BY <1>3 DEF Emits, Leaves1, WayOK
  <2>2. /\ Head(s.window) = s.window[1] /\ Head(s.window) \in Nat
        /\ Len(s.window) \in Nat \ {0} /\ Len(t.window) = Len(s.window) - 1
    BY <2>1, HeadTail
  <2>3. Passed(t) = Passed(s) + 1 /\ Head(s.window) = Passed(s) + 1
    BY <2>1, <2>2 DEF Passed, Windowed
  <2>4. d \in AnyDatagram /\ d.packet = Passed(s) + 1
    BY <2>2, <2>3 DEF AnyDatagram, Damages
  <2>5. M[5] = Append(L[5], d) /\ \A a \in Lanes \ {5} : M[a] = L[a]
    BY <1>3 DEF Emits
  <2> HIDE DEF d, L, M
  <2>6. /\ Len(M[5]) = Len(L[5]) + 1 /\ M[5][Len(L[5]) + 1] = d
        /\ \A i \in 1 .. Len(L[5]) : M[5][i] = L[5][i]
    BY <1>t, <1>l, <2>4, <2>5, Appended DEF Lanewise
  <2>7. M[1] = L[1] /\ M[2] = L[2] /\ M[3] = L[3] /\ M[4] = L[4]
    BY <2>5, FiveLanes
  <2>8. /\ Before(M) = Before(L) /\ Before(L)[5] + Len(L[5]) = Total(L)
        /\ Before(M)[5] + Len(M[5]) = Total(M) /\ Before(L)[5] \in Nat
        /\ Len(L[5]) \in Nat
    BY <2>7, <1>l, BeforeFacts DEF Before
  <2>9. Total(M) = Total(L) + 1
    BY <2>6, <2>8
  <2>10. ASSUME NEW a \in Lanes, NEW i \in 1 .. Len(M[a]) PROVE M[a][i].packet = Before(M)[a] + i
    <3>1. CASE a # 5
      BY <1>0, <2>5, <2>8, <3>1
    <3>2. CASE a = 5 /\ i \in 1 .. Len(L[5])
      BY <1>0, <2>6, <2>8, <3>2, <1>l
    <3>3. CASE a = 5 /\ i = Len(L[5]) + 1
      <4>1. M[a][i] = d
        BY <2>6, <3>3
      <4>2. d.packet = Before(L)[5] + Len(L[5]) + 1
        BY <1>0, <2>4, <2>8
      <4> QED
        BY <2>8, <3>3, <4>1, <4>2
    <3> QED
      BY <3>1, <3>2, <3>3, <2>6, <1>l
  <2>11. t.lost = {} /\ Total(t.lane) = Passed(t)
    BY <1>0, <2>3, <2>9 DEF M
  <2> QED
    BY <2>10, <2>11 DEF Straight, M
<1>4. ASSUME Astray(s, t) PROVE FALSE
  BY <1>0, <1>4 DEF Astray
<1>5. ASSUME NEW c \in 1 .. 4, Shifts(s, t, c) PROVE Straight(t)
  <2>1. Moves(L, M, c) /\ Passed(t) = Passed(s)
    BY <1>5, SameWindowFacts DEF Shifts, SameWindow, Passed
  <2> HIDE DEF L, M
  <2>2. Total(M) = Total(L) /\ MovedOn(L, M, c)
    BY <1>t, <2>1, MovesSent
  <2>3. c \in Lanes /\ c + 1 \in Lanes /\ c + 1 # c
    BY DEF Lanes
  <2>4. /\ \A a \in Lanes \ {c + 1} : Before(M)[a] = Before(L)[a]
        /\ Before(M)[c + 1] = Before(L)[c + 1] + 1
        /\ Before(L)[c + 1] = Before(L)[c] + Len(L[c])
        /\ Before(L)[c] \in Nat /\ Before(L)[c + 1] \in Nat
    <3>1. /\ \A a \in Lanes \ {c + 1} : Before(M)[a] = Before(L)[a]
          /\ Before(M)[c + 1] = Before(L)[c + 1] + 1
      BY <2>2, BeforeMoves
    <3>2. \A a \in Lanes : Len(L[a]) \in Nat
      BY <1>l
    <3>3. /\ \A a \in Lanes : Before(L)[a] \in Nat
          /\ \A b \in 1 .. 4 : Before(L)[b + 1] = Before(L)[b] + Len(L[b])
      BY <3>2, BeforeFacts
    <3> QED
      BY <2>3, <3>1, <3>3
  <2>5. ASSUME NEW a \in Lanes, NEW i \in 1 .. Len(M[a]) PROVE M[a][i].packet = Before(M)[a] + i
    <3>1. CASE a \notin {c, c + 1}
      <4>1. M[a] = L[a] /\ Before(M)[a] = Before(L)[a]
        BY <2>2, <2>4, <3>1 DEF MovedOn
      <4> QED
        BY <1>0, <4>1
    <3>2. CASE a = c /\ i \in 1 .. Len(L[c])
      <4>1. M[a][i] = L[c][i] /\ Before(M)[a] = Before(L)[c]
        BY <2>2, <2>3, <2>4, <3>2 DEF MovedOn
      <4>2. L[c][i].packet = Before(L)[c] + i
        BY <1>0, <2>3, <3>2
      <4> QED
        BY <4>1, <4>2
    <3>3. CASE a = c /\ i = Len(L[c]) + 1
      <4>1. M[a][i] = L[c + 1][1] /\ 1 \in 1 .. Len(L[c + 1])
        BY <2>2, <2>3, <3>3 DEF MovedOn
      <4>2. L[c + 1][1].packet = Before(L)[c + 1] + 1
        BY <1>0, <2>3, <4>1
      <4> QED
        BY <1>l, <2>3, <2>4, <3>3, <4>1, <4>2
    <3>4. CASE a = c + 1
      <4>1. i \in 1 .. Len(L[c + 1]) - 1 /\ M[a][i] = L[c + 1][i + 1] /\ i + 1 \in 1 .. Len(L[c + 1])
        BY <2>2, <2>3, <3>4 DEF MovedOn
      <4>2. L[c + 1][i + 1].packet = Before(L)[c + 1] + (i + 1)
        BY <1>0, <2>3, <4>1
      <4> QED
        BY <2>3, <2>4, <3>4, <4>1, <4>2
    <3> QED
      BY <3>1, <3>2, <3>3, <3>4, <2>2, <2>3 DEF MovedOn
  <2>6. t.lost = {} /\ Total(t.lane) = Passed(t)
    BY <1>0, <2>1, <2>2 DEF L, M
  <2> QED
    BY <2>5, <2>6 DEF Straight, M
<1>6. ASSUME NEW c \in Lanes, NEW why \in Reasons, Loses(s, t, c, why) PROVE FALSE
  BY <1>0, <1>6 DEF Loses
<1>7. ~ (k = k + 1)
  OBVIOUS
<1> QED
  BY <1>1, <1>2, <1>3, <1>4, <1>5, <1>6, <1>7 DEF WayStep

\* The direction of an endpoint, and what a step of a calm chat does to it.
LEMMA CalmWay ==
  ASSUME Calm, IInv, IInv', Calmly, [Next]_vars, NEW e \in Endpoints
  PROVE  /\ WayStep(setUp[e], Way(e), Way(e)', 0, 0) /\ WayOK(Way(e)) /\ WayOK(Way(e)')
         /\ Windowed(Way(e)) /\ Straight(Way(e)) /\ Way(e)'.lost = Way(e).lost
<1>1. WayOK(Way(e))
  BY WayShape DEF IInv
<1>2. WayOK(Way(e)')
  <2>f. Fields(e) /\ Other(e) \in Endpoints
    BY WayFields, Others
  <2>1. Shape'
    BY DEF IInv
  <2>2. \A a \in Lanes : Lane(e)'[a] \in Seq(AnyDatagram)
    BY <2>1, <2>f DEF Fields, Shape, Lanes
  <2>3. /\ made'[e] \in Nat /\ window'[e] \in Seq(Nat)
        /\ lost'[e] \subseteq [packet : Nat, why : Reasons]
    BY <2>1 DEF Shape
  <2> QED
    BY <2>2, <2>3, <2>f DEF Fields, WayOK, Lanewise
<1>3. faults = 0 /\ faults' = 0 /\ Way(e)'.lost = Way(e).lost
  <2>1. faults = 0
    BY DEF IInv, Shape, Calm
  <2> QED
    BY <2>1, CalmSteps, WayFields DEF Fields
<1>4. WayStep(setUp[e], Way(e), Way(e)', faults, faults')
  BY WaySteps DEF IInv
<1> QED
  BY <1>1, <1>2, <1>3, <1>4 DEF IInv, WayInv, Calmly

\* A calm chat stays calm.
LEMMA CalmlyKept ==
  ASSUME Calm
  PROVE  IInv /\ IInv' /\ Calmly /\ [Next]_vars => Calmly'
<1> SUFFICES ASSUME IInv, IInv', Calmly, [Next]_vars PROVE Calmly'
  OBVIOUS
<1>1. ASSUME NEW e \in Endpoints PROVE Straight(Way(e)')
  BY CalmWay, StraightKept
<1> QED
  BY <1>1, CalmSteps DEF Calmly

\* The numbers up to the next one.
LEMMA NumbersGrow ==
  ASSUME NEW n \in Nat
  PROVE  /\ Numbers(n + 1) = Append(Numbers(n), n + 1) /\ Len(Numbers(n)) = n
         /\ \A k \in 1 .. n : Numbers(n)[k] = k
<1>1. Numbers(n) \in Seq(Nat) /\ Len(Numbers(n)) = n /\ DOMAIN Numbers(n) = 1 .. n
  BY DEF Numbers
<1>2. /\ Append(Numbers(n), n + 1) \in [1 .. n + 1 -> Nat]
      /\ Append(Numbers(n), n + 1)[n + 1] = n + 1
      /\ \A k \in 1 .. n : Append(Numbers(n), n + 1)[k] = Numbers(n)[k]
  <2>1. /\ Append(Numbers(n), n + 1) \in Seq(Nat) /\ Len(Append(Numbers(n), n + 1)) = n + 1
        /\ Append(Numbers(n), n + 1)[n + 1] = n + 1
        /\ \A k \in 1 .. n : Append(Numbers(n), n + 1)[k] = Numbers(n)[k]
    <3>1. n + 1 \in Nat
      OBVIOUS
    <3> QED
      BY <1>1, <3>1, Appended
  <2> QED
    BY <2>1, LenProperties
<1>3. \A k \in 1 .. n : Numbers(n)[k] = k
  BY DEF Numbers
<1>4. \A k \in 1 .. n + 1 : Append(Numbers(n), n + 1)[k] = Numbers(n + 1)[k]
  BY <1>2, <1>3 DEF Numbers
<1>5. Numbers(n + 1) \in [1 .. n + 1 -> Nat]
  BY DEF Numbers
<1> QED
  BY <1>1, <1>2, <1>3, <1>4, <1>5

NumbersIn(q) == [k \in 1 .. Len(q) |-> q[k].packet]

\* The numbers of a sequence of packets with one packet more.
LEMMA NumbersAppended ==
  ASSUME NEW q \in Seq(AnyDatagram), NEW d \in AnyDatagram
  PROVE  NumbersIn(Append(q, d)) = Append(NumbersIn(q), d.packet)
<1>1. /\ Len(q) \in Nat /\ \A k \in 1 .. Len(q) : q[k] \in AnyDatagram
      /\ Len(Append(q, d)) = Len(q) + 1 /\ Append(q, d)[Len(q) + 1] = d
      /\ \A k \in 1 .. Len(q) : Append(q, d)[k] = q[k]
  BY Appended, LenProperties
<1>2. d.packet \in Nat /\ \A k \in 1 .. Len(q) : q[k].packet \in Nat
  BY <1>1 DEF AnyDatagram
<1>3. /\ NumbersIn(q) \in Seq(Nat) /\ Len(NumbersIn(q)) = Len(q)
      /\ \A k \in 1 .. Len(q) : NumbersIn(q)[k] = q[k].packet
  BY <1>1, <1>2 DEF NumbersIn
<1>4. /\ Append(NumbersIn(q), d.packet) \in [1 .. Len(q) + 1 -> Nat]
      /\ Append(NumbersIn(q), d.packet)[Len(q) + 1] = d.packet
      /\ \A k \in 1 .. Len(q) : Append(NumbersIn(q), d.packet)[k] = q[k].packet
  <2>1. /\ Append(NumbersIn(q), d.packet) \in Seq(Nat)
        /\ Len(Append(NumbersIn(q), d.packet)) = Len(q) + 1
        /\ Append(NumbersIn(q), d.packet)[Len(q) + 1] = d.packet
        /\ \A k \in 1 .. Len(q) : Append(NumbersIn(q), d.packet)[k] = NumbersIn(q)[k]
    BY <1>2, <1>3, Appended
  <2> QED
    BY <1>3, <2>1, LenProperties
<1>5. /\ DOMAIN NumbersIn(Append(q, d)) = 1 .. Len(q) + 1
      /\ \A k \in 1 .. Len(q) + 1 : NumbersIn(Append(q, d))[k] = Append(q, d)[k].packet
      /\ NumbersIn(Append(q, d)) = [k \in 1 .. Len(q) + 1 |-> NumbersIn(Append(q, d))[k]]
  BY <1>1 DEF NumbersIn
<1>6. ASSUME NEW k \in 1 .. Len(q) + 1
      PROVE  NumbersIn(Append(q, d))[k] = Append(NumbersIn(q), d.packet)[k]
  BY <1>1, <1>4, <1>5
<1> QED
  BY <1>4, <1>5, <1>6

\* What a step does to what entered a direction and to what left it.
LEMMA PipeSteps ==
  ASSUME Calm, IInv, IInv', Calmly, [Next]_vars, NEW e \in Endpoints
  PROVE  LET N == Numbers(made[e])
             P == PrintedNumbers(Other(e))
         IN  \/ /\ Len(N) - Len(P) < MaxPackets[e] /\ P' = P
                /\ \E item \in 1 .. MaxPackets[e] : N' = Append(N, item)
             \/ Len(P) < Len(N) /\ P' = Append(P, N[Len(P) + 1]) /\ N' = N
             \/ N' = N /\ P' = P
<1> DEFINE N == Numbers(made[e])
           o == Other(e)
           P == PrintedNumbers(o)
           L == Lane(e)
           M == Lane(e)'
<1>f. Fields(e)
  BY WayFields
<1>s. /\ WayStep(setUp[e], Way(e), Way(e)', 0, 0) /\ WayOK(Way(e)) /\ WayOK(Way(e)')
      /\ Straight(Way(e)) /\ Way(e)'.lost = Way(e).lost
  BY CalmWay
<1>1. /\ P = NumbersIn(L[1]) /\ P' = NumbersIn(M[1]) /\ N' = Numbers(made'[e])
      /\ Way(e).lane = L /\ Way(e)'.lane = M
  BY <1>f DEF Fields, PrintedNumbers, NumbersIn
<1>2. /\ L[1] \in Seq(AnyDatagram) /\ L[2] \in Seq(AnyDatagram)
      /\ \A a \in Lanes : Len(L[a]) \in Nat
      /\ 1 \in Lanes /\ 2 \in Lanes /\ 3 \in Lanes /\ 4 \in Lanes /\ 5 \in Lanes
  BY <1>s, <1>1, FiveLanes, LenProperties DEF WayOK, Lanewise
<1>3. made[e] \in Nat /\ made'[e] \in Nat /\ made'[e] <= MaxPackets[e]
  BY DEF IInv, Shape, Bounded
<1>4. Len(P) = Len(L[1]) /\ Len(N) = made[e]
  <2>1. Len(N) = made[e]
    BY <1>3, NumbersGrow
  <2>2. Len(L[1]) \in Nat /\ P = [k \in 1 .. Len(L[1]) |-> L[1][k].packet]
    BY <1>1, <1>2 DEF NumbersIn
  <2> HIDE DEF L, P
  <2> QED
    BY <2>1, <2>2
<1> HIDE DEF N, P, L, M
<1>5. CASE M[1] = L[1] /\ made'[e] = made[e]
  BY <1>1, <1>5 DEF N, P
<1>6. CASE Makes(Way(e), Way(e)')
  <2>1. made'[e] = made[e] + 1 /\ M = L
    BY <1>1, <1>6, <1>f DEF Makes, Fields
  <2>2. N' = Append(N, made[e] + 1) /\ P' = P
    BY <1>1, <1>3, <2>1, NumbersGrow DEF N
  <2>3. made[e] + 1 \in 1 .. MaxPackets[e] /\ Len(N) - Len(P) < MaxPackets[e]
    BY <1>2, <1>3, <1>4, <2>1, LdpChatAssumption
  <2> QED
    BY <2>2, <2>3 DEF N, P
<1>7. CASE Shifts(Way(e), Way(e)', 1)
  <2>1. /\ made'[e] = made[e] /\ 1 + 1 = 2 /\ L[2] # << >>
        /\ M[1] = Append(L[1], Head(L[2]))
    BY <1>1, <1>7, <1>f DEF Shifts, SameWindow, Moves, Fields
  <2>2. Head(L[2]) \in AnyDatagram /\ Head(L[2]) = L[2][1] /\ Len(L[2]) \in Nat \ {0}
    BY <1>2, <2>1, HeadTail
  <2>3. Head(L[2]).packet = Len(L[1]) + 1
    <3>1. L[2][1].packet = Before(L)[2] + 1
      BY <1>s, <1>1, <1>2, <2>2 DEF Straight
    <3> QED
      BY <2>2, <3>1 DEF Before
  <2>4. Len(L[1]) + 1 \in 1 .. made[e]
    <3>1. Total(L) = Way(e).made - Len(Way(e).window) /\ Way(e).made = made[e]
      BY <1>s, <1>1, <1>f DEF Straight, Passed, Fields
    <3>2. Len(Way(e).window) \in Nat
      BY <1>s, LenProperties DEF WayOK
    <3>3. /\ Before(L)[3] = Len(L[1]) + Len(L[2]) /\ Before(L)[3] \in Nat
          /\ Before(L)[4] = Before(L)[3] + Len(L[3]) /\ Before(L)[5] = Before(L)[4] + Len(L[4])
          /\ Total(L) = Before(L)[5] + Len(L[5])
      <4>1. 3 \in 1 .. 4 /\ 3 + 1 = 4 /\ 4 \in 1 .. 4 /\ 4 + 1 = 5
        OBVIOUS
      <4> QED
        BY <1>2, <4>1, BeforeFacts
    <3>4. Len(L[1]) \in Nat /\ Len(L[3]) \in Nat /\ Len(L[4]) \in Nat /\ Len(L[5]) \in Nat
      BY <1>2
    <3> DEFINE l(a) == Len(L[a])
               p(a) == Before(L)[a]
    <3>5. p(3) <= Total(L)
      <4>1. /\ p(3) \in Nat /\ l(3) \in Nat /\ l(4) \in Nat /\ l(5) \in Nat
            /\ p(4) = p(3) + l(3) /\ p(5) = p(4) + l(4) /\ Total(L) = p(5) + l(5)
        BY <3>3, <3>4
      <4> HIDE DEF l, p
      <4> QED
        BY <4>1
    <3>6. Total(L) <= made[e] /\ Total(L) \in Int
      BY <1>3, <3>1, <3>2
    <3>7. l(1) + 1 <= p(3) /\ l(1) \in Nat /\ p(3) \in Nat
      <4>1. /\ p(3) = l(1) + l(2) /\ l(1) \in Nat /\ l(2) \in Nat \ {0} /\ p(3) \in Nat
        BY <2>2, <3>3, <3>4
      <4> HIDE DEF l, p
      <4> QED
        BY <4>1
    <3>8. l(1) + 1 \in 1 .. made[e]
      <4> HIDE DEF l, p
      <4> QED
        BY <1>3, <3>5, <3>6, <3>7
    <3> QED
      BY <3>8
  <2>5. P' = Append(P, Len(L[1]) + 1)
    BY <1>1, <1>2, <2>1, <2>2, <2>3, NumbersAppended
  <2>6. N[Len(L[1]) + 1] = Len(L[1]) + 1 /\ N' = N
    BY <1>1, <1>3, <2>1, <2>4, NumbersGrow DEF N
  <2>7. Len(P) < Len(N)
    BY <1>2, <1>3, <1>4, <2>4
  <2> QED
    BY <1>4, <2>5, <2>6, <2>7 DEF N, P
<1>8. ASSUME \/ Way(e)' = Way(e) \/ Emits(Way(e), Way(e)')
             \/ \E c \in 2 .. 4 : Shifts(Way(e), Way(e)', c)
      PROVE  M[1] = L[1] /\ made'[e] = made[e]
  <2>1. CASE Way(e)' = Way(e)
    BY <1>1, <1>f, <2>1 DEF Fields
  <2>2. CASE Emits(Way(e), Way(e)')
    BY <1>1, <1>2, <1>f, <2>2 DEF Fields, Emits, Leaves1
  <2>3. ASSUME NEW c \in 2 .. 4, Shifts(Way(e), Way(e)', c) PROVE M[1] = L[1] /\ made'[e] = made[e]
    <3>1. 1 \in Lanes \ {c, c + 1}
      BY DEF Lanes
    <3> QED
      BY <1>1, <1>f, <2>3, <3>1 DEF Fields, Shifts, SameWindow, Moves
  <2> QED
    BY <1>8, <2>1, <2>2, <2>3
<1>9. ~ Astray(Way(e), Way(e)') /\ \A c \in Lanes, why \in Reasons : ~ Loses(Way(e), Way(e)', c, why)
  BY <1>s DEF Straight, Astray, Loses
<1>10. \A c \in 1 .. 4 : c = 1 \/ c \in 2 .. 4
  OBVIOUS
<1>11. \/ Way(e)' = Way(e) \/ Emits(Way(e), Way(e)') \/ Makes(Way(e), Way(e)')
       \/ Shifts(Way(e), Way(e)', 1) \/ \E c \in 2 .. 4 : Shifts(Way(e), Way(e)', c)
  BY <1>s, <1>9, <1>10 DEF WayStep
<1> QED
  BY <1>5, <1>6, <1>7, <1>8, <1>11 DEF N, P

\* In a calm chat both directions are pipes from LDP::send to the other screen, up to what
\* must happen: packets are printed in the order they were made, each once, none left out.
THEOREM CalmChatIsTwoPipes ==
  ASSUME Calm
  PROVE  Spec => ClientToServer!SafeSpec /\ ServerToClient!SafeSpec
<1>o. /\ Client \in Endpoints /\ Server \in Endpoints
      /\ Other(Client) = Server /\ Other(Server) = Client
  BY LdpChatAssumption DEF Endpoints, Other
<1>1. Init => ClientToServer!Init /\ ServerToClient!Init
  <2> SUFFICES ASSUME Init PROVE ClientToServer!Init /\ ServerToClient!Init
    OBVIOUS
  <2>1. BothRun /\ \A e \in Endpoints : made[e] = 0 /\ printed[e] = << >>
    BY <1>o DEF Init, Calm, BothRun, Running
  <2>2. Len(<< >>) = 0 /\ \A i : i \notin 1 .. 0
    OBVIOUS
  <2>3. \A e \in Endpoints : Numbers(made[e]) = << >> /\ PrintedNumbers(e) = << >>
    BY <2>1, <2>2 DEF Numbers, PrintedNumbers
  <2> QED
    BY <1>o, <2>1, <2>3 DEF ClientToServer!Init, ServerToClient!Init
<1>2. IInv /\ IInv' /\ Calmly /\ [Next]_vars =>
        /\ [ClientToServer!Next]_(ClientToServer!pipeVars)
        /\ [ServerToClient!Next]_(ServerToClient!pipeVars)
  <2> SUFFICES ASSUME IInv, IInv', Calmly, [Next]_vars
               PROVE  /\ [ClientToServer!Next]_(ClientToServer!pipeVars)
                      /\ [ServerToClient!Next]_(ServerToClient!pipeVars)
    OBVIOUS
  <2>1. BothRun = TRUE /\ BothRun' = TRUE
    BY <1>o, CalmSteps DEF BothRun, Calmly
  <2>2. [ClientToServer!Next]_(ClientToServer!pipeVars)
    BY <1>o, <2>1, PipeSteps DEF ClientToServer!Next, ClientToServer!Put, ClientToServer!Get,
       ClientToServer!pipeVars
  <2>3. [ServerToClient!Next]_(ServerToClient!pipeVars)
    BY <1>o, <2>1, PipeSteps DEF ServerToClient!Next, ServerToClient!Put, ServerToClient!Get,
       ServerToClient!pipeVars
  <2> QED
    BY <2>2, <2>3
<1>3. Init => Calmly
  BY InitCalmly
<1>4. IInv /\ IInv' /\ Calmly /\ [Next]_vars => Calmly'
  BY CalmlyKept
<1> QED
  BY <1>1, <1>2, <1>3, <1>4, IInvAlways, PTL
     DEF Spec, ClientToServer!SafeSpec, ServerToClient!SafeSpec
=============================================================================
