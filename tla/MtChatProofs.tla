---------------------------- MODULE MtChatProofs ----------------------------
(***************************************************************************)
(* The safety of the Multithreaded-Chat server, for every MAX_BUFFER, every *)
(* number of clients and of lines, and whatever the memory held that is     *)
(* used before it is written.                                               *)
(***************************************************************************)
EXTENDS MtChat, FiniteSetTheorems, SequenceTheorems, TLAPS

(* The inductive invariant, in five parts. *)

\* The threads that run, but for one the connection thread has still to count: at least
\* so many are counted.
Active == {h \in Clients : pc[h] \notin {"none", "gone"} /\ ~ (door = "count" /\ h = caller)}

\* The connection thread knows whom it lets in, a thread of a client finds a descriptor
\* in chv, and there is room on the list for the client about to be counted.
Settled ==
  /\ door \in {"list", "spawn", "count"} => new \in Fds /\ caller \in Clients
  /\ door \in {"spawn", "count"} => numClients < MaxBuffer
  /\ door = "spawn" \/ (\E h \in Clients : pc[h] # "none") => chv \in Fds
  /\ \A h \in Clients : pc[h] \notin {"none", "start"} => fd[h] \in Fds
  /\ Cardinality(Active) <= numClients

\* A client gets a thread at most once.
Newcomers ==
  /\ \A c \in Clients : client[c] = "off" => c \notin backlog /\ c # caller /\ pc[c] = "none"
  /\ \A c \in backlog : c # caller /\ pc[c] = "none"
  /\ caller \in Clients /\ door # "count" => pc[caller] = "none"

\* The message thread runs when startChat has started it.
Begun == ~ started => reader = "none"

Fit == TypeOK /\ Settled /\ Newcomers /\ Begun

\* clientListMutex is locked by the connection thread or by one client thread.
ListLocked ==
  /\ listMutex <=> door \in {"spawn", "count"} \/ \E h \in Clients : pc[h] = "close"
  /\ door \in {"spawn", "count"} => \A h \in Clients : pc[h] # "close"
  /\ \A g, h \in Clients : pc[g] = "close" /\ pc[h] = "close" => g = h

Holds(list, f) == \E i \in Slots : list[i] = f

\* The exceptions of SlotsOpen.
Stray == failed \cup strewn

\* But for those: a descriptor is listed once and open, that of a new connection not at
\* all, nor that of a client about to be taken off, which stays open until the mutex is
\* free.
ListSound ==
  /\ SlotsOpen
  /\ \A i, j \in Slots : slots[i] = slots[j] /\ slots[i] \in Fds \ Stray => i = j
  /\ door = "list" /\ new \notin Stray => peer[new] # Nothing /\ ~ Holds(slots, new)
  /\ \A h \in Clients :
       pc[h] = "close" /\ fd[h] \notin Stray =>
         /\ ~ Holds(slots, fd[h]) /\ peer[fd[h]] # Nothing
         /\ door = "list" => new # fd[h]

\* Place(first, k) is where the k-th entry is when the first is at first.
Place(first, k) == IF first + k - 1 < MaxBuffer THEN first + k - 1
                   ELSE first + k - 1 - MaxBuffer

\* The ring holds a list of messages from its head on, and its tail is behind them.
RingHolds(ring, list) ==
  /\ Len(list) <= MaxBuffer /\ ring.tail = Place(ring.head, Len(list) + 1)
  /\ \A k \in 1 .. Len(list) : ring.buffer[Place(ring.head, k)] = list[k]

\* Until a client thread finds no room, nobody sleeps for room, one thread at a time is
\* in the ring, the ring holds what is pending, and the flags are right or about to be.
RingHeld ==
  ~ rough =>
    /\ \A h \in Clients : pc[h] \notin {"asleep", "woken"}
    /\ \A x, y \in Inside : x = y
    /\ mutex <=> Inside # {}
    /\ RingHolds(q, pending)
    /\ ~ mutex => q.empty = (Len(pending) = 0) /\ q.full = (Len(pending) = MaxBuffer)
    /\ (\E h \in Clients : pc[h] = "flags") => ~ q.full /\ Len(pending) > 0
    /\ reader = "flags" => ~ q.empty /\ Len(pending) < MaxBuffer

Awake == reader = "asleep" /\ ~ q.empty => \E h \in Clients : pc[h] = "signal"

\* What the broadcast still owes is in the slots its loop comes to, and, but for the one
\* it has just looked at, it has still to come to them.
CastSound ==
  /\ due \subseteq Listed(slots, numClients)
  /\ \A d \in due : d[1] >= next \/ (reader = "write" /\ d = << next - 1, socket >>)
  /\ reader \notin {"cast", "write"} => due = {} /\ next = 0

IInv == Fit /\ ListLocked /\ ListSound /\ RingHeld /\ Awake /\ CastSound

-----------------------------------------------------------------------------
(* Every step is of one of these kinds. *)

\* Descriptors are the numbers of the clients, and the slots of list and ring go
\* round.
LEMMA Bounds ==
  /\ MaxBuffer \in Nat /\ MaxBuffer > 0 /\ MaxClients \in Nat /\ MaxTyped \in Nat
  /\ Clients \subseteq Nat /\ Nothing \notin Clients /\ Junk \notin Fds /\ Nothing \notin Fds
  /\ Fds = Clients /\ 0 \in Slots
  /\ \A i \in Slots : i \in Nat /\ i < MaxBuffer /\ After(i) \in Slots
BY MtChatAssumption DEF Clients, Fds, Nothing, Junk, Slots, After

Steps == {"none", "start", "read", "remove", "close", "full", "asleep", "woken",
          "locking", "flags", "signal", "gone"}
QType == [buffer : [Slots -> Clients \cup {Nothing}], head : Slots, tail : Slots,
          full : BOOLEAN, empty : BOOLEAN]

\* The four halves of queuePush and queuePop, field by field.
LEMMA PushedEntry ==
  ASSUME NEW r \in QType, NEW m \in Clients
  PROVE  /\ PushEntry(r, m) \in QType
         /\ PushEntry(r, m).buffer = [r.buffer EXCEPT ![r.tail] = m]
         /\ PushEntry(r, m).tail = After(r.tail) /\ PushEntry(r, m).head = r.head
         /\ PushEntry(r, m).full = r.full /\ PushEntry(r, m).empty = r.empty
<1>1. r.tail \in Slots /\ After(r.tail) \in Slots
  BY Bounds DEF QType
<1>2. PushEntry(r, m).buffer = [r.buffer EXCEPT ![r.tail] = m]
  BY DEF PushEntry, QType
<1>3. PushEntry(r, m).tail = After(r.tail) /\ PushEntry(r, m).head = r.head
  BY DEF PushEntry, QType
<1>4. PushEntry(r, m).full = r.full /\ PushEntry(r, m).empty = r.empty
  BY DEF PushEntry, QType
<1>5. PushEntry(r, m) \in QType
  BY <1>1 DEF PushEntry, QType
<1> QED
  BY <1>2, <1>3, <1>4, <1>5

\* A push raises full when tail has come round to head, and clears empty.
LEMMA FlaggedPush ==
  ASSUME NEW r \in QType
  PROVE  /\ PushFlags(r) \in QType
         /\ PushFlags(r).buffer = r.buffer /\ PushFlags(r).tail = r.tail
         /\ PushFlags(r).head = r.head /\ PushFlags(r).empty = FALSE
         /\ PushFlags(r).full = (r.full \/ r.tail = r.head)
<1>1. /\ PushFlags(r).buffer = r.buffer /\ PushFlags(r).tail = r.tail
      /\ PushFlags(r).head = r.head /\ PushFlags(r).empty = FALSE
  BY DEF PushFlags, QType
<1>2. PushFlags(r).full = (r.full \/ r.tail = r.head)
  BY DEF PushFlags, QType
<1>3. PushFlags(r) \in QType
  BY DEF PushFlags, QType
<1> QED
  BY <1>1, <1>2, <1>3

\* The first half of a pop moves head on.
LEMMA PoppedEntry ==
  ASSUME NEW r \in QType
  PROVE  /\ PopEntry(r) \in QType
         /\ PopEntry(r).buffer = r.buffer /\ PopEntry(r).tail = r.tail
         /\ PopEntry(r).head = After(r.head)
         /\ PopEntry(r).full = r.full /\ PopEntry(r).empty = r.empty
<1>1. After(r.head) \in Slots
  BY Bounds DEF QType
<1>2. PopEntry(r) = [buffer |-> r.buffer, head |-> After(r.head), tail |-> r.tail,
                     full |-> r.full, empty |-> r.empty]
  BY DEF PopEntry, QType
<1> QED
  BY <1>1, <1>2 DEF QType

\* A pop raises empty when head has caught up with tail, and clears full.
LEMMA FlaggedPop ==
  ASSUME NEW r \in QType
  PROVE  /\ PopFlags(r) \in QType
         /\ PopFlags(r).buffer = r.buffer /\ PopFlags(r).tail = r.tail
         /\ PopFlags(r).head = r.head /\ PopFlags(r).full = FALSE
         /\ PopFlags(r).empty = (r.empty \/ r.head = r.tail)
<1>1. /\ PopFlags(r).buffer = r.buffer /\ PopFlags(r).tail = r.tail
      /\ PopFlags(r).head = r.head /\ PopFlags(r).full = FALSE
  BY DEF PopFlags, QType
<1>2. PopFlags(r).empty = (r.empty \/ r.head = r.tail)
  BY DEF PopFlags, QType
<1>3. PopFlags(r) \in QType
  BY DEF PopFlags, QType
<1> QED
  BY <1>1, <1>2, <1>3

\* The slots the broadcast comes to, one by one.
LEMMA ListedSlots ==
  ASSUME NEW list, NEW n, NEW d \in Listed(list, n)
  PROVE  /\ d = << d[1], d[2] >> /\ d \in Slots \X Fds
         /\ d[1] \in Slots /\ d[1] < n /\ d[2] = list[d[1]]
<1>1. PICK i \in {i \in Slots : i < n /\ list[i] \in Fds} : d = << i, list[i] >>
  BY DEF Listed
<1> QED
  BY <1>1

\* The clients with a thread can be counted.
LEMMA ActiveFinite == IsFiniteSet(Clients) /\ IsFiniteSet(Active)
<1>1. IsFiniteSet(Clients)
  BY Bounds, FS_Interval DEF Clients
<1>2. Active \subseteq Clients
  BY DEF Active
<1> QED
  BY <1>1, <1>2, FS_Subset

\* Before the first step the variables have their types.
LEMMA InitTypes == Init => TypeOK
<1> SUFFICES ASSUME Init PROVE TypeOK
  OBVIOUS
<1>1. PICK first \in FirstData : slots = first[1] /\ watch = first[2]
  BY DEF Init
<1>2. slots \in [Slots -> Fds \cup {Nothing, Junk}] /\ watch \subseteq Fds \cup {Nothing}
  BY <1>1, MtChatAssumption
<1>3. q \in [buffer : [Slots -> Clients \cup {Nothing}], head : Slots, tail : Slots,
             full : BOOLEAN, empty : BOOLEAN]
  BY Bounds DEF Init
<1>4. /\ numClients \in 0 .. MaxBuffer /\ next \in 0 .. MaxBuffer /\ typed \in 0 .. MaxTyped
  BY Bounds DEF Init
<1>5. pending \in Seq(Clients) /\ << >> \in Seq({"text", "exit"})
  BY DEF Init
<1> QED
  BY <1>2, <1>3, <1>4, <1>5 DEF Init, TypeOK

\* Every step keeps the types.
LEMMA TypesKept == Fit /\ ListLocked /\ [Next]_vars => TypeOK'
<1> SUFFICES ASSUME Fit, ListLocked, [Next]_vars PROVE TypeOK'
  OBVIOUS
<1> USE DEF Fit, TypeOK, listVars, doorVars, queueVars, castVars, handlerVars, clientVars,
            At, Goes, Checks, ServerIdle
<1>1. CASE UNCHANGED vars
  BY <1>1 DEF vars
<1>2. CASE Prepare
  BY <1>2 DEF Prepare
<1>3. CASE Accept
  BY <1>3 DEF Accept
<1>4. CASE List
  <2>1. /\ slots' \in [Slots -> Fds \cup {Nothing, Junk}] /\ due' \subseteq Slots \X Fds
        /\ watch' \subseteq Fds \cup {Nothing} /\ chv' \in Fds \cup {Nothing}
        /\ listMutex' = TRUE /\ door' = "spawn"
    BY <1>4 DEF List
  <2>2. UNCHANGED << peer, numClients, failed, strewn, new, caller, started, queueVars,
                     reader, next, socket, handlerVars, clientVars, up >>
    BY <1>4 DEF List
  <2> QED
    BY <2>1, <2>2
<1>5. CASE TurnAway
  BY <1>5 DEF TurnAway
<1>6a. CASE Create
  <2>1. new \in Fds
    BY <1>6a DEF Create, Settled
  <2>2. /\ pc' \in [Clients -> Steps] /\ peer' \in [Fds -> Clients \cup {Nothing}]
        /\ failed' \subseteq Fds /\ listMutex' \in BOOLEAN /\ door' \in {"accept", "count"}
        /\ new' \in Fds \cup {Nothing} /\ caller' \in Clients \cup {Nothing}
    BY <1>6a, <2>1 DEF Create, Steps
  <2>3. UNCHANGED << watch, slots, numClients, strewn, chv, started, queueVars, castVars, fd,
                     clientVars, up >>
    BY <1>6a DEF Create
  <2> QED
    BY <2>2, <2>3 DEF Steps
<1>6b. CASE Count
  <2>1. numClients + 1 \in 0 .. MaxBuffer
    BY <1>6b, Bounds DEF Count, Settled
  <2>2. /\ door' = "accept" /\ new' = Nothing /\ caller' = Nothing
        /\ numClients' = numClients + 1 /\ listMutex' = FALSE
    BY <1>6b DEF Count
  <2>3. UNCHANGED << peer, watch, slots, failed, strewn, chv, started, queueVars, castVars,
                     handlerVars, clientVars, up >>
    BY <1>6b DEF Count
  <2>4. /\ numClients' \in 0 .. MaxBuffer /\ listMutex' \in BOOLEAN
        /\ new' \in Fds \cup {Nothing} /\ caller' \in Clients \cup {Nothing}
        /\ door' \in {"accept", "list", "spawn", "count"}
    BY <2>1, <2>2
  <2> QED
    BY <2>3, <2>4
<1>7. ASSUME NEW h \in Clients, Start(h) PROVE TypeOK'
  BY <1>7 DEF Start
<1>8. ASSUME NEW h \in Clients, Read(h) PROVE TypeOK'
  <2>1. fd[h] \in Fds /\ peer[fd[h]] \in Clients \cup {Nothing}
    BY <1>8 DEF Read, Settled
  <2>2. line' \in [Clients -> Seq({"text", "exit"})]
    <3>1. CASE /\ peer[fd[h]] # Nothing /\ line[peer[fd[h]]] # << >>
               /\ line' = [line EXCEPT ![peer[fd[h]]] = Tail(@)]
      <4>1. Tail(line[peer[fd[h]]]) \in Seq({"text", "exit"})
        BY <2>1, <3>1, HeadTailProperties
      <4> QED
        BY <3>1, <4>1
    <3>2. CASE UNCHANGED line
      BY <3>2
    <3> QED
      BY <1>8, <3>1, <3>2 DEF Read
  <2>3. typed' \in 0 .. MaxTyped
    BY <1>8, Bounds DEF Read
  <2>4. pc' \in [Clients -> Steps]
    BY <1>8 DEF Read, Steps
  <2>5. UNCHANGED << fd, client, backlog, listVars, doorVars, queueVars, castVars, up >>
    BY <1>8 DEF Read
  <2> QED
    BY <2>2, <2>3, <2>4, <2>5 DEF Steps
<1>9. ASSUME NEW h \in Clients, Unlist(h) PROVE TypeOK'
  BY <1>9 DEF Unlist
<1>10. ASSUME NEW h \in Clients, Close(h) PROVE TypeOK'
  <2>1. numClients - 1 \in 0 .. MaxBuffer
    <3>1. Active # {} /\ IsFiniteSet(Active)
      BY <1>10, ActiveFinite DEF Close, Active, ListLocked
    <3>2. Cardinality(Active) \in Nat \ {0}
      BY <3>1, FS_CardinalityType, FS_EmptySet
    <3> QED
      BY <3>2, Bounds DEF Settled
  <2>2. /\ UNCHANGED << watch, slots, failed, strewn, doorVars, queueVars, reader, next, socket,
                        fd, clientVars, up >>
        /\ due' \subseteq Slots \X Fds
    BY <1>10 DEF Close
  <2>3. /\ numClients' = numClients - 1 /\ listMutex' = FALSE /\ pc' \in [Clients -> Steps]
        /\ peer' \in [Fds -> Clients \cup {Nothing}]
    BY <1>10 DEF Close, Steps
  <2>4. numClients' \in 0 .. MaxBuffer /\ listMutex' \in BOOLEAN
    BY <2>1, <2>3
  <2> QED
    BY <2>2, <2>3, <2>4 DEF Steps
<1>11. ASSUME NEW h \in Clients, Wait(h) PROVE TypeOK'
  <2>1. pc' \in [Clients -> Steps] /\ mutex' \in BOOLEAN /\ rough' \in BOOLEAN
    BY <1>11 DEF Wait, Steps
  <2>2. UNCHANGED << q, pending, listVars, doorVars, castVars, fd, clientVars, up >>
    BY <1>11 DEF Wait
  <2> QED
    BY <2>1, <2>2 DEF Steps
<1>12. ASSUME NEW h \in Clients, Woken(h) PROVE TypeOK'
  BY <1>12 DEF Woken
<1>13. ASSUME NEW h \in Clients, Push(h) PROVE TypeOK'
  <2>1. q' = PushEntry(q, h) /\ q'.buffer = [q.buffer EXCEPT ![q.tail] = h]
        /\ q' \in QType
    BY <1>13, PushedEntry DEF Push, QType
  <2>2. /\ pc' \in [Clients -> Steps] /\ mutex' \in BOOLEAN /\ rough' \in BOOLEAN
        /\ pending' \in Seq(Clients)
    BY <1>13 DEF Push, Steps
  <2>3. UNCHANGED << listVars, doorVars, castVars, fd, clientVars, up >>
    BY <1>13 DEF Push
  <2> QED
    BY <2>1, <2>2, <2>3 DEF Steps, QType
<1>14. ASSUME NEW h \in Clients, Flags(h) PROVE TypeOK'
  <2>1. q' \in QType
    BY <1>14, FlaggedPush DEF Flags, QType
  <2>2. pc' \in [Clients -> Steps] /\ mutex' \in BOOLEAN
    BY <1>14 DEF Flags, Steps
  <2>3. UNCHANGED << pending, rough, listVars, doorVars, castVars, fd, clientVars, up >>
    BY <1>14 DEF Flags
  <2> QED
    BY <2>1, <2>2, <2>3 DEF Steps, QType
<1>15. ASSUME NEW h \in Clients, Signal(h) PROVE TypeOK'
  BY <1>15 DEF Signal
<1>16. CASE Sleep
  BY <1>16 DEF Sleep
<1>17. CASE Take
  <2>1. q' \in QType
    BY <1>17, PoppedEntry DEF Take, QType
  <2>2. pending' \in Seq(Clients)
    BY <1>17, HeadTailProperties DEF Take
  <2>3. /\ mutex' \in BOOLEAN /\ reader' = "flags"
        /\ UNCHANGED << rough, next, socket, due, listVars, doorVars, handlerVars, clientVars, up >>
    BY <1>17 DEF Take
  <2> QED
    BY <2>1, <2>2, <2>3 DEF QType
<1>18. CASE TakeFlags
  <2>1. q' \in QType
    BY <1>18, FlaggedPop DEF TakeFlags, QType
  <2>2. /\ mutex' \in BOOLEAN /\ reader' = "signal"
        /\ UNCHANGED << pending, rough, next, socket, due, listVars, doorVars,
                        handlerVars, clientVars, up >>
    BY <1>18 DEF TakeFlags
  <2> QED
    BY <2>1, <2>2 DEF QType
<1>19. CASE SignalRoom
  <2>0. Listed(slots, numClients) \subseteq Slots \X Fds
    BY ListedSlots
  <2>1. pc' \in [Clients -> Steps] /\ reader' = "cast" /\ due' \subseteq Slots \X Fds
    BY <1>19, <2>0 DEF SignalRoom, Steps
  <2>2. UNCHANGED << next, socket, listVars, doorVars, queueVars, fd, clientVars, up >>
    BY <1>19 DEF SignalRoom
  <2> QED
    BY <2>1, <2>2 DEF Steps
<1>20. CASE Look
  <2>1. next' \in 0 .. MaxBuffer /\ socket' \in Fds \cup {Nothing, Junk}
    <3>1. CASE next < numClients /\ socket' = slots[next] /\ next' = next + 1
      <4>1. next \in Slots /\ next + 1 \in 0 .. MaxBuffer
        BY <3>1, Bounds DEF Slots
      <4> QED
        BY <3>1, <4>1
    <3>2. CASE next' = 0 /\ UNCHANGED socket
      BY <3>2, Bounds
    <3> QED
      BY <1>20, <3>1, <3>2 DEF Look
  <2>2. /\ reader' \in {"write", "lock"}
        /\ UNCHANGED << due, listVars, doorVars, queueVars, handlerVars, clientVars, up >>
    BY <1>20 DEF Look
  <2> QED
    BY <2>1, <2>2
<1>21. CASE Write
  <2>1. /\ due' \subseteq Slots \X Fds /\ up' \in BOOLEAN
        /\ reader' = "cast" /\ socket' = Nothing
    BY <1>21 DEF Write
  <2>2. UNCHANGED << next, listVars, doorVars, queueVars, handlerVars, clientVars >>
    BY <1>21 DEF Write
  <2> QED
    BY <2>1, <2>2
<1>22. ASSUME NEW c \in Clients, Connect(c) PROVE TypeOK'
  BY <1>22, Bounds DEF Connect
<1>23. ASSUME NEW c \in Clients, Say(c) PROVE TypeOK'
  BY <1>23, Bounds DEF Say
<1>24. ASSUME NEW c \in Clients, Leave(c) PROVE TypeOK'
  BY <1>24, Bounds DEF Leave
<1>25. ASSUME NEW c \in Clients, Killed(c) PROVE TypeOK'
  BY <1>25, Bounds DEF Killed
<1> QED
  BY <1>1, <1>2, <1>3, <1>4, <1>5, <1>6a, <1>6b, <1>7, <1>8, <1>9, <1>10, <1>11, <1>12,
     <1>13, <1>14, <1>15, <1>16, <1>17, <1>18, <1>19, <1>20, <1>21, <1>22, <1>23, <1>24, <1>25
     DEF Next, Server, Door, Reader, Handler, Client

-----------------------------------------------------------------------------
(* The five parts hold initially. *)

\* Before the first step nobody has come and the ring is empty.
LEMMA InitSound == Init => IInv
<1> SUFFICES ASSUME Init PROVE IInv
  OBVIOUS
<1>1. TypeOK
  BY InitTypes
<1>2. Settled
  <2>1. Active = {}
    BY DEF Init, Active
  <2>2. Cardinality(Active) <= numClients
    BY <2>1, FS_EmptySet DEF Init
  <2> QED
    BY <2>2 DEF Init, Settled
<1>3. \A i \in Slots : slots[i] \in Fds => slots[i] \in strewn
  BY DEF Init
<1>4. ListLocked
  BY DEF Init, ListLocked
<1>5. ListSound
  BY <1>3 DEF Init, ListSound, SlotsOpen, Stray
<1>6. RingHeld
  <2>1. Inside = {}
    BY DEF Init, Inside
  <2>2. Len(pending) = 0
    BY DEF Init
  <2>3. Place(0, Len(pending) + 1) = 0
    BY <2>2, Bounds DEF Place
  <2>4. /\ q.head = 0 /\ q.tail = 0 /\ q.full = FALSE /\ q.empty = TRUE /\ mutex = FALSE
        /\ reader = "none"
    BY DEF Init
  <2>5. \A h \in Clients : pc[h] = "none"
    BY DEF Init
  <2>6. RingHolds(q, pending)
    BY <2>2, <2>3, <2>4, Bounds DEF RingHolds
  <2>7. Len(pending) # MaxBuffer
    BY <2>2, Bounds
  <2>8. q.empty = (Len(pending) = 0) /\ q.full = (Len(pending) = MaxBuffer)
    BY <2>2, <2>4, <2>7
  <2> QED
    BY <2>1, <2>4, <2>5, <2>6, <2>8 DEF RingHeld
<1>7. Awake
  BY DEF Init, Awake
<1>8. CastSound
  BY DEF Init, CastSound
<1>9. Newcomers
  BY Bounds DEF Init, Newcomers
<1> QED
  BY <1>1, <1>2, <1>4, <1>5, <1>6, <1>7, <1>8, <1>9 DEF IInv, Fit, Begun, Init

-----------------------------------------------------------------------------
(* The counting of the clients. *)

\* How the number of clients with a thread follows their set.
LEMMA ActiveCounted ==
  /\ Cardinality(Active) \in Nat
  /\ Active' \subseteq Active => Cardinality(Active') <= Cardinality(Active)
  /\ \A x : Active' \subseteq Active \cup {x} => Cardinality(Active') <= Cardinality(Active) + 1
  /\ \A x \in Active : Active' \subseteq Active \ {x} =>
                         Cardinality(Active') <= Cardinality(Active) - 1
<1>1. Cardinality(Active) \in Nat
  BY ActiveFinite, FS_CardinalityType
<1>2. ASSUME Active' \subseteq Active PROVE Cardinality(Active') <= Cardinality(Active)
  BY <1>2, ActiveFinite, FS_Subset
<1>3. ASSUME NEW x, Active' \subseteq Active \cup {x}
      PROVE  Cardinality(Active') <= Cardinality(Active) + 1
  <2>0. /\ IsFiniteSet(Active \cup {x})
        /\ Cardinality(Active \cup {x}) = IF x \in Active THEN Cardinality(Active)
                                         ELSE Cardinality(Active) + 1
    BY ActiveFinite, FS_AddElement, Zenon
  <2>1. IsFiniteSet(Active \cup {x}) /\ Cardinality(Active \cup {x}) <= Cardinality(Active) + 1
    BY <1>1, <2>0
  <2>2. Cardinality(Active \cup {x}) \in Nat
    BY <2>1, FS_CardinalityType
  <2>3. IsFiniteSet(Active') /\ Cardinality(Active') <= Cardinality(Active \cup {x})
    BY <1>3, <2>1, FS_Subset
  <2>4. Cardinality(Active') \in Nat
    BY <2>3, FS_CardinalityType
  <2> QED
    BY <1>1, <2>1, <2>2, <2>3, <2>4
<1>4. ASSUME NEW x \in Active, Active' \subseteq Active \ {x}
      PROVE  Cardinality(Active') <= Cardinality(Active) - 1
  <2>1. IsFiniteSet(Active \ {x}) /\ Cardinality(Active \ {x}) = Cardinality(Active) - 1
    BY ActiveFinite, FS_RemoveElement
  <2>2. Cardinality(Active') <= Cardinality(Active \ {x})
    BY <1>4, <2>1, FS_Subset
  <2> QED
    BY <2>1, <2>2
<1> QED
  BY <1>1, <1>2, <1>3, <1>4

\* The connection thread counts a client before its thread runs, and a client thread
\* that ends has been taken off the count.
LEMMA SettledKept == Fit /\ ListLocked /\ [Next]_vars => Settled'
<1> SUFFICES ASSUME Fit, ListLocked, [Next]_vars PROVE Settled'
  OBVIOUS
<1> USE DEF listVars, doorVars, queueVars, castVars, handlerVars, clientVars, At, Goes, Checks,
            ServerIdle
<1>a. /\ pc \in [Clients -> Steps] /\ fd \in [Clients -> Fds \cup {Nothing}]
      /\ numClients \in Nat /\ Cardinality(Active) \in Nat /\ Settled
  BY Bounds, ActiveCounted DEF Fit, TypeOK, Steps
<1>b. Active' \subseteq Active => Cardinality(Active') <= numClients
  BY <1>a, ActiveCounted, ActiveFinite, FS_Subset, FS_CardinalityType DEF Settled
\* A step that leaves alone what this is about.
<1>1. ASSUME UNCHANGED << door, new, caller, numClients, chv, pc, fd >> PROVE Settled'
  BY <1>1, <1>a DEF Settled, Active
\* A step of a thread that neither comes nor goes.
<1>2. ASSUME NEW h \in Clients, NEW s \in Steps \ {"none"}, pc' = [pc EXCEPT ![h] = s],
             pc[h] \notin {"none", "start", "gone"},
             UNCHANGED << door, new, caller, numClients, chv, fd >>
      PROVE  Settled'
  <2>1. Active' \subseteq Active
    BY <1>2, <1>a DEF Active
  <2>2. Cardinality(Active') <= numClients'
    BY <1>2, <1>b, <2>1
  <2> QED
    BY <1>2, <1>a, <2>2 DEF Settled
<1>3. CASE UNCHANGED vars \/ Prepare \/ Sleep \/ Take \/ TakeFlags \/ Look \/ Write
           \/ \E c \in Clients : Client(c)
  <2>1. UNCHANGED << door, new, caller, numClients, chv, pc, fd >>
    BY <1>3 DEF vars, Prepare, Sleep, Take, TakeFlags, Look, Write, Client, Connect, Say, Leave,
                Killed
  <2> QED
    BY <1>1, <2>1
<1>4. CASE Accept
  <2>1. PICK c \in backlog, f \in Fds : new' = f /\ caller' = c
    BY <1>4 DEF Accept
  <2>2. c \in Clients
    BY <2>1 DEF Fit, TypeOK
  <2>3. door = "accept" /\ door' = "list" /\ UNCHANGED << numClients, chv, pc, fd >>
    BY <1>4 DEF Accept
  <2>4. Active' \subseteq Active
    BY <2>3 DEF Active
  <2> QED
    BY <1>4, <1>a, <1>b, <2>1, <2>2, <2>3, <2>4 DEF Settled, Accept
<1>5. CASE List
  <2>1. /\ door = "list" /\ numClients < MaxBuffer /\ door' = "spawn" /\ chv' = new
        /\ UNCHANGED << numClients, new, caller, pc, fd >>
    BY <1>5 DEF List
  <2>2. Active' \subseteq Active
    BY <2>1 DEF Active
  <2> QED
    BY <1>a, <1>b, <2>1, <2>2 DEF Settled
<1>6. CASE TurnAway
  <2>1. door = "list" /\ door' = "accept" /\ UNCHANGED << numClients, chv, pc, fd >>
    BY <1>6 DEF TurnAway
  <2>2. Active' \subseteq Active
    BY <2>1 DEF Active
  <2> QED
    BY <1>a, <1>b, <2>1, <2>2 DEF Settled
<1>7a. CASE Create
  <2>1. /\ door = "spawn" /\ UNCHANGED << numClients, chv, fd >>
        /\ chv \in Fds /\ new \in Fds /\ caller \in Clients /\ numClients < MaxBuffer
    BY <1>7a, <1>a DEF Create, Settled
  <2>2. CASE /\ door' = "count" /\ pc' = [pc EXCEPT ![caller] = "start"]
             /\ UNCHANGED << new, caller >>
    <3>1. Active' \subseteq Active
      BY <1>a, <2>1, <2>2 DEF Active
    <3> QED
      BY <1>a, <1>b, <2>1, <2>2, <3>1 DEF Settled
  <2>3. CASE door' = "accept" /\ UNCHANGED pc
    <3>1. Active' \subseteq Active
      BY <2>1, <2>3 DEF Active
    <3> QED
      BY <1>a, <1>b, <2>1, <2>3, <3>1 DEF Settled
  <2> QED
    BY <1>7a, <2>2, <2>3 DEF Create
<1>7b. CASE Count
  <2>1. /\ door = "count" /\ door' = "accept" /\ numClients' = numClients + 1
        /\ UNCHANGED << chv, pc, fd >>
    BY <1>7b DEF Count
  <2>2. Active' \subseteq Active \cup {caller}
    BY <2>1 DEF Active
  <2>3. Cardinality(Active') <= Cardinality(Active) + 1
    BY <2>2, ActiveCounted
  <2>4. IsFiniteSet(Active')
    BY <2>2, ActiveFinite, FS_AddElement, FS_Subset
  <2>5. Cardinality(Active') \in Nat
    BY <2>4, FS_CardinalityType
  <2>6. Cardinality(Active') <= numClients'
    BY <1>a, <2>1, <2>3, <2>5 DEF Settled
  <2> QED
    BY <1>a, <2>1, <2>6 DEF Settled
<1>8. ASSUME NEW h \in Clients, Start(h) PROVE Settled'
  <2>1. /\ pc[h] = "start" /\ pc' = [pc EXCEPT ![h] = "read"] /\ fd' = [fd EXCEPT ![h] = chv]
        /\ UNCHANGED << door, new, caller, numClients, chv >>
    BY <1>8 DEF Start
  <2>2. chv \in Fds
    BY <1>a, <2>1 DEF Settled
  <2>3. Active' \subseteq Active
    BY <1>a, <2>1 DEF Active
  <2>4. \A g \in Clients : pc'[g] \notin {"none", "start"} => fd'[g] \in Fds
    BY <1>a, <2>1, <2>2 DEF Settled
  <2> QED
    BY <1>a, <1>b, <2>1, <2>2, <2>3, <2>4 DEF Settled
<1>9. ASSUME NEW h \in Clients, Close(h) PROVE Settled'
  <2>1. /\ pc[h] = "close" /\ pc' = [pc EXCEPT ![h] = "gone"] /\ numClients' = numClients - 1
        /\ UNCHANGED << door, new, caller, chv, fd >>
    BY <1>9 DEF Close
  <2>2. h \in Active /\ Active' \subseteq Active \ {h}
    BY <1>a, <2>1 DEF Active, ListLocked
  <2>3. Cardinality(Active') <= Cardinality(Active) - 1
    BY <2>2, ActiveCounted
  <2>4. IsFiniteSet(Active')
    BY <2>2, ActiveFinite, FS_RemoveElement, FS_Subset
  <2>5. Cardinality(Active') \in Nat
    BY <2>4, FS_CardinalityType
  <2>6. Cardinality(Active') <= numClients'
    BY <1>a, <2>1, <2>3, <2>5 DEF Settled
  <2>7. door' \in {"spawn", "count"} => numClients' < MaxBuffer
    BY <1>a, <2>1, Bounds DEF Settled
  <2> QED
    BY <1>a, <2>1, <2>6, <2>7 DEF Settled
<1>10. ASSUME NEW h \in Clients, Unlist(h) PROVE Settled'
  <2>1. PICK s \in {"gone", "close"} : pc' = [pc EXCEPT ![h] = s]
    BY <1>10, Zenon DEF Unlist
  <2>2. pc[h] = "remove" /\ UNCHANGED << door, new, caller, numClients, chv, fd >>
    BY <1>10 DEF Unlist
  <2> QED
    BY <1>2, <2>1, <2>2 DEF Steps
<1>11. ASSUME NEW h \in Clients, Read(h) PROVE Settled'
  <2>1. PICK s \in {"remove", "full", "locking"} : pc' = [pc EXCEPT ![h] = s]
    BY <1>11, Zenon DEF Read
  <2>2. pc[h] = "read" /\ UNCHANGED << door, new, caller, numClients, chv, fd >>
    BY <1>11 DEF Read
  <2> QED
    BY <1>2, <2>1, <2>2 DEF Steps
<1>12. ASSUME NEW h \in Clients, Wait(h) \/ Woken(h) \/ Push(h) \/ Flags(h) \/ Signal(h)
       PROVE  Settled'
  <2>1. /\ pc[h] \in {"full", "woken", "locking", "flags", "signal"}
        /\ UNCHANGED << door, new, caller, numClients, chv, fd >>
    BY <1>12 DEF Wait, Woken, Push, Flags, Signal
  <2>2. PICK s \in {"asleep", "full", "locking", "flags", "signal", "read"} :
          pc' = [pc EXCEPT ![h] = s]
    BY <1>12, Zenon DEF Wait, Woken, Push, Flags, Signal
  <2> QED
    BY <1>2, <2>1, <2>2 DEF Steps
<1>13. CASE SignalRoom
  <2>1. UNCHANGED << door, new, caller, numClients, chv, fd >>
    BY <1>13 DEF SignalRoom
  <2>2. CASE \E h \in Clients : pc[h] = "asleep" /\ pc' = [pc EXCEPT ![h] = "woken"]
    BY <1>2, <2>1, <2>2 DEF Steps
  <2>3. CASE UNCHANGED pc
    BY <1>1, <2>1, <2>3
  <2> QED
    BY <1>13, <2>2, <2>3 DEF SignalRoom
<1> QED
  BY <1>3, <1>4, <1>5, <1>6, <1>7a, <1>7b, <1>8, <1>9, <1>10, <1>11, <1>12,
     <1>13
     DEF Next, Server, Door, Reader, Handler

\* A client connects once.
LEMMA NewcomersKept == Fit /\ [Next]_vars => Newcomers'
<1> SUFFICES ASSUME Fit, [Next]_vars PROVE Newcomers'
  OBVIOUS
<1> USE DEF listVars, doorVars, queueVars, castVars, handlerVars, clientVars, At, Goes, Checks,
            ServerIdle
<1>a. /\ pc \in [Clients -> Steps] /\ client \in [Clients -> {"off", "on", "over"}]
      /\ backlog \subseteq Clients /\ Nothing \notin Clients /\ Newcomers
  BY Bounds DEF Fit, TypeOK, Steps
\* A step in which nobody connects, is accepted or gets a thread.
<1>1. ASSUME backlog' = backlog, caller' \in {caller, Nothing},
             door = "count" /\ door' # "count" => caller' = Nothing,
             \A c \in Clients : client'[c] = "off" => client[c] = "off",
             \A c \in Clients : pc[c] = "none" => pc'[c] = "none"
      PROVE  Newcomers'
  <2>1. \A c \in Clients : c # caller => c # caller'
    BY <1>1, <1>a
  <2> QED
    BY <1>1, <1>a, <2>1 DEF Newcomers
<1>2. CASE UNCHANGED vars \/ Prepare \/ Sleep \/ Take \/ TakeFlags \/ Look \/ Write
           \/ List \/ TurnAway
  <2>1. /\ UNCHANGED << client, backlog, pc >> /\ caller' \in {caller, Nothing}
        /\ door = "count" => door' = "count"
    BY <1>2 DEF vars, Prepare, Sleep, Take, TakeFlags, Look, Write, List, TurnAway
  <2> QED
    BY <1>1, <2>1
<1>3. CASE SignalRoom \/ \E h \in Clients : Handler(h)
  <2>1. UNCHANGED << client, backlog, caller, door >>
    BY <1>3 DEF SignalRoom, Handler, Start, Read, Unlist, Close, Wait, Woken, Push, Flags, Signal
  <2>2. \A c \in Clients : pc[c] = "none" => pc'[c] = "none"
    BY <1>3, <1>a DEF SignalRoom, Handler, Start, Read, Unlist, Close, Wait, Woken, Push, Flags,
                      Signal
  <2> QED
    BY <1>1, <2>1, <2>2
<1>4. CASE \E c \in Clients : Say(c) \/ Leave(c) \/ Killed(c)
  <2>1. UNCHANGED << backlog, caller, pc, door >>
    BY <1>4 DEF Say, Leave, Killed
  <2>2. \A c \in Clients : client'[c] = "off" => client[c] = "off"
    BY <1>4, <1>a DEF Say, Leave, Killed
  <2> QED
    BY <1>1, <2>1, <2>2
<1>5. ASSUME NEW c \in Clients, Connect(c) PROVE Newcomers'
  <2>1. /\ client[c] = "off" /\ client' = [client EXCEPT ![c] = "on"]
        /\ backlog' = backlog \cup {c} /\ UNCHANGED << caller, pc, door >>
    BY <1>5 DEF Connect
  <2> QED
    BY <1>a, <2>1 DEF Newcomers
<1>6. CASE Accept
  <2>1. PICK c \in backlog : caller' = c /\ backlog' = backlog \ {c}
    BY <1>6 DEF Accept
  <2>2. UNCHANGED << client, pc >>
    BY <1>6 DEF Accept
  <2> QED
    BY <1>a, <2>1, <2>2 DEF Newcomers
<1>7. CASE Create
  <2>1. /\ UNCHANGED << client, backlog >>
        /\ \A c \in Clients : c # caller => pc'[c] = pc[c]
        /\ caller' = Nothing \/ (caller' = caller /\ door' = "count")
    BY <1>7, <1>a DEF Create
  <2> QED
    BY <1>a, <2>1 DEF Newcomers
<1>8. CASE Count
  <2>1. UNCHANGED << client, backlog, pc >> /\ caller' = Nothing
    BY <1>8 DEF Count
  <2> QED
    BY <1>1, <2>1
<1> QED
  BY <1>2, <1>3, <1>4, <1>5, <1>6, <1>7, <1>8 DEF Next, Server, Door, Reader, Client

\* The first part of the inductive invariant is kept.
LEMMA FitKept == Fit /\ ListLocked /\ [Next]_vars => Fit'
<1> SUFFICES ASSUME Fit, ListLocked, [Next]_vars PROVE Begun'
  BY TypesKept, SettledKept, NewcomersKept DEF Fit
<1>1. Begun
  BY DEF Fit
<1>2. CASE reader' = reader /\ started' = started
  BY <1>1, <1>2 DEF Begun
<1>3. CASE Prepare
  BY <1>3 DEF Prepare, Begun
<1>4. CASE Reader
  BY <1>1, <1>4 DEF Begun, Reader, Sleep, Take, TakeFlags, SignalRoom, Look, Write, doorVars
<1>5. ASSUME NEW h \in Clients, Signal(h) PROVE Begun'
  BY <1>1, <1>5 DEF Begun, Signal, doorVars
<1>6. UNCHANGED vars => reader' = reader /\ started' = started
  BY DEF vars, castVars, doorVars
<1>7. Door => reader' = reader /\ started' = started
  BY DEF Door, Accept, List, TurnAway, Create, Count, castVars, doorVars
<1>8. ASSUME NEW h \in Clients, Handler(h), ~ Signal(h)
      PROVE  reader' = reader /\ started' = started
  BY <1>8 DEF Handler, Start, Read, Unlist, Close, Wait, Woken, Push, Flags, castVars, doorVars
<1>9. ASSUME NEW c \in Clients, Client(c) PROVE reader' = reader /\ started' = started
  BY <1>9 DEF Client, Connect, Say, Leave, Killed, ServerIdle, castVars, doorVars
<1> QED
  BY <1>2, <1>3, <1>4, <1>5, <1>6, <1>7, <1>8, <1>9 DEF Next, Server

-----------------------------------------------------------------------------
(* The list of clients. *)

\* Each user of the list has clientListMutex while it changes the list, and a
\* descriptor is closed by the thread that took it off.
LEMMA ListKept == Fit /\ ListLocked /\ ListSound /\ [Next]_vars => ListLocked' /\ ListSound'
<1> SUFFICES ASSUME Fit, ListLocked, ListSound, [Next]_vars PROVE ListLocked' /\ ListSound'
  OBVIOUS
<1> USE DEF listVars, doorVars, queueVars, castVars, handlerVars, clientVars, At, Goes, Checks,
            ServerIdle, Stray
<1>a. /\ pc \in [Clients -> Steps] /\ fd \in [Clients -> Fds \cup {Nothing}]
      /\ peer \in [Fds -> Clients \cup {Nothing}]
      /\ slots \in [Slots -> Fds \cup {Nothing, Junk}] /\ failed \subseteq Fds /\ strewn \subseteq Fds
      /\ listMutex \in BOOLEAN
  BY DEF Fit, TypeOK, Steps
<1>b. /\ Nothing \notin Clients /\ Nothing \notin Fds /\ Junk \notin Fds
  BY Bounds
\* A step that leaves alone what this is about.
<1>1. ASSUME UNCHANGED << listMutex, door, new, peer, slots, failed, strewn >>,
             \A h \in Clients : pc'[h] = "close" <=> pc[h] = "close",
             \A h \in Clients : pc[h] = "close" => fd'[h] = fd[h]
      PROVE  ListLocked' /\ ListSound'
  <2>1. ListLocked'
    BY <1>1 DEF ListLocked
  <2>2. SlotsOpen' /\ slots' = slots
    BY <1>1 DEF ListSound, SlotsOpen, Holds
  <2>3. \A h \in Clients :
          pc'[h] = "close" /\ fd'[h] \notin Stray' =>
            /\ ~ Holds(slots', fd'[h]) /\ peer'[fd'[h]] # Nothing
            /\ door' = "list" => new' # fd'[h]
    BY <1>1, <2>2 DEF ListSound
  <2>4. door' = "list" /\ new' \notin Stray' => peer'[new'] # Nothing /\ ~ Holds(slots', new')
    BY <1>1, <2>2 DEF ListSound
  <2>5. \A i, j \in Slots : slots'[i] = slots'[j] /\ slots'[i] \in Fds \ Stray' => i = j
    BY <1>1 DEF ListSound
  <2> HIDE DEF Stray
  <2> QED
    BY <2>1, <2>2, <2>3, <2>4, <2>5 DEF ListSound
<1>2. ASSUME NEW h \in Clients, NEW s \in Steps \ {"close"}, pc' = [pc EXCEPT ![h] = s],
             pc[h] # "close",
             UNCHANGED << listMutex, door, new, peer, slots, failed, strewn, fd >>
      PROVE  ListLocked' /\ ListSound'
  BY <1>1, <1>2, <1>a
<1>3. CASE UNCHANGED vars \/ Prepare \/ Sleep \/ Take \/ TakeFlags \/ Look \/ Write
           \/ \E c \in Clients : Client(c)
  <2>1. UNCHANGED << listMutex, door, new, peer, slots, failed, strewn, pc, fd >>
    BY <1>3 DEF vars, Prepare, Sleep, Take, TakeFlags, Look, Write, Client, Connect, Say, Leave,
                Killed
  <2> QED
    BY <1>1, <2>1
<1>4. CASE Accept
  <2>1. PICK c \in backlog, f \in Fds :
          peer[f] = Nothing /\ peer' = [peer EXCEPT ![f] = c] /\ new' = f
    BY <1>4 DEF Accept
  <2>2. c \in Clients
    BY <2>1 DEF Fit, TypeOK
  <2>3. door = "accept" /\ door' = "list" /\ UNCHANGED << listMutex, slots, failed, strewn, pc, fd >>
    BY <1>4 DEF Accept
  <2>4. f \in Stray \/ ~ Holds(slots, f)
    BY <2>1 DEF ListSound, SlotsOpen, Holds
  <2>5. peer'[f] # Nothing /\ \A g \in Fds : peer[g] # Nothing => g # f /\ peer'[g] = peer[g]
    BY <1>a, <1>b, <2>1, <2>2
  <2>6. SlotsOpen'
    BY <2>3, <2>5 DEF ListSound, SlotsOpen
  <2>7. ListLocked'
    BY <2>3 DEF ListLocked
  <2>8. \A h \in Clients :
          pc'[h] = "close" /\ fd'[h] \notin Stray' =>
            /\ ~ Holds(slots', fd'[h]) /\ peer'[fd'[h]] # Nothing
            /\ door' = "list" => new' # fd'[h]
    <3> SUFFICES ASSUME NEW h \in Clients, pc[h] = "close", fd[h] \notin Stray
                 PROVE  ~ Holds(slots', fd[h]) /\ peer'[fd[h]] # Nothing /\ f # fd[h]
      BY <2>1, <2>3
    <3>1. fd[h] \in Fds
      BY DEF Fit, Settled
    <3>2. ~ Holds(slots, fd[h]) /\ peer[fd[h]] # Nothing
      BY DEF ListSound
    <3> QED
      BY <2>3, <2>5, <3>1, <3>2 DEF Holds
  <2> QED
    BY <2>1, <2>3, <2>4, <2>5, <2>6, <2>7, <2>8 DEF ListSound, Holds
<1>5. CASE List
  <2> DEFINE open  == {i \in Slots : slots[i] \notin watch \cup {Junk}}
             first == {i \in open : \A j \in open : i <= j}
  <2>1. /\ door = "list" /\ ~ listMutex /\ door' = "spawn" /\ listMutex' = TRUE
        /\ UNCHANGED << peer, failed, strewn, new, pc, fd >>
        /\ slots' = [i \in Slots |-> IF i \in first THEN new ELSE slots[i]]
    BY <1>5 DEF List
  <2>2. \A i, j \in first : i = j
    BY Bounds, SMT
  <2>3. \A h \in Clients : pc[h] # "close"
    BY <2>1 DEF ListLocked
  <2>4. ListLocked'
    BY <2>1, <2>3 DEF ListLocked
  <2>5. new \in Fds /\ (new \notin Stray => peer[new] # Nothing /\ ~ Holds(slots, new))
    BY <2>1 DEF ListSound, Fit, Settled
  <2> HIDE DEF open, first
  <2>6. SlotsOpen'
    BY <2>1, <2>5 DEF ListSound, SlotsOpen
  <2>7. \A i, j \in Slots : slots'[i] = slots'[j] /\ slots'[i] \in Fds \ Stray' => i = j
    <3> SUFFICES ASSUME NEW i \in Slots, NEW j \in Slots, slots'[i] = slots'[j],
                        slots'[i] \in Fds \ Stray
                 PROVE  i = j
      BY <2>1
    <3>1. CASE i \in first /\ j \in first
      BY <2>2, <3>1
    <3>2. CASE i \in first /\ j \notin first
      BY <2>1, <2>5, <3>2 DEF Holds
    <3>3. CASE i \notin first /\ j \in first
      BY <2>1, <2>5, <3>3 DEF Holds
    <3>4. CASE i \notin first /\ j \notin first
      BY <2>1, <3>4 DEF ListSound
    <3> QED
      BY <3>1, <3>2, <3>3, <3>4
  <2> QED
    BY <2>1, <2>3, <2>4, <2>6, <2>7 DEF ListSound
<1>6. CASE TurnAway
  <2>1. /\ door = "list" /\ ~ listMutex /\ door' = "accept"
        /\ UNCHANGED << listMutex, peer, slots, failed, strewn, pc, fd >>
    BY <1>6 DEF TurnAway
  <2>2. \A h \in Clients : pc[h] # "close"
    BY <2>1 DEF ListLocked
  <2> QED
    BY <2>1, <2>2 DEF ListLocked, ListSound, SlotsOpen
<1>7a. CASE Create
  <2>1. door = "spawn" /\ UNCHANGED << slots, fd, strewn >>
    BY <1>7a DEF Create
  <2>2. listMutex /\ \A h \in Clients : pc[h] # "close"
    BY <2>1 DEF ListLocked
  <2>3. \A h \in Clients : pc'[h] # "close"
    BY <1>7a, <1>a, <2>2 DEF Create
  <2>4. (door' = "count" /\ listMutex' = listMutex) \/ (door' = "accept" /\ listMutex' = FALSE)
    BY <1>7a DEF Create
  <2>5. ListLocked'
    BY <2>2, <2>3, <2>4 DEF ListLocked
  <2>6. failed \subseteq failed' /\ \A f \in Fds : peer'[f] # peer[f] => f \in failed'
    BY <1>7a, <1>a DEF Create
  <2>7. SlotsOpen'
    BY <2>1, <2>6 DEF ListSound, SlotsOpen
  <2>8. \A i, j \in Slots : slots'[i] = slots'[j] /\ slots'[i] \in Fds \ Stray' => i = j
    BY <2>1, <2>6 DEF ListSound
  <2> QED
    BY <2>1, <2>3, <2>4, <2>5, <2>7, <2>8 DEF ListSound
<1>7b. CASE Count
  <2>1. /\ door = "count" /\ door' = "accept" /\ listMutex' = FALSE
        /\ UNCHANGED << peer, slots, pc, fd, failed, strewn >>
    BY <1>7b DEF Count
  <2>2. \A h \in Clients : pc[h] # "close"
    BY <2>1 DEF ListLocked
  <2> QED
    BY <2>1, <2>2 DEF ListLocked, ListSound, SlotsOpen
<1>8. ASSUME NEW h \in Clients, Start(h) PROVE ListLocked' /\ ListSound'
  <2>1. /\ pc[h] = "start" /\ pc' = [pc EXCEPT ![h] = "read"] /\ fd' = [fd EXCEPT ![h] = chv]
        /\ UNCHANGED << listMutex, door, new, peer, slots, failed, strewn >>
    BY <1>8 DEF Start
  <2>2. \A g \in Clients : pc'[g] = "close" <=> pc[g] = "close"
    BY <1>a, <2>1
  <2>3. \A g \in Clients : pc[g] = "close" => fd'[g] = fd[g]
    BY <1>a, <2>1
  <2> QED
    BY <1>1, <2>1, <2>2, <2>3
<1>9. ASSUME NEW h \in Clients, Unlist(h) PROVE ListLocked' /\ ListSound'
  <2> DEFINE mine  == {i \in Slots : slots[i] = fd[h]}
             first == {i \in mine : \A j \in mine : i <= j}
  <2>1. /\ pc[h] = "remove" /\ ~ listMutex
        /\ pc' = [pc EXCEPT ![h] = IF mine = {} THEN "gone" ELSE "close"]
        /\ listMutex' = (mine # {})
        /\ slots' = [i \in Slots |-> IF i \in first THEN Nothing ELSE slots[i]]
        /\ UNCHANGED << peer, failed, strewn, door, new, fd >>
    BY <1>9 DEF Unlist
  <2>2. door \notin {"spawn", "count"} /\ \A g \in Clients : pc[g] # "close"
    BY <2>1 DEF ListLocked
  <2>3. \A g \in Clients : pc'[g] = "close" <=> g = h /\ mine # {}
    BY <1>a, <2>1, <2>2
  <2>4. ListLocked'
    BY <2>1, <2>2, <2>3 DEF ListLocked
  <2>5. mine \subseteq Slots /\ (mine # {} <=> Holds(slots, fd[h])) /\ fd[h] \in Fds
    BY <2>1 DEF Holds, Fit, Settled
  <2>6. fd[h] \notin Stray => \A i, j \in mine : i = j
    BY <2>5 DEF ListSound
  <2>7. fd[h] \notin Stray => mine \subseteq first
    BY <2>5, <2>6, Bounds, SMT
  <2>8. \A i \in Slots : slots'[i] = slots[i] \/ slots'[i] = Nothing
    BY <2>1
  <2>9. \A f \in Fds : Holds(slots', f) => Holds(slots, f)
    BY <1>b, <2>8 DEF Holds
  <2>10. fd[h] \notin Stray => ~ Holds(slots', fd[h])
    <3> SUFFICES ASSUME fd[h] \notin Stray, NEW i \in Slots, slots'[i] = fd[h] PROVE FALSE
      BY DEF Holds
    <3>1. slots[i] = fd[h]
      BY <1>b, <2>5, <2>8
    <3>2. i \in first
      BY <2>7, <3>1
    <3> HIDE DEF mine, first
    <3> QED
      BY <1>b, <2>1, <2>5, <3>2
  <2> HIDE DEF mine, first
  <2>11. SlotsOpen'
    BY <1>b, <2>1, <2>8 DEF ListSound, SlotsOpen
  <2>12. \A i, j \in Slots : slots'[i] = slots'[j] /\ slots'[i] \in Fds \ Stray' => i = j
    BY <1>b, <2>1, <2>8 DEF ListSound
  <2>13. door' = "list" /\ new' \notin Stray' => peer'[new'] # Nothing /\ ~ Holds(slots', new')
    <3> SUFFICES ASSUME door = "list", new \notin Stray
                 PROVE  peer[new] # Nothing /\ ~ Holds(slots', new)
      BY <2>1 DEF Holds
    <3>1. new \in Fds
      BY DEF Fit, Settled
    <3> QED
      BY <2>9, <3>1 DEF ListSound
  <2>14. ASSUME NEW g \in Clients, pc'[g] = "close", fd[g] \notin Stray
         PROVE  /\ ~ Holds(slots', fd[g]) /\ peer[fd[g]] # Nothing
                /\ door = "list" => new # fd[g]
    <3>1. g = h /\ Holds(slots, fd[h])
      BY <2>3, <2>5, <2>14
    <3>2. peer[fd[h]] # Nothing
      BY <2>5, <2>14, <3>1 DEF ListSound, SlotsOpen, Holds
    <3>3. door = "list" => new # fd[h]
      BY <2>14, <3>1 DEF ListSound
    <3> QED
      BY <2>10, <2>14, <3>1, <3>2, <3>3
  <2>15. fd' = fd /\ peer' = peer /\ Stray' = Stray /\ door' = door /\ new' = new
    BY <2>1
  <2> HIDE DEF Stray
  <2>16. \A g \in Clients :
           pc'[g] = "close" /\ fd'[g] \notin Stray' =>
             /\ ~ Holds(slots', fd'[g]) /\ peer'[fd'[g]] # Nothing
             /\ door' = "list" => new' # fd'[g]
    BY <2>14, <2>15
  <2> QED
    BY <2>4, <2>11, <2>12, <2>13, <2>16 DEF ListSound
<1>10. ASSUME NEW h \in Clients, Close(h) PROVE ListLocked' /\ ListSound'
  <2>1. /\ pc[h] = "close" /\ pc' = [pc EXCEPT ![h] = "gone"] /\ listMutex' = FALSE
        /\ peer' = [peer EXCEPT ![fd[h]] = Nothing]
        /\ UNCHANGED << slots, failed, strewn, door, new, fd >>
    BY <1>10 DEF Close
  <2>2. door \notin {"spawn", "count"} /\ fd[h] \in Fds
    BY <2>1 DEF ListLocked, Fit, Settled
  <2>3. \A g \in Clients : pc'[g] # "close"
    BY <1>a, <2>1 DEF ListLocked
  <2>4. ListLocked'
    BY <2>1, <2>2, <2>3 DEF ListLocked
  <2>5. \A f \in Fds : f # fd[h] => peer'[f] = peer[f]
    BY <1>a, <2>1
  <2>6. fd[h] \notin Stray => ~ Holds(slots, fd[h]) /\ (door = "list" => new # fd[h])
    BY <2>1 DEF ListSound
  <2>7. SlotsOpen'
    BY <2>1, <2>5, <2>6 DEF ListSound, SlotsOpen, Holds
  <2>8. door' = "list" /\ new' \notin Stray' => peer'[new'] # Nothing /\ ~ Holds(slots', new')
    <3> SUFFICES ASSUME door = "list", new \notin Stray
                 PROVE  peer'[new] # Nothing /\ ~ Holds(slots', new)
      BY <2>1 DEF Holds
    <3>1. new \in Fds /\ new # fd[h]
      BY <2>6 DEF Fit, Settled
    <3>2. peer[new] # Nothing /\ ~ Holds(slots, new)
      BY DEF ListSound
    <3> QED
      BY <2>1, <2>5, <3>1, <3>2 DEF Holds
  <2>9. \A i, j \in Slots : slots'[i] = slots'[j] /\ slots'[i] \in Fds \ Stray' => i = j
    BY <2>1 DEF ListSound
  <2> QED
    BY <2>3, <2>4, <2>7, <2>8, <2>9 DEF ListSound, Holds
<1>11. ASSUME NEW h \in Clients, Read(h) PROVE ListLocked' /\ ListSound'
  <2>1. PICK s \in {"remove", "full", "locking"} : pc' = [pc EXCEPT ![h] = s]
    BY <1>11, Zenon DEF Read
  <2>2. pc[h] = "read" /\ UNCHANGED << listMutex, door, new, peer, slots, failed, strewn, fd >>
    BY <1>11 DEF Read
  <2> QED
    BY <1>2, <2>1, <2>2 DEF Steps
<1>12. ASSUME NEW h \in Clients, Wait(h) \/ Woken(h) \/ Push(h) \/ Flags(h) \/ Signal(h)
       PROVE  ListLocked' /\ ListSound'
  <2>1. /\ pc[h] \in {"full", "woken", "locking", "flags", "signal"}
        /\ UNCHANGED << listMutex, door, new, peer, slots, failed, strewn, fd >>
    BY <1>12 DEF Wait, Woken, Push, Flags, Signal
  <2>2. PICK s \in {"asleep", "full", "locking", "flags", "signal", "read"} :
          pc' = [pc EXCEPT ![h] = s]
    BY <1>12, Zenon DEF Wait, Woken, Push, Flags, Signal
  <2> QED
    BY <1>2, <2>1, <2>2 DEF Steps
<1>13. CASE SignalRoom
  <2>1. UNCHANGED << listMutex, door, new, peer, slots, failed, strewn, fd >>
    BY <1>13 DEF SignalRoom
  <2>2. CASE \E h \in Clients : pc[h] = "asleep" /\ pc' = [pc EXCEPT ![h] = "woken"]
    BY <1>2, <2>1, <2>2 DEF Steps
  <2>3. CASE UNCHANGED pc
    BY <1>1, <2>1, <2>3
  <2> QED
    BY <1>13, <2>2, <2>3 DEF SignalRoom
<1> QED
  BY <1>3, <1>4, <1>5, <1>6, <1>7a, <1>7b, <1>8, <1>9, <1>10, <1>11, <1>12,
     <1>13
     DEF Next, Server, Door, Reader, Handler

-----------------------------------------------------------------------------
(* The ring: where its entries are, and who is in it. *)

\* The remainder of a number that has gone round at most once.
LEMMA Around ==
  ASSUME NEW n \in Nat \ {0}, NEW x \in Nat, x < n + n
  PROVE  x % n = IF x < n THEN x ELSE x - n
<1>1. x % n \in 0 .. n - 1 /\ x = n * (x \div n) + (x % n) /\ x \div n \in Int
  BY SMT
<1>2. x \div n = 0 \/ x \div n = 1
  BY <1>1, SMT
<1> QED
  BY <1>1, <1>2, SMT

\* The places counted from the head, going round.
LEMMA Places ==
  ASSUME NEW first \in Slots, NEW k \in 1 .. MaxBuffer + 1
  PROVE  /\ (first + k - 1) % MaxBuffer = Place(first, k)
         /\ Place(first, k) \in Slots
         /\ k <= MaxBuffer => After(Place(first, k)) = Place(first, k + 1)
         /\ k <= MaxBuffer => Place(After(first), k) = Place(first, k + 1)
         /\ Place(first, k) = first <=> k = 1 \/ k = MaxBuffer + 1
<1>1. /\ MaxBuffer \in Nat \ {0} /\ first \in Nat /\ first < MaxBuffer
      /\ first + k - 1 \in Nat /\ first + k - 1 < MaxBuffer + MaxBuffer
  BY Bounds DEF Slots
<1>2. (first + k - 1) % MaxBuffer = Place(first, k)
  <2> DEFINE x == first + k - 1
  <2>1. x \in Nat /\ x < MaxBuffer + MaxBuffer /\ MaxBuffer \in Nat \ {0}
    BY <1>1
  <2> HIDE DEF x
  <2>2. x % MaxBuffer = IF x < MaxBuffer THEN x ELSE x - MaxBuffer
    BY <2>1, Around
  <2>3. (IF x < MaxBuffer THEN x ELSE x - MaxBuffer) = Place(first, k)
    BY <1>1, SMT DEF x, Place
  <2> QED
    BY <2>2, <2>3 DEF x
<1>3. Place(first, k) \in Slots
  BY <1>1 DEF Place, Slots
<1>4. k <= MaxBuffer => After(Place(first, k)) = Place(first, k + 1)
  BY <1>1, SMT DEF Place, After
<1>5. k <= MaxBuffer => Place(After(first), k) = Place(first, k + 1)
  BY <1>1, SMT DEF Place, After
<1>6. Place(first, k) = first <=> k = 1 \/ k = MaxBuffer + 1
  BY <1>1, SMT DEF Place
<1> QED
  BY <1>2, <1>3, <1>4, <1>5, <1>6

\* Different messages have different places.
LEMMA PlacesApart ==
  ASSUME NEW first \in Slots, NEW j \in 1 .. MaxBuffer, NEW k \in 1 .. MaxBuffer, j # k
  PROVE  Place(first, j) # Place(first, k)
BY Bounds, SMT DEF Slots, Place

\* queuePush puts a message behind those there are, when there is room.
LEMMA PushHolds ==
  ASSUME NEW r \in QType, NEW s \in Seq(Clients), NEW m \in Clients,
         RingHolds(r, s), Len(s) < MaxBuffer
  PROVE  RingHolds(PushEntry(r, m), Append(s, m))
<1> DEFINE p == PushEntry(r, m)
           n == Len(s)
<1>1. /\ n \in Nat /\ n < MaxBuffer /\ Len(Append(s, m)) = n + 1
      /\ Append(s, m)[n + 1] = m /\ \A k \in 1 .. n : Append(s, m)[k] = s[k]
  BY AppendProperties
<1>2. /\ r.head \in Slots /\ r.tail \in Slots /\ r.buffer \in [Slots -> Clients \cup {Nothing}]
  BY DEF QType
<1>3. /\ p.buffer = [r.buffer EXCEPT ![r.tail] = m] /\ p.tail = After(r.tail)
      /\ p.head = r.head
  BY PushedEntry
<1>4. r.tail = Place(r.head, n + 1) /\ \A k \in 1 .. n : r.buffer[Place(r.head, k)] = s[k]
  BY DEF RingHolds
<1> HIDE DEF p, n
<1>5. n + 1 \in 1 .. MaxBuffer /\ n + 1 \in 1 .. MaxBuffer + 1 /\ MaxBuffer \in Nat
  BY <1>1, Bounds
<1>6. p.tail = Place(p.head, (n + 1) + 1)
  BY <1>2, <1>3, <1>4, <1>5, Places
<1>7. ASSUME NEW k \in 1 .. n + 1 PROVE p.buffer[Place(p.head, k)] = Append(s, m)[k]
  <2>1. CASE k = n + 1
    BY <1>1, <1>2, <1>3, <1>4, <2>1
  <2>2. CASE k # n + 1
    <3>1. k \in 1 .. n /\ k \in 1 .. MaxBuffer /\ k \in 1 .. MaxBuffer + 1
      BY <1>1, <1>5, <2>2
    <3>2. Place(r.head, k) # r.tail /\ Place(r.head, k) \in Slots
      BY <1>2, <1>4, <1>5, <2>2, <3>1, Places, PlacesApart
    <3> QED
      BY <1>1, <1>2, <1>3, <1>4, <3>1, <3>2
  <2> QED
    BY <2>1, <2>2
<1>8. n + 1 <= MaxBuffer
  BY <1>5
<1> QED
  BY <1>1, <1>6, <1>7, <1>8 DEF RingHolds, p

\* queuePop takes the first of them, when there is any.
LEMMA PopHolds ==
  ASSUME NEW r \in QType, NEW s \in Seq(Clients), RingHolds(r, s), Len(s) > 0
  PROVE  RingHolds(PopEntry(r), Tail(s)) /\ Len(Tail(s)) = Len(s) - 1
<1> DEFINE p == PopEntry(r)
           n == Len(s)
<1>1. n \in Nat /\ n > 0 /\ n <= MaxBuffer /\ MaxBuffer \in Nat
  BY Bounds DEF RingHolds
<1>2. s # << >>
  BY <1>1
<1>3. Len(Tail(s)) = n - 1 /\ \A k \in 1 .. n - 1 : Tail(s)[k] = s[k + 1]
  BY <1>2, HeadTailProperties
<1>4. r.head \in Slots /\ p.buffer = r.buffer /\ p.tail = r.tail /\ p.head = After(r.head)
  BY PoppedEntry DEF QType
<1>5. r.tail = Place(r.head, n + 1) /\ \A k \in 1 .. n : r.buffer[Place(r.head, k)] = s[k]
  BY DEF RingHolds
<1> HIDE DEF p, n
<1>6. p.tail = Place(p.head, (n - 1) + 1)
  <2>1. n \in 1 .. MaxBuffer + 1 /\ n <= MaxBuffer /\ (n - 1) + 1 = n
    BY <1>1
  <2> QED
    BY <1>4, <1>5, <2>1, Places
<1>7. ASSUME NEW k \in 1 .. n - 1 PROVE p.buffer[Place(p.head, k)] = Tail(s)[k]
  <2>1. k \in 1 .. MaxBuffer + 1 /\ k <= MaxBuffer /\ k + 1 \in 1 .. n
    BY <1>1
  <2>2. Place(p.head, k) = Place(r.head, k + 1)
    BY <1>4, <2>1, Places
  <2> QED
    BY <1>3, <1>4, <1>5, <2>1, <2>2
<1>8. n - 1 <= MaxBuffer
  BY <1>1
<1> QED
  BY <1>3, <1>6, <1>7, <1>8 DEF RingHolds, p, n

\* Head and tail meet when the ring is empty and when it is full.
LEMMA HeadMeetsTail ==
  ASSUME NEW r \in QType, NEW s \in Seq(Clients), RingHolds(r, s)
  PROVE  r.tail = r.head <=> Len(s) = 0 \/ Len(s) = MaxBuffer
<1>1. r.head \in Slots /\ Len(s) \in Nat /\ Len(s) <= MaxBuffer /\ MaxBuffer \in Nat
  BY Bounds DEF QType, RingHolds
<1>2. Len(s) + 1 \in 1 .. MaxBuffer + 1
  BY <1>1
<1>3. r.tail = r.head <=> Len(s) + 1 = 1 \/ Len(s) + 1 = MaxBuffer + 1
  BY <1>1, <1>2, Places DEF RingHolds
<1> QED
  BY <1>1, <1>3

\* Push and pop keep the ring until a client thread finds it full.
LEMMA RingKept == Fit /\ RingHeld /\ [Next]_vars => RingHeld'
<1> SUFFICES ASSUME Fit, RingHeld, [Next]_vars, ~ rough' PROVE RingHeld'
  BY DEF RingHeld
<1> USE DEF listVars, doorVars, queueVars, castVars, handlerVars, clientVars, At, Goes, Checks,
            ServerIdle
<1>a. /\ pc \in [Clients -> Steps] /\ q \in QType /\ pending \in Seq(Clients)
      /\ mutex \in BOOLEAN /\ q.full \in BOOLEAN /\ q.empty \in BOOLEAN
      /\ Nothing \notin Clients /\ MaxBuffer \in Nat /\ Len(pending) \in Nat
  BY Bounds DEF Fit, TypeOK, Steps, QType
<1>b. ~ rough
  BY DEF Next, vars, Server, Prepare, Door, Accept, List, TurnAway, Create, Count, Reader, Sleep, Take,
         TakeFlags, SignalRoom, Look, Write, Handler, Start, Read, Unlist, Close, Wait, Woken,
         Push, Flags, Signal, Client, Connect, Say, Leave, Killed
<1>c. /\ \A h \in Clients : pc[h] \notin {"asleep", "woken"}
      /\ \A x, y \in Inside : x = y
      /\ mutex <=> Inside # {}
      /\ RingHolds(q, pending)
  BY <1>b DEF RingHeld
<1>d. ~ mutex => q.empty = (Len(pending) = 0) /\ q.full = (Len(pending) = MaxBuffer)
  BY <1>b DEF RingHeld
<1>e. /\ (\E h \in Clients : pc[h] = "flags") => ~ q.full /\ Len(pending) > 0
      /\ reader = "flags" => ~ q.empty /\ Len(pending) < MaxBuffer
  BY <1>b DEF RingHeld
<1>f. Len(pending) <= MaxBuffer
  BY <1>c DEF RingHolds
\* A step in which nobody goes into the ring or comes out.
<1>1. ASSUME UNCHANGED << q, pending, mutex >>, reader' = "flags" <=> reader = "flags",
             \A h \in Clients : pc'[h] \notin {"asleep", "woken"},
             \A h \in Clients : pc'[h] = "flags" <=> pc[h] = "flags"
      PROVE  RingHeld'
  <2>1. Inside' = Inside
    BY <1>1 DEF Inside
  <2> QED
    BY <1>1, <1>c, <1>d, <1>e, <2>1 DEF RingHeld
<1>2. ASSUME NEW h \in Clients, NEW s \in Steps \ {"asleep", "woken", "flags"},
             pc' = [pc EXCEPT ![h] = s], pc[h] # "flags",
             UNCHANGED << q, pending, mutex >>, reader' = "flags" <=> reader = "flags"
      PROVE  RingHeld'
  <2>1. \A g \in Clients : pc'[g] \notin {"asleep", "woken"}
    BY <1>2, <1>a, <1>c
  <2>2. \A g \in Clients : pc'[g] = "flags" <=> pc[g] = "flags"
    BY <1>2, <1>a
  <2> QED
    BY <1>1, <1>2, <2>1, <2>2
<1>3. CASE UNCHANGED vars \/ Accept \/ List \/ TurnAway \/ Count \/ Sleep \/ Look \/ Write
           \/ \E c \in Clients : Client(c)
  <2>1. UNCHANGED << q, pending, mutex, pc >> /\ (reader' = "flags" <=> reader = "flags")
    BY <1>3 DEF vars, Accept, List, TurnAway, Count, Sleep, Look, Write, Client, Connect, Say, Leave,
                Killed
  <2> QED
    BY <1>1, <1>c, <2>1
<1>4. CASE Prepare
  <2>1. UNCHANGED << q, pending, mutex, pc >> /\ reader' = "lock"
    BY <1>4 DEF Prepare
  <2>2. reader # "flags"
    BY <1>4 DEF Prepare, Fit, Begun
  <2> QED
    BY <1>1, <1>c, <2>1, <2>2
<1>5. CASE Create
  <2>1. UNCHANGED << q, pending, mutex, reader >>
    BY <1>5 DEF Create
  <2>2. CASE pc' = [pc EXCEPT ![caller] = "start"]
    <3>1. caller \in Clients /\ pc[caller] # "flags"
      BY <1>5 DEF Create, Fit, Settled, Newcomers
    <3> QED
      BY <1>2, <2>1, <2>2, <3>1 DEF Steps
  <2>3. CASE UNCHANGED pc
    BY <1>1, <1>c, <2>1, <2>3
  <2> QED
    BY <1>5, <2>2, <2>3 DEF Create
<1>6. ASSUME NEW h \in Clients, Start(h) \/ Close(h) \/ Signal(h) PROVE RingHeld'
  <2>1. /\ pc[h] \in {"start", "close", "signal"} /\ UNCHANGED << q, pending, mutex >>
        /\ reader' = "flags" <=> reader = "flags"
    BY <1>6 DEF Start, Close, Signal
  <2>2. PICK s \in {"read", "gone"} : pc' = [pc EXCEPT ![h] = s]
    BY <1>6, Zenon DEF Start, Close, Signal
  <2> QED
    BY <1>2, <2>1, <2>2 DEF Steps
<1>7. ASSUME NEW h \in Clients, Read(h) PROVE RingHeld'
  <2>1. PICK s \in {"remove", "full", "locking"} : pc' = [pc EXCEPT ![h] = s]
    BY <1>7, Zenon DEF Read
  <2>2. pc[h] = "read" /\ UNCHANGED << q, pending, mutex, reader >>
    BY <1>7 DEF Read
  <2> QED
    BY <1>2, <2>1, <2>2 DEF Steps
<1>8. ASSUME NEW h \in Clients, Unlist(h) PROVE RingHeld'
  <2>1. PICK s \in {"gone", "close"} : pc' = [pc EXCEPT ![h] = s]
    BY <1>8, Zenon DEF Unlist
  <2>2. pc[h] = "remove" /\ UNCHANGED << q, pending, mutex, reader >>
    BY <1>8 DEF Unlist
  <2> QED
    BY <1>2, <2>1, <2>2 DEF Steps
<1>9. ASSUME NEW h \in Clients, Wait(h) PROVE RingHeld'
  BY <1>9 DEF Wait
<1>10. ASSUME NEW h \in Clients, Woken(h) PROVE RingHeld'
  BY <1>10, <1>c DEF Woken
<1>11. ASSUME NEW h \in Clients, Push(h) PROVE RingHeld'
  <2>1. /\ ~ mutex /\ pc' = [pc EXCEPT ![h] = "flags"] /\ mutex' = TRUE /\ ~ q.full
        /\ q' = PushEntry(q, h) /\ pending' = Append(pending, h) /\ reader' = reader
    BY <1>11 DEF Push
  <2>2. Len(pending) < MaxBuffer
    BY <1>a, <1>d, <1>f, <2>1
  <2>3. Inside = {}
    BY <1>c, <2>1
  <2>4. Inside' = {h}
    BY <1>a, <2>1, <2>3 DEF Inside
  <2>5. RingHolds(q', pending') /\ q'.full = q.full
    BY <1>a, <1>c, <2>1, <2>2, PushHolds, PushedEntry
  <2>6. Len(pending') > 0
    BY <1>a, <2>1, AppendProperties
  <2>7. reader' # "flags"
    BY <2>1, <2>3 DEF Inside
  <2>8. \A g \in Clients : pc'[g] \notin {"asleep", "woken"}
    BY <1>a, <1>c, <2>1
  <2> QED
    BY <2>1, <2>4, <2>5, <2>6, <2>7, <2>8 DEF RingHeld
<1>12. ASSUME NEW h \in Clients, Flags(h) PROVE RingHeld'
  <2>1. /\ pc[h] = "flags" /\ pc' = [pc EXCEPT ![h] = "signal"] /\ mutex' = FALSE
        /\ q' = PushFlags(q) /\ pending' = pending /\ reader' = reader
    BY <1>12 DEF Flags
  <2>2. h \in Inside /\ \A x \in Inside : x = h
    BY <1>c, <2>1 DEF Inside
  <2>3. reader # "flags"
    BY <1>a, <2>2 DEF Inside
  <2>4. \A g \in Clients : pc'[g] # "flags"
    BY <1>a, <2>1, <2>2 DEF Inside
  <2>5. Inside' = {}
    BY <2>1, <2>3, <2>4 DEF Inside
  <2>6. ~ q.full /\ Len(pending) > 0
    BY <1>e, <2>1
  <2>7. /\ q'.buffer = q.buffer /\ q'.tail = q.tail /\ q'.head = q.head
        /\ q'.empty = FALSE /\ q'.full = (q.full \/ q.tail = q.head)
    BY <1>a, <2>1, FlaggedPush
  <2>8. RingHolds(q', pending')
    BY <1>c, <2>1, <2>7 DEF RingHolds
  <2>9. q.tail = q.head <=> Len(pending) = 0 \/ Len(pending) = MaxBuffer
    BY <1>a, <1>c, HeadMeetsTail
  <2>10. q'.empty = (Len(pending) = 0) /\ q'.full = (Len(pending) = MaxBuffer)
    <3>1. Len(pending) # 0
      BY <1>a, <2>6
    <3>2. q'.full <=> Len(pending) = MaxBuffer
      BY <2>6, <2>7, <2>9, <3>1
    <3> QED
      BY <1>a, <2>7, <3>1, <3>2
  <2>11. \A g \in Clients : pc'[g] \notin {"asleep", "woken"}
    BY <1>a, <1>c, <2>1
  <2> QED
    BY <2>1, <2>3, <2>4, <2>5, <2>8, <2>10, <2>11 DEF RingHeld
<1>13. CASE Take
  <2>1. /\ ~ mutex /\ ~ q.empty /\ mutex' = TRUE /\ reader' = "flags" /\ q' = PopEntry(q)
        /\ pending' = (IF pending = << >> THEN << >> ELSE Tail(pending)) /\ pc' = pc
    BY <1>13 DEF Take
  <2>2. Len(pending) > 0 /\ pending # << >>
    BY <1>a, <1>d, <2>1
  <2>3. Inside = {}
    BY <1>c, <2>1
  <2>4. Inside' = {Nothing}
    BY <2>1, <2>3 DEF Inside
  <2>5. pending' = Tail(pending)
    BY <2>1, <2>2
  <2>6. RingHolds(q', pending') /\ Len(pending') = Len(pending) - 1 /\ q'.empty = q.empty
    BY <1>a, <1>c, <2>1, <2>2, <2>5, PopHolds, PoppedEntry
  <2>7. Len(pending') < MaxBuffer
    BY <1>a, <1>f, <2>6
  <2>8. \A g \in Clients : pc'[g] # "flags"
    BY <2>1, <2>3 DEF Inside
  <2> QED
    BY <1>c, <2>1, <2>4, <2>6, <2>7, <2>8 DEF RingHeld
<1>14. CASE TakeFlags
  <2>1. /\ reader = "flags" /\ q' = PopFlags(q) /\ mutex' = FALSE /\ reader' = "signal"
        /\ pending' = pending /\ pc' = pc
    BY <1>14 DEF TakeFlags
  <2>2. Nothing \in Inside /\ \A x \in Inside : x = Nothing
    BY <1>c, <2>1 DEF Inside
  <2>3. \A g \in Clients : pc'[g] # "flags"
    BY <1>a, <2>1, <2>2 DEF Inside
  <2>4. Inside' = {}
    BY <2>1, <2>3 DEF Inside
  <2>5. ~ q.empty /\ Len(pending) < MaxBuffer
    BY <1>e, <2>1
  <2>6. /\ q'.buffer = q.buffer /\ q'.tail = q.tail /\ q'.head = q.head
        /\ q'.full = FALSE /\ q'.empty = (q.empty \/ q.head = q.tail)
    BY <1>a, <2>1, FlaggedPop
  <2>7. RingHolds(q', pending')
    BY <1>c, <2>1, <2>6 DEF RingHolds
  <2>8. q.tail = q.head <=> Len(pending) = 0 \/ Len(pending) = MaxBuffer
    BY <1>a, <1>c, HeadMeetsTail
  <2>9. q'.empty = (Len(pending) = 0) /\ q'.full = (Len(pending) = MaxBuffer)
    <3>1. Len(pending) # MaxBuffer
      BY <1>a, <2>5
    <3>2. q'.empty <=> Len(pending) = 0
      BY <2>5, <2>6, <2>8, <3>1
    <3> QED
      BY <1>a, <2>6, <3>1, <3>2
  <2> QED
    BY <1>c, <2>1, <2>3, <2>4, <2>7, <2>9 DEF RingHeld
<1>15. CASE SignalRoom
  <2>1. /\ reader = "signal" /\ reader' = "cast" /\ UNCHANGED << q, pending, mutex, pc >>
    BY <1>15, <1>c DEF SignalRoom
  <2> QED
    BY <1>1, <1>c, <2>1
<1> QED
  BY <1>3, <1>4, <1>5, <1>6, <1>7, <1>8, <1>9, <1>10, <1>11, <1>12, <1>13, <1>14, <1>15
     DEF Next, Server, Door, Reader, Handler

-----------------------------------------------------------------------------
(* The message thread is woken. *)

\* The flag empty is cleared by a thread that goes on to signal.
LEMMA AwakeKept == Fit /\ Awake /\ [Next]_vars => Awake'
<1> SUFFICES ASSUME Fit, Awake, [Next]_vars, reader' = "asleep", ~ q'.empty
             PROVE  \E h \in Clients : pc'[h] = "signal"
  BY DEF Awake
<1> USE DEF listVars, doorVars, queueVars, castVars, handlerVars, clientVars, At, Goes, Checks,
            ServerIdle
<1>a. pc \in [Clients -> Steps] /\ q \in QType
  BY DEF Fit, TypeOK, Steps, QType
\* A step that leaves alone whoever is about to wake the message thread.
<1>1. ASSUME reader = "asleep", q'.empty = q.empty,
             \A h \in Clients : pc[h] = "signal" => pc'[h] = "signal"
      PROVE  \E h \in Clients : pc'[h] = "signal"
  BY <1>1 DEF Awake
<1>2. CASE UNCHANGED vars \/ Accept \/ List \/ TurnAway \/ Count \/ \E c \in Clients : Client(c)
  <2>1. UNCHANGED << q, pc, reader >>
    BY <1>2 DEF vars, Accept, List, TurnAway, Count, Client, Connect, Say, Leave, Killed
  <2> QED
    BY <1>1, <2>1
<1>3. CASE Prepare \/ Sleep \/ Take \/ TakeFlags \/ SignalRoom \/ Look \/ Write
  BY <1>3 DEF Prepare, Sleep, Take, TakeFlags, SignalRoom, Look, Write
<1>4. CASE Create
  <2>1. UNCHANGED << q, reader >>
    BY <1>4 DEF Create
  <2>2. pc[caller] # "signal" /\ caller \in Clients
    BY <1>4 DEF Create, Fit, Settled, Newcomers
  <2>3. \A h \in Clients : pc[h] = "signal" => pc'[h] = "signal"
    BY <1>4, <1>a, <2>2 DEF Create
  <2> QED
    BY <1>1, <2>1, <2>3
<1>5. ASSUME NEW h \in Clients, \/ Start(h) \/ Read(h) \/ Unlist(h) \/ Close(h) \/ Wait(h)
                                \/ Woken(h)
      PROVE  \E g \in Clients : pc'[g] = "signal"
  <2>1. UNCHANGED << q, reader >> /\ pc[h] # "signal"
    BY <1>5 DEF Start, Read, Unlist, Close, Wait, Woken
  <2>2. \A g \in Clients : g # h => pc'[g] = pc[g]
    BY <1>5, <1>a DEF Start, Read, Unlist, Close, Wait, Woken
  <2> QED
    BY <1>1, <2>1, <2>2
<1>6. ASSUME NEW h \in Clients, Push(h) PROVE \E g \in Clients : pc'[g] = "signal"
  <2>1. /\ pc[h] = "locking" /\ pc' = [pc EXCEPT ![h] = "flags"] /\ reader' = reader
        /\ q' = PushEntry(q, h)
    BY <1>6 DEF Push
  <2>2. q'.empty = q.empty
    BY <1>a, <2>1, PushedEntry
  <2> QED
    BY <1>1, <1>a, <2>1, <2>2
<1>7. ASSUME NEW h \in Clients, Flags(h) PROVE \E g \in Clients : pc'[g] = "signal"
  BY <1>7, <1>a DEF Flags
<1>8. ASSUME NEW h \in Clients, Signal(h) PROVE \E g \in Clients : pc'[g] = "signal"
  BY <1>8 DEF Signal
<1> QED
  BY <1>2, <1>3, <1>4, <1>5, <1>6, <1>7, <1>8 DEF Next, Server, Door, Reader, Handler

-----------------------------------------------------------------------------
(* A message reaches every descriptor that stays listed. *)

\* The loop of the broadcast comes to every slot below numClients in its turn, and what
\* others do to the list takes away from what it owes, never adds to it.
LEMMA CastKept == Fit /\ CastSound /\ [Next]_vars => CastSound'
<1> SUFFICES ASSUME Fit, CastSound, [Next]_vars PROVE CastSound'
  OBVIOUS
<1> USE DEF listVars, doorVars, queueVars, castVars, handlerVars, clientVars, At, Goes, Checks,
            ServerIdle
<1>a. /\ numClients \in Nat /\ next \in Nat /\ due \subseteq Slots \X Fds
      /\ Slots \subseteq Nat
  BY Bounds DEF Fit, TypeOK
<1>b. /\ due \subseteq Listed(slots, numClients)
      /\ \A d \in due : d[1] >= next \/ (reader = "write" /\ d = << next - 1, socket >>)
      /\ reader \notin {"cast", "write"} => due = {} /\ next = 0
  BY DEF CastSound
\* What is due is below numClients, and in its slot.
<1>c. \A d \in due : /\ d = << d[1], d[2] >> /\ d[1] \in Slots /\ d[1] < numClients
                     /\ d[2] = slots[d[1]]
  BY <1>b, ListedSlots
\* A step in which the message thread does not move.
<1>1. ASSUME due' \subseteq due, due' \subseteq Listed(slots', numClients'),
             UNCHANGED << next, socket, reader >>
      PROVE  CastSound'
  BY <1>1, <1>b DEF CastSound
<1>2. ASSUME UNCHANGED << slots, numClients, due, next, socket, reader >> PROVE CastSound'
  BY <1>1, <1>2, <1>b
\* A step of the message thread outside the loop.
<1>3. ASSUME UNCHANGED << due, next >>, reader \notin {"cast", "write"},
             reader' \notin {"cast", "write"}
      PROVE  CastSound'
  <2>1. due = {} /\ next = 0
    BY <1>3, <1>b
  <2> QED
    BY <1>3, <2>1 DEF CastSound
<1>4. CASE UNCHANGED vars \/ Accept \/ TurnAway \/ Create \/ \E c \in Clients : Client(c)
  <2>1. UNCHANGED << slots, numClients, due, next, socket, reader >>
    BY <1>4 DEF vars, Accept, TurnAway, Create, Client, Connect, Say, Leave, Killed
  <2> QED
    BY <1>2, <2>1
<1>5. CASE List \/ \E h \in Clients : Unlist(h) \/ Close(h)
  <2>1. /\ due' = due \cap Listed(slots', numClients')
        /\ UNCHANGED << next, socket, reader >>
    BY <1>5 DEF List, Unlist, Close
  <2> QED
    BY <1>1, <2>1
<1>6. CASE Count
  <2>1. numClients' = numClients + 1 /\ UNCHANGED << slots, due, next, socket, reader >>
    BY <1>6 DEF Count
  <2>2. Listed(slots, numClients) \subseteq Listed(slots', numClients')
    BY <1>a, <2>1 DEF Listed
  <2> QED
    BY <1>1, <1>b, <2>1, <2>2
<1>7. CASE Prepare \/ Sleep \/ Take \/ TakeFlags
  <2>1. /\ UNCHANGED << due, next >> /\ reader \in {"none", "lock", "flags"}
        /\ reader' \in {"lock", "asleep", "flags", "signal"}
    BY <1>7 DEF Prepare, Sleep, Take, TakeFlags, Fit, Begun
  <2> QED
    BY <1>3, <2>1
<1>8. ASSUME NEW h \in Clients, Signal(h) PROVE CastSound'
  <2>1. /\ UNCHANGED << slots, numClients, due, next, socket >>
        /\ reader' = reader \/ (reader = "asleep" /\ reader' = "lock")
    BY <1>8 DEF Signal
  <2> QED
    BY <1>2, <1>3, <2>1
<1>9. ASSUME NEW h \in Clients, \/ Start(h) \/ Read(h) \/ Wait(h) \/ Woken(h) \/ Push(h)
                                \/ Flags(h)
      PROVE  CastSound'
  <2>1. UNCHANGED << slots, numClients, due, next, socket, reader >>
    BY <1>9 DEF Start, Read, Wait, Woken, Push, Flags
  <2> QED
    BY <1>2, <2>1
<1>10. CASE SignalRoom
  <2>1. /\ reader = "signal" /\ reader' = "cast" /\ due' = Listed(slots, numClients)
        /\ UNCHANGED << slots, numClients, next, socket >>
    BY <1>10 DEF SignalRoom
  <2>2. next' = 0
    BY <1>b, <2>1
  <2>3. \A d \in due' : d[1] >= 0
    BY <1>a, <2>1, ListedSlots
  <2> QED
    BY <2>1, <2>2, <2>3 DEF CastSound
<1>11. CASE Look
  <2>1. reader = "cast" /\ UNCHANGED << slots, numClients, due >>
    BY <1>11 DEF Look
  <2>2. \A d \in due : d[1] >= next
    BY <1>b, <2>1
  <2>3. CASE next < numClients /\ socket' = slots[next] /\ next' = next + 1 /\ reader' = "write"
    <3> SUFFICES ASSUME NEW d \in due, ~ (d[1] >= next') PROVE d = << next' - 1, socket' >>
      BY <1>b, <2>1, <2>3 DEF CastSound
    <3>1. d[1] \in Nat /\ d[1] >= next /\ ~ (d[1] >= next + 1)
      BY <1>a, <1>c, <2>2, <2>3
    <3>2. d[1] = next
      BY <1>a, <3>1
    <3>3. d = << next, slots[next] >>
      BY <1>c, <3>2
    <3>4. next' - 1 = next
      BY <1>a, <2>3
    <3> QED
      BY <2>3, <3>3, <3>4
  <2>4. CASE next >= numClients /\ reader' = "lock" /\ next' = 0
    <3>1. \A d \in due : FALSE
      <4> SUFFICES ASSUME NEW d \in due PROVE FALSE
        OBVIOUS
      <4>1. d[1] \in Nat /\ d[1] < numClients /\ d[1] >= next
        BY <1>a, <1>c, <2>2
      <4> QED
        BY <1>a, <2>4, <4>1
    <3> QED
      BY <2>1, <2>4, <3>1 DEF CastSound
  <2> QED
    BY <1>11, <2>3, <2>4 DEF Look
<1>12. CASE Write
  <2>1. /\ reader' = "cast" /\ due' = due \ {<< next - 1, socket >>}
        /\ UNCHANGED << slots, numClients, next >>
    BY <1>12 DEF Write
  <2> QED
    BY <1>b, <2>1 DEF CastSound
<1> QED
  BY <1>4, <1>5, <1>6, <1>7, <1>8, <1>9, <1>10, <1>11, <1>12
     DEF Next, Server, Door, Reader, Handler

-----------------------------------------------------------------------------
(* The theorems. *)

\* The inductive invariant is kept by every step.
LEMMA Inductive == IInv /\ [Next]_vars => IInv'
BY FitKept, ListKept, RingKept, AwakeKept, CastKept DEF IInv

\* It holds always.
LEMMA IInvAlways == Spec => []IInv
BY InitSound, Inductive, PTL DEF Spec

\* Every variable is of its type: more descriptors than fit are never counted, and never
\* fewer than none, whichever threads come, fail to come and go.
THEOREM TypeCorrect == Spec => []TypeOK
<1>1. IInv => TypeOK
  BY DEF IInv, Fit
<1> QED
  BY <1>1, IInvAlways, PTL

\* Until the first client thread finds no room, one thread at a time is in the ring, and
\* it holds what was pushed and not taken, in order, with its flags right.
THEOREM RingIsSound == Spec => []RingSound
<1>1. ASSUME IInv PROVE RingSound
  <2> SUFFICES ASSUME ~ rough
               PROVE  /\ Cardinality(Inside) <= 1 /\ (mutex <=> Inside # {})
                      /\ ~ mutex =>
                           /\ Len(pending) <= MaxBuffer /\ q.tail = Ahead(Len(pending) + 1)
                           /\ \A k \in DOMAIN pending : q.buffer[Ahead(k)] = pending[k]
                           /\ q.empty = (pending = << >>) /\ q.full = (Len(pending) = MaxBuffer)
    BY DEF RingSound
  <2>1. /\ \A x, y \in Inside : x = y
        /\ mutex <=> Inside # {}
        /\ RingHolds(q, pending)
        /\ ~ mutex => q.empty = (Len(pending) = 0) /\ q.full = (Len(pending) = MaxBuffer)
    BY <1>1 DEF IInv, RingHeld
  <2>2. q \in QType /\ pending \in Seq(Clients)
    BY <1>1 DEF IInv, Fit, TypeOK, QType
  <2>3. Cardinality(Inside) <= 1
    <3>1. CASE Inside = {}
      BY <3>1, FS_EmptySet
    <3>2. CASE Inside # {}
      <4>1. PICK x \in Inside : TRUE
        BY <3>2
      <4>2. Inside = {x}
        BY <2>1, <4>1
      <4>3. Cardinality({x}) = 1
        BY FS_Singleton
      <4> QED
        BY <4>2, <4>3
    <3> QED
      BY <3>1, <3>2
  <2>4. q.head \in Slots /\ Len(pending) \in Nat /\ Len(pending) <= MaxBuffer /\ MaxBuffer \in Nat
    BY <2>1, <2>2, Bounds DEF QType, RingHolds
  <2>5. \A k \in 1 .. MaxBuffer + 1 : Ahead(k) = Place(q.head, k)
    BY <2>4, Places DEF Ahead
  <2>6. /\ Len(pending) + 1 \in 1 .. MaxBuffer + 1 /\ DOMAIN pending = 1 .. Len(pending)
        /\ 1 .. Len(pending) \subseteq 1 .. MaxBuffer + 1
    BY <2>2, <2>4
  <2>7. q.tail = Ahead(Len(pending) + 1)
    BY <2>1, <2>5, <2>6 DEF RingHolds
  <2>8. \A k \in DOMAIN pending : q.buffer[Ahead(k)] = pending[k]
    BY <2>1, <2>5, <2>6 DEF RingHolds
  <2>9. (pending = << >>) = (Len(pending) = 0)
    BY <2>2, EmptySeq
  <2> QED
    BY <2>1, <2>3, <2>4, <2>7, <2>8, <2>9
<1> QED
  BY <1>1, IInvAlways, PTL

\* The message thread does not sleep through a message.
THEOREM WakerIsAtHand == Spec => []WakerAtHand
<1>1. IInv => WakerAtHand
  BY DEF IInv, Awake, WakerAtHand
<1> QED
  BY <1>1, IInvAlways, PTL

\* A descriptor in the list is open, unless its thread could not be created or its number
\* was in clientSockets by chance.
THEOREM ListedAreOpen == Spec => []SlotsOpen
<1>1. IInv => SlotsOpen
  BY DEF IInv, ListSound
<1> QED
  BY <1>1, IInvAlways, PTL

\* A message is written to every descriptor that is in one of the first numClients slots
\* throughout its broadcast, whatever the memory held at first, whoever comes or leaves
\* meanwhile and whichever thread could not be created.
THEOREM EverybodyHears == Spec => []AllHear
<1>1. IInv => AllHear
  BY DEF IInv, CastSound, AllHear
<1> QED
  BY <1>1, IInvAlways, PTL
=============================================================================
