------------------------------- MODULE MtChat -------------------------------
(***************************************************************************)
(* The Multithreaded-Chat server (kod 3) and its clients.  A connection    *)
(* thread accepts clients and lists their descriptors; a thread for each   *)
(* client reads what it sends and pushes it into a ring buffer; a message  *)
(* thread takes messages out and writes each to the clients listed.        *)
(*                                                                         *)
(* What crosses the ring is a pointer to the buffer of the thread that     *)
(* pushed it, so a message is the thread it comes from; what the buffer    *)
(* holds by the time it is written, the thread having read on or ended, is *)
(* left out.  MAX_BUFFER is both the length of the ring and that of the    *)
(* list.  A mutex is a word that is locked or not: pthread_cond_wait       *)
(* unlocks it whoever locked it, and client threads wait with the mutex    *)
(* not theirs.                                                             *)
(***************************************************************************)
EXTENDS Integers, Sequences, FiniteSets

CONSTANTS MaxBuffer,    \* MAX_BUFFER
          MaxClients,   \* bound: how many times a client is started
          MaxTyped,     \* bound: lines typed, ends of stream read, and clients killed
          FirstData     \* what clientSockets and serverReadFds may hold before they
                        \* are written to

Clients == 1 .. MaxClients      \* and the threads that are started for them
Fds     == 1 .. MaxClients      \* descriptors accept returns, the lowest free first
Nothing == 0                    \* a slot that is free, a descriptor with nobody behind it
Junk    == -1                   \* no client's descriptor, and FD_ISSET finds its bit set
Slots   == 0 .. MaxBuffer - 1

ASSUME MtChatAssumption ==
  /\ MaxBuffer \in Nat \ {0} /\ MaxClients \in Nat /\ MaxTyped \in Nat
  /\ FirstData \subseteq [Slots -> {Nothing, Junk} \cup Fds] \X SUBSET ({Nothing} \cup Fds)

VARIABLES
  client,     \* where each client is
  backlog,    \* the clients that have connected and are not accepted yet
  line,       \* what each client has written and nobody has read
  peer,       \* the client behind each descriptor
  watch,      \* serverReadFds, in which nothing is ever cleared
  slots,      \* clientSockets
  numClients,
  listMutex,  \* clientListMutex is locked
  started,    \* startChat has set up serverReadFds and started the message thread
  door,       \* where the connection thread is
  new,        \* the descriptor it has accepted
  caller,     \* history: the client that connection is with
  chv,        \* the descriptor the next client thread is to find
  pc,         \* where each client thread is
  fd,         \* the descriptor it reads
  q,          \* the ring buffer
  mutex,      \* q->mutex is locked
  reader,     \* where the message thread is
  next,       \* the slot it looks at
  socket,     \* the descriptor it has found there
  up,         \* the process is alive
  typed,      \* how much was typed
  pending,    \* history: what has been pushed and not taken
  rough,      \* history: a client thread waited for room, or pushed when there was none
  failed,     \* history: descriptors listed whose thread could not be created
  strewn,     \* history: descriptors whose numbers clientSockets held at first
  due         \* history: the slots listed since the broadcast began, with what they
              \* hold, that are not written to yet

listVars  == << peer, watch, slots, numClients, listMutex, failed, strewn >>
doorVars  == << door, new, caller, chv, started >>
queueVars == << q, mutex, pending, rough >>
castVars  == << reader, next, socket, due >>
handlerVars == << pc, fd >>
clientVars  == << client, backlog, line, typed >>
vars == << listVars, doorVars, queueVars, castVars, handlerVars, clientVars, up >>

Init ==
  /\ client = [c \in Clients |-> "off"] /\ backlog = {} /\ line = [c \in Clients |-> << >>]
  /\ peer = [f \in Fds |-> Nothing]
  /\ \E first \in FirstData : slots = first[1] /\ watch = first[2]
  /\ numClients = 0 /\ listMutex = FALSE
  /\ started = FALSE /\ door = "accept" /\ new = Nothing /\ caller = Nothing
  /\ chv = Nothing
  /\ pc = [c \in Clients |-> "none"] /\ fd = [c \in Clients |-> Nothing]
  /\ q = [buffer |-> [i \in Slots |-> Nothing], head |-> 0, tail |-> 0,
          full |-> FALSE, empty |-> TRUE]
  /\ mutex = FALSE /\ reader = "none" /\ next = 0 /\ socket = Nothing
  /\ up = TRUE /\ typed = 0
  /\ pending = << >> /\ rough = FALSE /\ failed = {} /\ due = {}
  /\ strewn = {slots[i] : i \in Slots} \cap Fds

\* The slots the loop of messageHandler comes to, with the descriptors in them.
Listed(list, n) == {<< i, list[i] >> : i \in {i \in Slots : i < n /\ list[i] \in Fds}}

-----------------------------------------------------------------------------
(* queuePush and queuePop, each in two halves: the entry, then the flags. *)

After(i) == IF i + 1 = MaxBuffer THEN 0 ELSE i + 1

\* Variants, here and below: an operator or a step as a slip in the code would make it.
PushEntry_NoWrap(ring, m) == [ring EXCEPT !.buffer[ring.tail] = m, !.tail = @ + 1]
PopFlags_StaysFull(ring)  == [ring EXCEPT !.empty = @ \/ ring.head = ring.tail]

PushEntry(ring, m) == [ring EXCEPT !.buffer[ring.tail] = m, !.tail = After(@)]
PushFlags(ring)    == [ring EXCEPT !.full = @ \/ ring.tail = ring.head, !.empty = FALSE]
PopEntry(ring)     == [ring EXCEPT !.head = After(@)]
PopFlags(ring)     == [ring EXCEPT !.empty = @ \/ ring.head = ring.tail, !.full = FALSE]

-----------------------------------------------------------------------------
(* Variants of the steps below. *)

\* A client is taken off the list and its slot is not freed.
Unlist_Kept(h) ==
  /\ pc[h] = "remove" /\ ~ listMutex
  /\ pc' = [pc EXCEPT ![h] = "close"] /\ listMutex' = TRUE
  /\ UNCHANGED << peer, watch, slots, numClients, failed, strewn, doorVars, queueVars,
                  castVars, fd, clientVars, up >>

\* The signal comes before the push, which is as good as none: there is nothing to take.
Flags_Signalled(h) ==
  /\ pc[h] = "flags"
  /\ q' = PushFlags(q) /\ mutex' = FALSE
  /\ pc' = [pc EXCEPT ![h] = "read"]
  /\ UNCHANGED << pending, rough, listVars, doorVars, castVars, fd, clientVars, up >>

\* A message is taken and the mutex is not given back.
TakeFlags_Locked ==
  /\ reader = "flags"
  /\ q' = PopFlags(q) /\ reader' = "signal"
  /\ UNCHANGED << mutex, pending, rough, next, socket, due,
                  listVars, doorVars, handlerVars, clientVars, up >>

\* The loop over the list stops one short.
Look_OneShort ==
  /\ reader = "cast"
  /\ \/ /\ next < numClients - 1
        /\ socket' = slots[next] /\ next' = next + 1 /\ reader' = "write"
     \/ /\ next >= numClients - 1
        /\ reader' = "lock" /\ next' = 0 /\ UNCHANGED socket
  /\ UNCHANGED << due, listVars, doorVars, queueVars, handlerVars, clientVars, up >>

-----------------------------------------------------------------------------
(* startChat and the connection thread, which it starts first. *)

\* FD_ZERO, and then the message thread is started.
Prepare ==
  /\ ~ started
  /\ started' = TRUE /\ watch' = {} /\ reader' = "lock"
  /\ UNCHANGED << peer, slots, numClients, listMutex, failed, strewn, door, new, caller, chv,
                  queueVars, next, socket, due, handlerVars, clientVars, up >>

Accept ==
  /\ door = "accept"
  /\ \E c \in backlog, f \in Fds :
       /\ peer[f] = Nothing /\ \A g \in Fds : peer[g] = Nothing => f <= g
       /\ backlog' = backlog \ {c} /\ peer' = [peer EXCEPT ![f] = c]
       /\ new' = f /\ caller' = c
  /\ door' = "list"
  /\ UNCHANGED << watch, slots, numClients, listMutex, failed, strewn, chv, started,
                  queueVars, castVars, handlerVars, client, line, typed, up >>

\* The first slot that does not hold a descriptor in serverReadFds gets the new one,
\* if there is any; clientSockets may hold the number by chance in another one.
List ==
  /\ door = "list" /\ ~ listMutex /\ numClients < MaxBuffer
  /\ LET open  == {i \in Slots : slots[i] \notin watch \cup {Junk}}
         first == {i \in open : \A j \in open : i <= j}
     IN  slots' = [i \in Slots |-> IF i \in first THEN new ELSE slots[i]]
  /\ due' = due \cap Listed(slots', numClients)
  /\ watch' = watch \cup {new} /\ chv' = new
  /\ listMutex' = TRUE /\ door' = "spawn"
  /\ UNCHANGED << peer, numClients, failed, strewn, new, caller, started, queueVars,
                  reader, next, socket, handlerVars, clientVars, up >>

\* The list is full: the connection is kept, and nobody reads it.
TurnAway ==
  /\ door = "list" /\ ~ listMutex /\ numClients >= MaxBuffer
  /\ door' = "accept" /\ new' = Nothing /\ caller' = Nothing
  /\ UNCHANGED << listVars, chv, started, queueVars, castVars, handlerVars, clientVars, up >>

\* The thread is created, and runs at once; or it is not, and the descriptor is closed
\* and stays in the list.
Create ==
  /\ door = "spawn"
  /\ \/ /\ door' = "count" /\ pc' = [pc EXCEPT ![caller] = "start"]
        /\ UNCHANGED << peer, failed, listMutex, new, caller >>
     \/ /\ door' = "accept" /\ new' = Nothing /\ caller' = Nothing /\ listMutex' = FALSE
        /\ peer' = [peer EXCEPT ![new] = Nothing]
        /\ failed' = failed \cup {new}
        /\ UNCHANGED pc
  /\ UNCHANGED << watch, slots, numClients, strewn, chv, started, queueVars, castVars, fd,
                  clientVars, up >>

Count ==
  /\ door = "count" /\ door' = "accept" /\ new' = Nothing /\ caller' = Nothing
  /\ numClients' = numClients + 1 /\ listMutex' = FALSE
  /\ UNCHANGED << peer, watch, slots, failed, strewn, chv, started, queueVars, castVars,
                  handlerVars, clientVars, up >>

Door == Accept \/ List \/ TurnAway \/ Create \/ Count

-----------------------------------------------------------------------------
(* clientHandler, the thread of a client. *)

At(h, step)   == pc[h] = step
Goes(h, step) == pc' = [pc EXCEPT ![h] = step]

\* What the thread finds in chv is its own descriptor, or that of the client after.
Start(h) ==
  /\ At(h, "start") /\ Goes(h, "read")
  /\ fd' = [fd EXCEPT ![h] = chv]
  /\ UNCHANGED << listVars, doorVars, queueVars, castVars, clientVars, up >>

\* The thread looks at full with the mutex not locked, or, after it was woken, with
\* the mutex its own; it goes to wait for room, or to lock the mutex.
Checks(h) == Goes(h, IF q.full THEN "full" ELSE "locking")

\* A text or "/exit"; at the end of the stream, and when the descriptor is closed, the
\* thread goes on as if it had read a text.  It looks at full in the same step: only
\* what it looks at is shared.
Read(h) ==
  LET c == peer[fd[h]] IN
  /\ At(h, "read")
  /\ \/ /\ c # Nothing /\ line[c] # << >>
        /\ line' = [line EXCEPT ![c] = Tail(@)]
        /\ IF Head(line[c]) = "exit" THEN Goes(h, "remove") ELSE Checks(h)
        /\ UNCHANGED typed
     \/ /\ c # Nothing => line[c] = << >> /\ client[c] = "over"
        /\ typed < MaxTyped /\ typed' = typed + 1
        /\ Checks(h)
        /\ UNCHANGED line
  /\ UNCHANGED << fd, client, backlog, listVars, doorVars, queueVars, castVars, up >>

\* removeClient: the first slot with the descriptor, if there is one.
Unlist(h) ==
  LET mine  == {i \in Slots : slots[i] = fd[h]}
      first == {i \in mine : \A j \in mine : i <= j}
  IN
  /\ At(h, "remove") /\ ~ listMutex
  /\ Goes(h, IF mine = {} THEN "gone" ELSE "close")
  /\ listMutex' = (mine # {})
  /\ slots' = [i \in Slots |-> IF i \in first THEN Nothing ELSE slots[i]]
  /\ due' = due \cap Listed(slots', numClients)
  /\ UNCHANGED << peer, watch, numClients, failed, strewn, doorVars, queueVars,
                  reader, next, socket, fd, clientVars, up >>

Close(h) ==
  /\ At(h, "close") /\ Goes(h, "gone")
  /\ peer' = [peer EXCEPT ![fd[h]] = Nothing]
  /\ numClients' = numClients - 1 /\ listMutex' = FALSE
  /\ due' = due \cap Listed(slots, numClients')
  /\ UNCHANGED << watch, slots, failed, strewn, doorVars, queueVars, reader, next, socket,
                  fd, clientVars, up >>

Wait(h) ==
  /\ At(h, "full") /\ Goes(h, "asleep")
  /\ mutex' = FALSE /\ rough' = TRUE
  /\ UNCHANGED << q, pending, listVars, doorVars, castVars, fd, clientVars, up >>

Woken(h) ==
  /\ At(h, "woken") /\ ~ mutex
  /\ Checks(h) /\ mutex' = TRUE
  /\ UNCHANGED << q, pending, rough, listVars, doorVars, castVars, fd, clientVars, up >>

Push(h) ==
  /\ At(h, "locking") /\ ~ mutex
  /\ Goes(h, "flags") /\ mutex' = TRUE
  /\ q' = PushEntry(q, h)
  /\ pending' = Append(pending, h)
  /\ rough' = (rough \/ q.full)
  /\ UNCHANGED << listVars, doorVars, castVars, fd, clientVars, up >>

Flags(h) ==
  /\ At(h, "flags") /\ Goes(h, "signal")
  /\ q' = PushFlags(q) /\ mutex' = FALSE
  /\ UNCHANGED << pending, rough, listVars, doorVars, castVars, fd, clientVars, up >>

Signal(h) ==
  /\ At(h, "signal") /\ Goes(h, "read")
  /\ reader' = IF reader = "asleep" THEN "lock" ELSE reader
  /\ UNCHANGED << next, socket, due, listVars, doorVars, queueVars, fd, clientVars, up >>

Handler(h) ==
  \/ Start(h) \/ Read(h) \/ Unlist(h) \/ Close(h)
  \/ Wait(h) \/ Woken(h) \/ Push(h) \/ Flags(h) \/ Signal(h)

-----------------------------------------------------------------------------
(* messageHandler, the message thread. *)

Sleep ==
  /\ reader = "lock" /\ ~ mutex /\ q.empty
  /\ reader' = "asleep"
  /\ UNCHANGED << next, socket, due, listVars, doorVars, queueVars,
                  handlerVars, clientVars, up >>

Take ==
  /\ reader = "lock" /\ ~ mutex /\ ~ q.empty
  /\ mutex' = TRUE /\ reader' = "flags"
  /\ q' = PopEntry(q)
  /\ pending' = IF pending = << >> THEN << >> ELSE Tail(pending)
  /\ UNCHANGED << rough, next, socket, due, listVars, doorVars, handlerVars,
                  clientVars, up >>

TakeFlags ==
  /\ reader = "flags"
  /\ q' = PopFlags(q) /\ mutex' = FALSE /\ reader' = "signal"
  /\ UNCHANGED << pending, rough, next, socket, due,
                  listVars, doorVars, handlerVars, clientVars, up >>

SignalRoom ==
  /\ reader = "signal" /\ reader' = "cast"
  /\ \/ \E h \in Clients : At(h, "asleep") /\ Goes(h, "woken")
     \/ (\A h \in Clients : ~ At(h, "asleep")) /\ UNCHANGED pc
  /\ due' = Listed(slots, numClients)
  /\ UNCHANGED << next, socket, listVars, doorVars, queueVars, fd, clientVars, up >>

\* numClients and the list are read with no lock.
Look ==
  /\ reader = "cast"
  /\ \/ /\ next < numClients
        /\ socket' = slots[next] /\ next' = next + 1 /\ reader' = "write"
     \/ /\ next >= numClients
        /\ reader' = "lock" /\ next' = 0 /\ UNCHANGED socket
  /\ UNCHANGED << due, listVars, doorVars, queueVars, handlerVars, clientVars, up >>

\* The message thread is in a write that may block: whoever is behind the descriptor is
\* there, and need not read.
Addressee == IF socket \in Fds THEN peer[socket] ELSE Nothing
Blocked   == reader = "write" /\ Addressee # Nothing /\ client[Addressee] = "on"

\* A write to a client that is gone may be answered by SIGPIPE, which ends the server.
Write ==
  /\ reader = "write"
  /\ reader' = "cast" /\ socket' = Nothing
  /\ due' = due \ {<< next - 1, socket >>}
  /\ up' \in IF Addressee # Nothing /\ client[Addressee] = "over" THEN BOOLEAN ELSE {TRUE}
  /\ UNCHANGED << next, listVars, doorVars, queueVars, handlerVars, clientVars >>

Reader == Sleep \/ Take \/ TakeFlags \/ SignalRoom \/ Look \/ Write

-----------------------------------------------------------------------------
(* The clients. *)

ServerIdle == UNCHANGED << listVars, doorVars, queueVars, castVars, handlerVars, up >>

\* A client more than fit the list counts as two things typed.
Connect(c) ==
  /\ client[c] = "off" /\ (c > 1 => client[c - 1] # "off")
  /\ client' = [client EXCEPT ![c] = "on"] /\ backlog' = backlog \cup {c}
  /\ typed' = typed + (IF c > MaxBuffer THEN 2 ELSE 0) /\ typed' <= MaxTyped
  /\ UNCHANGED line /\ ServerIdle

Say(c) ==
  /\ client[c] = "on" /\ typed < MaxTyped
  /\ typed' = typed + 1
  /\ line' = [line EXCEPT ![c] = Append(@, "text")]
  /\ UNCHANGED << client, backlog >> /\ ServerIdle

\* /exit or Ctrl-C: the client writes "/exit" and is gone.
Leave(c) ==
  /\ client[c] = "on" /\ typed < MaxTyped
  /\ typed' = typed + 1
  /\ client' = [client EXCEPT ![c] = "over"]
  /\ line' = [line EXCEPT ![c] = Append(@, "exit")]
  /\ UNCHANGED backlog /\ ServerIdle

Killed(c) ==
  /\ client[c] = "on" /\ typed < MaxTyped
  /\ typed' = typed + 1 /\ client' = [client EXCEPT ![c] = "over"]
  /\ UNCHANGED << backlog, line >> /\ ServerIdle

Client(c) == Connect(c) \/ Say(c) \/ Leave(c) \/ Killed(c)

-----------------------------------------------------------------------------

Server == Prepare \/ Door \/ Reader \/ \E h \in Clients : Handler(h)

Next == up /\ (Server \/ \E c \in Clients : Client(c))

\* Every thread of the server runs while it can; nothing is promised of the clients, who
\* need not read, and so nothing of a write to one of them: it may block for ever.
Fairness ==
  /\ WF_vars(up /\ Prepare) /\ WF_vars(up /\ ~ Blocked /\ Reader) /\ WF_vars(up /\ Door)
  /\ \A h \in Clients : WF_vars(up /\ Handler(h))

Spec == Init /\ [][Next]_vars /\ Fairness

-----------------------------------------------------------------------------
(* Properties. *)

\* Every variable is of its type.
TypeOK ==
  /\ client \in [Clients -> {"off", "on", "over"}] /\ backlog \subseteq Clients
  /\ line \in [Clients -> Seq({"text", "exit"})]
  /\ peer \in [Fds -> Clients \cup {Nothing}] /\ watch \subseteq Fds \cup {Nothing}
  /\ slots \in [Slots -> Fds \cup {Nothing, Junk}]
  /\ numClients \in 0 .. MaxBuffer
  /\ listMutex \in BOOLEAN /\ mutex \in BOOLEAN /\ started \in BOOLEAN /\ up \in BOOLEAN
  /\ door \in {"accept", "list", "spawn", "count"}
  /\ new \in Fds \cup {Nothing} /\ chv \in Fds \cup {Nothing}
  /\ caller \in Clients \cup {Nothing}
  /\ pc \in [Clients -> {"none", "start", "read", "remove", "close", "full", "asleep", "woken",
                         "locking", "flags", "signal", "gone"}]
  /\ fd \in [Clients -> Fds \cup {Nothing}]
  /\ q \in [buffer : [Slots -> Clients \cup {Nothing}], head : Slots, tail : Slots,
            full : BOOLEAN, empty : BOOLEAN]
  /\ reader \in {"none", "lock", "asleep", "flags", "signal", "cast", "write"}
  /\ next \in 0 .. MaxBuffer
  /\ socket \in Fds \cup {Nothing, Junk}
  /\ typed \in 0 .. MaxTyped /\ pending \in Seq(Clients)
  /\ rough \in BOOLEAN /\ failed \subseteq Fds /\ strewn \subseteq Fds
  /\ due \subseteq Slots \X Fds

\* One thread at a time has the ring, and whenever none has it, it holds what was
\* pushed and not taken, in order, and its flags say whether that is nothing or all it
\* has room for; until the first client thread finds no room.
Inside == {h \in Clients : pc[h] = "flags"} \cup (IF reader = "flags" THEN {Nothing} ELSE {})
Ahead(k) == (q.head + k - 1) % MaxBuffer
RingSound ==
  ~ rough =>
    /\ Cardinality(Inside) <= 1 /\ (mutex <=> Inside # {})
    /\ ~ mutex =>
         /\ Len(pending) <= MaxBuffer /\ q.tail = Ahead(Len(pending) + 1)
         /\ \A k \in DOMAIN pending : q.buffer[Ahead(k)] = pending[k]
         /\ q.empty = (pending = << >>) /\ q.full = (Len(pending) = MaxBuffer)

\* The message thread does not sleep through a message: when there is one, a client
\* thread is about to wake it.
WakerAtHand ==
  ~ rough /\ reader = "asleep" /\ ~ q.empty => \E h \in Clients : pc[h] = "signal"

\* A descriptor in the list is open: whoever is next to get its number gets nothing
\* that was meant for somebody else by way of the list.  The exceptions are one whose
\* thread could not be created, and one whose number clientSockets, which is never
\* initialised, held at first: two slots may hold it, and removeClient clears one.
SlotsOpen ==
  \A i \in Slots : slots[i] \in Fds =>
    peer[slots[i]] # Nothing \/ slots[i] \in failed \cup strewn

\* The loop of messageHandler reads numClients and the list with no lock while clients
\* come and go.  Still it writes to every descriptor that is in one of the first
\* numClients slots from its beginning to its end, whatever happens to the others.
AllHear == reader = "lock" => due = {}

\* From the comment on the same loop, "Broadcast message to all connected clients":
\* when it begins, the descriptor of everybody who is there, whose thread is counted and
\* whose descriptor is in serverReadFds, is in one of the slots it is about to come to.
Counted(c) == client[c] = "on" /\ pc[c] \notin {"none", "gone"} /\ ~ (door = "count" /\ caller = c)
AllReached ==
  reader = "cast" /\ next = 0 =>
    \A f \in watch \cap Fds : (peer[f] # Nothing /\ Counted(peer[f])) =>
      \E i \in Slots : i < numClients /\ slots[i] = f

\* What is pushed is taken, until the first client thread finds no room; unless the
\* message thread is blocked for ever in writing to a client that does not read.
Drains ==
  \/ <>[]Blocked
  \/ pending # << >> ~> pending = << >> \/ rough \/ ~up
=============================================================================
