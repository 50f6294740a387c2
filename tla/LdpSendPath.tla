----------------------------- MODULE LdpSendPath -----------------------------
(***************************************************************************)
(* The sending half of one endpoint: the constructor of Chatter, which     *)
(* sets up the LDP object and then reads standard input for ever; LDP::send*)
(* which puts the packets of a line in senderWindow; and the two threads   *)
(* running LDP::ldpPacketSender, which take them out and hand them to      *)
(* sendto.                                                                 *)
(*                                                                         *)
(* There are two sender threads because initializeThreadMhreadEtcMtc runs  *)
(* twice, in the constructor of LDP and at the end of createAndBindSocket, *)
(* and creates one each time.  The second run initialises the mutexes and  *)
(* the semaphores anew while the first thread may already be waiting on    *)
(* them: see Fairness.                                                     *)
(***************************************************************************)
EXTENDS Integers, Sequences

CONSTANTS Lengths,   \* lengths of the lines the user may type, newline included
          Capacity,  \* WINDOW_CONTAINER_MAX_SIZE
          MaxReads   \* bound: how many times standard input is read

LongestLine == 122   \* fgets leaves room for the NUL in its MAXBUFLEN bytes
PayloadSize == 8

ASSUME LdpSendPathAssumption ==
  /\ Lengths \subseteq 0 .. LongestLine /\ Lengths # {}
  /\ Capacity \in Nat \ {0}
  /\ MaxReads \in Nat

\* The holder of a mutex is a thread, or nobody.
Senders    == 1 .. 2
MainThread == 3
Free       == 0

VARIABLES
  main,      \* where the main thread is
  isClient,  \* client or server
  bound,     \* createAndBindSocket bound the socket
  peer,      \* chateeSockaddr: "set", or "unset" while it is uninitialised
  running,   \* the process has not called exit
  line,      \* the buffer of fgets: which text, and its length
  reads,     \* how many times fgets has been called
  offset,    \* i of the loop in LDP::send
  window,    \* senderWindow
  mutex,     \* senderWindowMutex: its holder or Free
  full,      \* senderWindowFullSlotCount
  empty,     \* senderWindowEmptySlotCount
  sender,    \* where each sender thread is, "off" before it is created
  produced,  \* history: the packets put in senderWindow
  sent       \* history: the packets sendto accepted, and where they went

bootVars    == << isClient, bound >>
inputVars   == << line, reads, offset >>
windowVars  == << window, mutex, full, empty >>
historyVars == << produced, sent >>
vars == << main, bootVars, peer, running, inputVars, windowVars, sender, historyVars >>

\* A packet is known by the text it was cut from and its place in it.
Packets == [text : 0 .. MaxReads, offset : 0 .. LongestLine]

BootSteps == {"ctor", "bind", "initMutex", "initEmpty", "initFull", "create", "listen"}
SendSteps == {"wait", "lock", "push", "unlock", "post"}

Init ==
  /\ main = "ctor" /\ isClient \in BOOLEAN
  /\ bound = FALSE /\ peer = "unset" /\ running = TRUE
  \* The buffer is uninitialised until fgets first fills it: text 0 is no text
  \* anybody typed.
  /\ line \in [text : {0}, length : Lengths] /\ reads = 0 /\ offset = 0
  /\ window = << >> /\ mutex = Free /\ full = 0 /\ empty = 0
  /\ sender = [s \in Senders |-> "off"]
  /\ produced = << >> /\ sent = << >>

-----------------------------------------------------------------------------
(* Variants of steps below, as a slip in the code would make them: the runs   *)
(* tell each of them from the code.                                           *)

Goto(s, from, to) == sender[s] = from /\ sender' = [sender EXCEPT ![s] = to]

\* LDP::send does not wait for a free slot.
WaitEmpty_Unpaid ==
  /\ main = "wait" /\ main' = "lock"
  /\ UNCHANGED << bootVars, peer, running, inputVars, windowVars, sender, historyVars >>

\* LDP::send does not take the mutex.
Lock_Missing ==
  /\ main = "lock" /\ main' = "push"
  /\ UNCHANGED << bootVars, peer, running, inputVars, windowVars, sender, historyVars >>

\* A failed sendto is tried again, with the mutex held.
SenderFails_Retry(s) ==
  /\ sender[s] = "send"
  /\ ~bound \/ peer = "unset"
  /\ UNCHANGED vars

\* A failed sendto is ignored.
SenderFails_Ignored(s) ==
  /\ Goto(s, "send", "pop")
  /\ ~bound \/ peer = "unset"
  /\ UNCHANGED << main, bootVars, peer, running, inputVars, windowVars, historyVars >>

\* pop_back for pop_front.
SenderPop_Newest(s) ==
  /\ Goto(s, "pop", "unlock")
  /\ window' = SubSeq(window, 1, Len(window) - 1)
  /\ UNCHANGED << main, bootVars, peer, running, inputVars, mutex, full, empty,
                  historyVars >>

\* The free slot is not given back.
SenderPost_Missing(s) ==
  /\ Goto(s, "post", "wait")
  /\ UNCHANGED << main, bootVars, peer, running, inputVars, windowVars, historyVars >>

-----------------------------------------------------------------------------
(* Setting up *)

\* LDP::LDP runs initializeThreadMhreadEtcMtc for the first time; no other
\* thread knows the object yet, so its steps are one.
Ctor ==
  /\ main = "ctor" /\ main' = "bind"
  /\ mutex' = Free /\ empty' = Capacity /\ full' = 0
  /\ sender' = [sender EXCEPT ![1] = "wait"]
  /\ UNCHANGED << bootVars, peer, running, inputVars, window, historyVars >>

\* computeChateeAddrInfo: a client looks up the address of its peer, and nobody
\* checks whether it was found; a server does not look anything up.
LookedUp == IF isClient THEN {"set", "unset"} ELSE {"unset"}

\* createAndBindSocket with a socket that can be bound.
BindSucceeds ==
  /\ main = "bind" /\ main' = "initMutex"
  /\ bound' = TRUE
  /\ peer' \in LookedUp
  /\ UNCHANGED << isClient, running, inputVars, windowVars, sender, historyVars >>

\* It returns 2 before the second initialisation; Chatter ignores the result.
BindFails ==
  /\ main = "bind" /\ main' = "listen"
  /\ UNCHANGED << bootVars, peer, running, inputVars, windowVars, sender, historyVars >>

\* initializeThreadMhreadEtcMtc for the second time, with a sender at work.
InitMutex ==
  /\ main = "initMutex" /\ main' = "initEmpty"
  /\ mutex' = Free
  /\ UNCHANGED << bootVars, peer, running, inputVars, window, full, empty, sender,
                  historyVars >>

InitEmpty ==
  /\ main = "initEmpty" /\ main' = "initFull"
  /\ empty' = Capacity
  /\ UNCHANGED << bootVars, peer, running, inputVars, window, mutex, full, sender,
                  historyVars >>

InitFull ==
  /\ main = "initFull" /\ main' = "create"
  /\ full' = 0
  /\ UNCHANGED << bootVars, peer, running, inputVars, window, mutex, empty, sender,
                  historyVars >>

CreateSender ==
  /\ main = "create" /\ main' = "listen"
  /\ sender' = [sender EXCEPT ![2] = "wait"]
  /\ UNCHANGED << bootVars, peer, running, inputVars, windowVars, historyVars >>

\* LDP::listen starts the receiver thread.
Listen ==
  /\ main = "listen" /\ main' = "read"
  /\ UNCHANGED << bootVars, peer, running, inputVars, windowVars, sender, historyVars >>

Boot ==
  running /\ ( \/ Ctor \/ BindSucceeds \/ BindFails \/ InitMutex
               \/ InitEmpty \/ InitFull \/ CreateSender \/ Listen )

-----------------------------------------------------------------------------
(* The main thread: fgets and LDP::send *)

\* fgets fills the buffer with a line, or leaves it as it was at the end of the
\* input: its result is ignored and the buffer is sent again.
Read ==
  /\ running /\ main = "read" /\ reads < MaxReads
  /\ reads' = reads + 1
  /\ line' \in {line} \cup [text : {reads + 1}, length : Lengths]
  /\ offset' = 0 /\ main' = "wait"
  /\ UNCHANGED << bootVars, peer, running, windowVars, sender, historyVars >>

WaitEmpty ==
  /\ main = "wait" /\ empty > 0
  /\ empty' = empty - 1 /\ main' = "lock"
  /\ UNCHANGED << bootVars, peer, running, inputVars, window, mutex, full, sender,
                  historyVars >>

Lock ==
  /\ main = "lock" /\ mutex = Free
  /\ mutex' = MainThread /\ main' = "push"
  /\ UNCHANGED << bootVars, peer, running, inputVars, window, full, empty, sender,
                  historyVars >>

Push ==
  LET packet == [text |-> line.text, offset |-> offset] IN
  /\ main = "push" /\ main' = "unlock"
  /\ window' = Append(window, packet)
  /\ produced' = Append(produced, packet)
  /\ UNCHANGED << bootVars, peer, running, inputVars, mutex, full, empty, sender, sent >>

Unlock ==
  /\ main = "unlock" /\ main' = "post"
  /\ mutex' = Free
  /\ UNCHANGED << bootVars, peer, running, inputVars, window, full, empty, sender,
                  historyVars >>

\* sem_post, and the test of the loop: the line and its NUL.
PostFull ==
  /\ main = "post"
  /\ full' = full + 1
  /\ offset' = offset + PayloadSize
  /\ main' = IF offset' < line.length + 1 THEN "wait" ELSE "read"
  /\ UNCHANGED << bootVars, peer, running, line, reads, window, mutex, empty, sender,
                  historyVars >>

Send == running /\ (WaitEmpty \/ Lock \/ Push \/ Unlock \/ PostFull)

-----------------------------------------------------------------------------
(* A sender thread: LDP::ldpPacketSender *)

SenderWait(s) ==
  /\ running /\ Goto(s, "wait", "lock")
  /\ full > 0 /\ full' = full - 1
  /\ UNCHANGED << main, bootVars, peer, running, inputVars, window, mutex, empty,
                  historyVars >>

SenderLock(s) ==
  /\ Goto(s, "lock", "send")
  /\ mutex = Free /\ mutex' = s
  /\ UNCHANGED << main, bootVars, peer, running, inputVars, window, full, empty,
                  historyVars >>

\* udpSend: sendto takes the datagram.  Without a peer the uninitialised
\* address may happen to be one that sendto accepts.
SenderSend(s) ==
  /\ Goto(s, "send", "pop")
  /\ bound
  /\ sent' = Append(sent, [packet |-> Head(window), to |-> peer])
  /\ UNCHANGED << main, bootVars, peer, running, inputVars, windowVars, produced >>

\* udpSend: sendto returns -1, for want of a socket or of a valid address.
SenderFails(s) ==
  /\ sender[s] = "send"
  /\ ~bound \/ peer = "unset"
  /\ running' = FALSE
  /\ UNCHANGED << main, bootVars, peer, inputVars, windowVars, sender, historyVars >>

SenderPop(s) ==
  /\ Goto(s, "pop", "unlock")
  /\ window' = Tail(window)
  /\ UNCHANGED << main, bootVars, peer, running, inputVars, mutex, full, empty,
                  historyVars >>

SenderUnlock(s) ==
  /\ Goto(s, "unlock", "post")
  /\ mutex' = Free
  /\ UNCHANGED << main, bootVars, peer, running, inputVars, window, full, empty,
                  historyVars >>

SenderPost(s) ==
  /\ Goto(s, "post", "wait")
  /\ empty' = empty + 1
  /\ UNCHANGED << main, bootVars, peer, running, inputVars, window, mutex, full,
                  historyVars >>

SenderWork(s) ==
  running /\ ( \/ SenderLock(s) \/ SenderSend(s) \/ SenderFails(s)
               \/ SenderPop(s) \/ SenderUnlock(s) \/ SenderPost(s) )

-----------------------------------------------------------------------------
(* The receiver thread, as far as it matters here *)

Listening == main \notin BootSteps

\* udpReceive stores the address a datagram came from.
LearnPeer ==
  /\ running /\ Listening /\ bound /\ peer = "unset"
  /\ peer' = "set"
  /\ UNCHANGED << main, bootVars, running, inputVars, windowVars, sender, historyVars >>

\* recvfrom returns -1: the socket was closed when it could not be bound.
ReceiverFails ==
  /\ running /\ Listening /\ ~bound
  /\ running' = FALSE
  /\ UNCHANGED << main, bootVars, peer, inputVars, windowVars, sender, historyVars >>

-----------------------------------------------------------------------------
(* The endpoint *)

\* Nothing is left to do: the process has called exit, or everything typed is
\* on its way and the bound on the input is reached.
Stopped ==
  /\ \/ ~running
     \/ main = "read" /\ reads = MaxReads /\ \A s \in Senders : sender[s] \in {"off", "wait"}
        /\ full = 0
  /\ UNCHANGED vars

Next ==
  \/ Boot \/ Read \/ Send
  \/ \E s \in Senders : SenderWait(s) \/ SenderWork(s)
  \/ LearnPeer \/ ReceiverFails
  \/ Stopped

\* Threads are scheduled fairly and locks are granted.  A thread that waits on a
\* semaphore while it is initialised anew is no longer counted as a waiter, and
\* sem_post may then wake the other one: what the semaphore promises is only
\* that SOME sender takes a permit, never that a given one does.  Nothing is
\* promised about the user, who may stop typing.
Fairness ==
  /\ WF_vars(Boot) /\ WF_vars(Send)
  /\ WF_vars(\E s \in Senders : SenderWait(s))
  /\ \A s \in Senders : WF_vars(SenderWork(s))

SafeSpec == Init /\ [][Next]_vars

Spec == SafeSpec /\ Fairness

-----------------------------------------------------------------------------
(* Properties *)

\* The variables have their types.
TypeOK ==
  /\ main \in BootSteps \cup {"read"} \cup SendSteps
  /\ isClient \in BOOLEAN /\ bound \in BOOLEAN /\ running \in BOOLEAN
  /\ peer \in {"set", "unset"}
  /\ line \in [text : 0 .. MaxReads, length : Lengths]
  /\ reads \in 0 .. MaxReads /\ offset \in 0 .. LongestLine + PayloadSize
  /\ window \in Seq(Packets) /\ produced \in Seq(Packets)
  /\ sent \in Seq([packet : Packets, to : {"set", "unset"}])
  /\ mutex \in {Free, MainThread} \cup Senders
  /\ full \in 0 .. Capacity /\ empty \in 0 .. Capacity
  /\ sender \in [Senders -> {"off", "wait", "lock", "send", "pop", "unlock", "post"}]

\* Between pthread_mutex_lock and pthread_mutex_unlock.
MainInside      == main \in {"push", "unlock"}
SenderInside(s) == sender[s] \in {"send", "pop", "unlock"}

\* The deque is touched by one thread at a time, whichever of the two
\* initialisations set up the mutex, and no sender calls front or pop_front on
\* an empty deque.
DequeSafe ==
  /\ MainInside => \A s \in Senders : ~SenderInside(s)
  /\ ~(SenderInside(1) /\ SenderInside(2))
  /\ \A s \in Senders : sender[s] \in {"send", "pop"} => window # << >>

One(b) == IF b THEN 1 ELSE 0

\* Permits in the hands of threads: taken from one semaphore and not yet given
\* back to the other.
SenderOwes(s)  == One(sender[s] \in {"lock", "send", "pop"})
SenderHolds(s) == One(sender[s] \in {"unlock", "post"})

\* No permit is lost or made up, in spite of the second initialisation: the two
\* semaphores and the threads on their way between them always account for
\* every packet in the deque and for every free place.  The deque never grows
\* beyond its capacity.
PermitsAccounted ==
  main # "ctor" =>
    /\ Len(window) = full + SenderOwes(1) + SenderOwes(2) + One(main \in {"unlock", "post"})
    /\ Len(window) + empty + SenderHolds(1) + SenderHolds(2)
         + One(main \in {"lock", "push"}) = Capacity

Popping == One(\E s \in Senders : sender[s] = "pop")

\* Although two threads compete for the packets, they reach sendto in the order
\* LDP::send made them, each exactly once: what sendto accepted and what is
\* still in the deque together are what was produced.
InOrder ==
  /\ Len(produced) = Len(sent) + Len(window) - Popping
  /\ \A k \in 1 .. Len(sent) : sent[k].packet = produced[k]

\* What the comments say of the connection, that it starts when the server
\* receives a message, and that the server should not write before: no packet
\* is handed to sendto with an address that was never set.
NoPacketAstray == \A k \in 1 .. Len(sent) : sent[k].to = "set"

\* Every call of LDP::send returns, however small the window, unless the
\* process exits.
SendReturns == main \in SendSteps ~> main = "read" \/ ~running

\* The window is a pipe from LDP::send to sendto: bounded, first in first out,
\* loss free, and drained as long as the process runs.
Pipe == INSTANCE PacketPipe WITH
  Items <- Packets, entered <- produced, running <- running,
  left <- [k \in 1 .. Len(sent) |-> sent[k].packet]

PipeSafe == Pipe!SafeSpec
PipeSpec == Pipe!Spec
=============================================================================
