--------------------------- MODULE LdpReceivePath ---------------------------
(***************************************************************************)
(* The receiving half of one endpoint: LDP::listen, which starts the two   *)
(* threads; the thread running LDP::ldpPacketReceiver, which reads         *)
(* datagrams from the socket, throws away those whose checksum is wrong and*)
(* puts the others in receivedMessageQueue; and the thread running         *)
(* LDP::messageConsumer, which takes them out and prints them.             *)
(*                                                                         *)
(* External: the socket of the kernel, a queue that drops what it has no   *)
(* room for, and the network that fills it.                                *)
(***************************************************************************)
EXTENDS Integers, Sequences

CONSTANTS Contents,     \* the payloads that may arrive
          Capacity,     \* MAX_REC_MESSAGE_Q_SIZE
          SocketSize,   \* how many datagrams the socket holds
          MaxArrivals,  \* bound: how many datagrams arrive
          Nothing       \* what a local variable holds before it is set

ASSUME LdpReceivePathAssumption ==
  /\ Capacity \in Nat \ {0} /\ SocketSize \in Nat \ {0} /\ MaxArrivals \in Nat
  /\ Nothing \notin Contents

\* The holder of a mutex is a thread, or nobody.
Free     == 0
Receiver == 1
Consumer == 2

VARIABLES
  main,         \* where the main thread is
  bound,        \* createAndBindSocket bound the socket
  peer,         \* chateeSockaddr: "set", or "unset" while it is uninitialised
  running,      \* the process has not called exit
  isListening,  \* LDP::isListening, uninitialised at first
  socket,       \* datagrams in the socket
  arrivals,     \* how many datagrams have arrived
  receiver,     \* where the receiver thread is
  packet,       \* its local variable packet
  queue,        \* receivedMessageQueue
  mutex,        \* receivedMessageQueueMutex: its holder or Free
  full,         \* receivedMessageQueueFullSlotCount
  empty,        \* receivedMessageQueueEmptySlotCount
  consumer,     \* where the consumer thread is
  message,      \* its local variable message
  accepted,     \* history: the packets whose checksum was right
  printed       \* history: the messages printed

bootVars     == << main, bound, isListening >>
socketVars   == << socket, arrivals >>
queueVars    == << queue, mutex, full, empty >>
receiverVars == << receiver, packet >>
consumerVars == << consumer, message >>
vars == << bootVars, peer, running, socketVars, receiverVars, queueVars, consumerVars,
           accepted, printed >>

Datagrams == [content : Contents, isCorrupted : BOOLEAN]

Init ==
  /\ main = "ctor" /\ bound = FALSE /\ isListening \in BOOLEAN
  /\ peer \in {"set", "unset"} /\ running = TRUE
  /\ socket = << >> /\ arrivals = 0
  /\ receiver = "off" /\ packet = Nothing
  /\ queue = << >> /\ mutex = Free /\ full = 0 /\ empty = 0
  /\ consumer = "off" /\ message = Nothing
  /\ accepted = << >> /\ printed = << >>

-----------------------------------------------------------------------------
(* Variants of steps below, as a slip in the code would make them: the runs   *)
(* tell each of them from the code.                                           *)

ReceiverGoto(from, to) == receiver = from /\ receiver' = to

ConsumerGoto(from, to) == consumer = from /\ consumer' = to

\* LDP::listen leaves isListening as it is.
SetIsListening_Missing ==
  /\ main = "setListening" /\ main' = "createReceiver"
  /\ UNCHANGED << bound, isListening, peer, running, socketVars, receiverVars, queueVars,
                  consumerVars, accepted, printed >>

\* The receiver does not look at isCorrupted.
UdpReceive_Unchecked ==
  LET d == Head(socket) IN
  /\ bound /\ socket # << >>
  /\ ReceiverGoto("receive", "wait")
  /\ socket' = Tail(socket) /\ packet' = d /\ peer' = "set"
  /\ accepted' = Append(accepted, d)
  /\ UNCHANGED << bootVars, running, arrivals, queueVars, consumerVars, printed >>

\* The receiver does not wait for a free slot.
ReceiverWait_Unpaid ==
  /\ ReceiverGoto("wait", "lock")
  /\ UNCHANGED << bootVars, peer, running, socketVars, packet, queueVars, consumerVars,
                  accepted, printed >>

\* The receiver does not take the mutex.
ReceiverLock_Missing ==
  /\ ReceiverGoto("lock", "push")
  /\ UNCHANGED << bootVars, peer, running, socketVars, packet, queueVars, consumerVars,
                  accepted, printed >>

\* front without pop.
ConsumerTake_NoPop ==
  /\ ConsumerGoto("take", "unlock")
  /\ message' = Head(queue)
  /\ UNCHANGED << bootVars, peer, running, socketVars, receiverVars, queueVars,
                  accepted, printed >>

\* The free slot is not given back.
ConsumerPost_Missing ==
  /\ ConsumerGoto("post", "print")
  /\ UNCHANGED << bootVars, peer, running, socketVars, receiverVars, queueVars, message,
                  accepted, printed >>

\* onMessage does not return.
OnMessage_Blocks == consumer = "print" /\ UNCHANGED vars

-----------------------------------------------------------------------------
(* Setting up *)

\* initializeThreadMhreadEtcMtc, from the constructor of LDP.  No thread that
\* uses the queue exists yet, so that its steps are one.
Ctor ==
  /\ main = "ctor" /\ main' = "bind"
  /\ mutex' = Free /\ empty' = Capacity /\ full' = 0
  /\ UNCHANGED << bound, isListening, peer, running, socketVars, receiverVars, queue,
                  consumerVars, accepted, printed >>

\* createAndBindSocket: on success it initialises the queue once more, and
\* datagrams may arrive; the failure is ignored by Chatter.
Bind ==
  /\ main = "bind"
  /\ bound' \in BOOLEAN
  /\ main' = IF bound' THEN "init" ELSE "setListening"
  /\ UNCHANGED << isListening, peer, running, socketVars, receiverVars, queueVars,
                  consumerVars, accepted, printed >>

Reinit ==
  /\ main = "init" /\ main' = "setListening"
  /\ mutex' = Free /\ empty' = Capacity /\ full' = 0
  /\ UNCHANGED << bound, isListening, peer, running, socketVars, receiverVars, queue,
                  consumerVars, accepted, printed >>

\* LDP::listen
SetIsListening ==
  /\ main = "setListening" /\ main' = "createReceiver"
  /\ isListening' = TRUE
  /\ UNCHANGED << bound, peer, running, socketVars, receiverVars, queueVars,
                  consumerVars, accepted, printed >>

CreateReceiver ==
  /\ main = "createReceiver" /\ main' = "createConsumer"
  /\ receiver' = "check"
  /\ UNCHANGED << bound, isListening, peer, running, socketVars, packet, queueVars,
                  consumerVars, accepted, printed >>

CreateConsumer ==
  /\ main = "createConsumer" /\ main' = "chat"
  /\ consumer' = "wait"
  /\ UNCHANGED << bound, isListening, peer, running, socketVars, receiverVars, queueVars,
                  message, accepted, printed >>

Boot ==
  running /\ ( \/ Ctor \/ Bind \/ Reinit \/ SetIsListening
               \/ CreateReceiver \/ CreateConsumer )

-----------------------------------------------------------------------------
(* The network *)

\* A datagram, of the peer or of anybody else.  One that is shorter than a packet
\* is decoded together with what the buffer held before: any packet.
Arrive(d) ==
  /\ running /\ bound /\ arrivals < MaxArrivals
  /\ arrivals' = arrivals + 1
  /\ socket' = IF Len(socket) < SocketSize THEN Append(socket, d) ELSE socket
  /\ UNCHANGED << bootVars, peer, running, receiverVars, queueVars, consumerVars,
                  accepted, printed >>

-----------------------------------------------------------------------------
(* The receiver thread: LDP::ldpPacketReceiver *)

CheckListening ==
  /\ ReceiverGoto("check", IF isListening THEN "receive" ELSE "ended")
  /\ UNCHANGED << bootVars, peer, running, socketVars, packet, queueVars, consumerVars,
                  accepted, printed >>

\* udpReceive: the address is taken from every datagram, right or wrong.
UdpReceive ==
  LET d == Head(socket) IN
  /\ bound /\ socket # << >>
  /\ ReceiverGoto("receive", IF d.isCorrupted THEN "check" ELSE "wait")
  /\ socket' = Tail(socket) /\ packet' = d /\ peer' = "set"
  /\ accepted' = IF receiver' = "wait" THEN Append(accepted, d) ELSE accepted
  /\ UNCHANGED << bootVars, running, arrivals, queueVars, consumerVars, printed >>

\* recvfrom returns -1: the socket was closed when it could not be bound.
UdpReceiveFails ==
  /\ receiver = "receive" /\ ~bound
  /\ running' = FALSE
  /\ UNCHANGED << bootVars, peer, socketVars, receiverVars, queueVars, consumerVars,
                  accepted, printed >>

ReceiverWait ==
  /\ ReceiverGoto("wait", "lock")
  /\ empty > 0 /\ empty' = empty - 1
  /\ UNCHANGED << bootVars, peer, running, socketVars, packet, queue, mutex, full,
                  consumerVars, accepted, printed >>

ReceiverLock ==
  /\ ReceiverGoto("lock", "push")
  /\ mutex = Free /\ mutex' = Receiver
  /\ UNCHANGED << bootVars, peer, running, socketVars, packet, queue, full, empty,
                  consumerVars, accepted, printed >>

ReceiverPush ==
  /\ ReceiverGoto("push", "unlock")
  /\ queue' = Append(queue, packet.content)
  /\ UNCHANGED << bootVars, peer, running, socketVars, packet, mutex, full, empty,
                  consumerVars, accepted, printed >>

ReceiverUnlock ==
  /\ ReceiverGoto("unlock", "post")
  /\ mutex' = Free
  /\ UNCHANGED << bootVars, peer, running, socketVars, packet, queue, full, empty,
                  consumerVars, accepted, printed >>

ReceiverPost ==
  /\ ReceiverGoto("post", "check")
  /\ full' = full + 1
  /\ UNCHANGED << bootVars, peer, running, socketVars, packet, queue, mutex, empty,
                  consumerVars, accepted, printed >>

Receive ==
  running /\ ( \/ CheckListening \/ UdpReceive \/ UdpReceiveFails \/ ReceiverWait
               \/ ReceiverLock \/ ReceiverPush \/ ReceiverUnlock \/ ReceiverPost )

-----------------------------------------------------------------------------
(* The consumer thread: LDP::messageConsumer *)

ConsumerWait ==
  /\ ConsumerGoto("wait", "lock")
  /\ full > 0 /\ full' = full - 1
  /\ UNCHANGED << bootVars, peer, running, socketVars, receiverVars, queue, mutex, empty,
                  message, accepted, printed >>

ConsumerLock ==
  /\ ConsumerGoto("lock", "take")
  /\ mutex = Free /\ mutex' = Consumer
  /\ UNCHANGED << bootVars, peer, running, socketVars, receiverVars, queue, full, empty,
                  message, accepted, printed >>

ConsumerTake ==
  /\ ConsumerGoto("take", "unlock")
  /\ message' = Head(queue) /\ queue' = Tail(queue)
  /\ UNCHANGED << bootVars, peer, running, socketVars, receiverVars, mutex, full, empty,
                  accepted, printed >>

ConsumerUnlock ==
  /\ ConsumerGoto("unlock", "post")
  /\ mutex' = Free
  /\ UNCHANGED << bootVars, peer, running, socketVars, receiverVars, queue, full, empty,
                  message, accepted, printed >>

ConsumerPost ==
  /\ ConsumerGoto("post", "print")
  /\ empty' = empty + 1
  /\ UNCHANGED << bootVars, peer, running, socketVars, receiverVars, queue, mutex, full,
                  message, accepted, printed >>

\* onMessage: Chatter::printMessage writes the message and a newline.
OnMessage ==
  /\ ConsumerGoto("print", "wait")
  /\ printed' = Append(printed, message)
  /\ UNCHANGED << bootVars, peer, running, socketVars, receiverVars, queueVars, message,
                  accepted >>

Consume ==
  running /\ ( \/ ConsumerWait \/ ConsumerLock \/ ConsumerTake
               \/ ConsumerUnlock \/ ConsumerPost \/ OnMessage )

-----------------------------------------------------------------------------
(* The endpoint *)

\* Nothing is left to do: the process has called exit, or every datagram the
\* bound lets arrive is dealt with and both threads wait.
Stopped ==
  /\ \/ ~running
     \/ arrivals = MaxArrivals /\ socket = << >> /\ receiver = "receive"
        /\ consumer = "wait" /\ full = 0
  /\ UNCHANGED vars

Next ==
  \/ Boot \/ Receive \/ Consume
  \/ \E d \in Datagrams : Arrive(d)
  \/ Stopped

\* Threads are scheduled fairly and locks are granted.  Each semaphore has one
\* waiter, the second initialisation is over before it exists.  Nothing is
\* promised about arrivals.
Fairness == WF_vars(Boot) /\ WF_vars(Receive) /\ WF_vars(Consume)

SafeSpec == Init /\ [][Next]_vars

Spec == SafeSpec /\ Fairness

-----------------------------------------------------------------------------
(* Properties *)

\* The variables have their types.
TypeOK ==
  /\ main \in {"ctor", "bind", "init", "setListening", "createReceiver", "createConsumer",
               "chat"}
  /\ bound \in BOOLEAN /\ isListening \in BOOLEAN /\ running \in BOOLEAN
  /\ peer \in {"set", "unset"}
  /\ socket \in Seq(Datagrams) /\ arrivals \in 0 .. MaxArrivals
  /\ receiver \in {"off", "check", "receive", "wait", "lock", "push", "unlock", "post",
                   "ended"}
  /\ packet \in Datagrams \cup {Nothing}
  /\ queue \in Seq(Contents)
  /\ mutex \in {Free, Receiver, Consumer}
  /\ full \in 0 .. Capacity /\ empty \in 0 .. Capacity
  /\ consumer \in {"off", "wait", "lock", "take", "unlock", "post", "print"}
  /\ message \in Contents \cup {Nothing}
  /\ accepted \in Seq(Datagrams) /\ printed \in Seq(Contents)

\* The queue is touched by one thread at a time, and the consumer never calls
\* front or pop on an empty queue.
QueueSafe ==
  /\ ~(receiver \in {"push", "unlock"} /\ consumer \in {"take", "unlock"})
  /\ consumer = "take" => queue # << >>

One(b) == IF b THEN 1 ELSE 0

\* The semaphores and the threads on their way between them account for every
\* message in the queue and for every free place.
PermitsAccounted ==
  main # "ctor" =>
    /\ Len(queue) = full + One(receiver \in {"unlock", "post"})
                         + One(consumer \in {"lock", "take"})
    /\ Len(queue) + empty + One(receiver \in {"lock", "push"})
                          + One(consumer \in {"unlock", "post"}) = Capacity

\* Messages on the way from the receiver to the screen, outside the queue.
InReceiver == One(receiver \in {"wait", "lock", "push"})
InConsumer == One(consumer \in {"unlock", "post", "print"})

\* What is printed is what the checksum let through: every packet once, in the
\* order of the socket, none that decode marked as corrupted.
InOrder ==
  /\ Len(accepted) = Len(printed) + InConsumer + Len(queue) + InReceiver
  /\ \A k \in 1 .. Len(printed) : printed[k] = accepted[k].content
  /\ \A k \in 1 .. Len(accepted) : ~accepted[k].isCorrupted

\* The receiver thread does not end: it is created after isListening is set, and
\* nothing resets it.
ReceiverStaysUp == receiver # "ended"

\* A full queue stops the receiver only until the consumer has taken a message:
\* it always comes back to recvfrom, unless the process exits.
ReceiverReturns ==
  receiver \in {"wait", "lock", "push", "unlock", "post"} ~> receiver = "receive" \/ ~running

\* The path from the checksum to the screen is a pipe: bounded by the queue and
\* the two messages the threads hold, first in first out, loss free, and drained
\* as long as the process runs.
Pipe == INSTANCE PacketPipe WITH
  Items <- Contents, Capacity <- Capacity + 2, left <- printed, running <- running,
  entered <- [k \in 1 .. Len(accepted) |-> accepted[k].content]

PipeSafe == Pipe!SafeSpec
PipeSpec == Pipe!Spec
=============================================================================
