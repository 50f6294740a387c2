------------------------- MODULE LdpReceivePathProofs -------------------------
(***************************************************************************)
(* The safety of the receiving half of an endpoint, for every capacity of  *)
(* the queue, every size of the socket and every number of datagrams.      *)
(***************************************************************************)
EXTENDS LdpReceivePath, SequenceTheorems, TLAPS

(* The inductive invariant: the type invariant and five parts. *)

\* The mutex is held by the thread that is between lock and unlock.
MutexInv ==
  /\ mutex = Receiver <=> receiver \in {"push", "unlock"}
  /\ mutex = Consumer <=> consumer \in {"take", "unlock"}

\* Until both threads exist nothing is in use, and isListening is set before the
\* receiver is created.
BootInv ==
  /\ main = "ctor" => queue = << >> /\ full = 0
  /\ main \in {"bind", "init", "setListening", "createReceiver"} =>
       queue = << >> /\ full = 0 /\ empty = Capacity
  /\ main \in {"ctor", "bind", "init", "setListening", "createReceiver"} <=> receiver = "off"
  /\ main # "chat" <=> consumer = "off"
  /\ main \in {"createReceiver", "createConsumer", "chat"} => isListening

\* A thread that has something in its local variable has set it.
LocalInv ==
  /\ receiver \in {"wait", "lock", "push"} => packet \in Datagrams
  /\ consumer \in {"unlock", "post", "print"} => message \in Contents

SafetyInv ==
  TypeOK /\ MutexInv /\ BootInv /\ LocalInv /\ PermitsAccounted /\ ReceiverStaysUp

\* The message the consumer holds, those in the queue and the one the receiver holds
\* are, in this order, those that were accepted and are not printed.
FifoInv ==
  /\ InOrder
  /\ InConsumer = 1 => message = accepted[Len(printed) + 1].content
  /\ \A k \in 1 .. Len(queue) : queue[k] = accepted[Len(printed) + InConsumer + k].content
  /\ InReceiver = 1 => packet.content = accepted[Len(accepted)].content

IInv == SafetyInv /\ FifoInv

-----------------------------------------------------------------------------
(* What the accounts say where a thread is about to use them. *)

\* A consumer that has taken a permit finds a message.
LEMMA NotEmpty ==
  ASSUME SafetyInv, consumer \in {"lock", "take"}
  PROVE  queue # << >>
<1>1. main # "ctor"
  BY DEF SafetyInv, BootInv
<1>2. Len(queue) = full + One(receiver \in {"unlock", "post"}) + 1
  BY <1>1 DEF SafetyInv, PermitsAccounted, One
<1>3. full \in Nat /\ One(receiver \in {"unlock", "post"}) \in {0, 1}
  BY LdpReceivePathAssumption DEF SafetyInv, TypeOK, One
<1> QED
  BY <1>2, <1>3

\* There is room for every permit that is given back, and the queue is bounded.
LEMMA HasRoom ==
  ASSUME SafetyInv
  PROVE  /\ receiver = "post" => full < Capacity
         /\ consumer = "post" => empty < Capacity
         /\ main # "ctor" => Len(queue) <= Capacity
<1> USE LdpReceivePathAssumption DEF SafetyInv
<1>1. CASE main = "ctor"
  BY <1>1 DEF BootInv
<1>2. CASE main # "ctor"
  <2>1. full \in Nat /\ empty \in Nat /\ Len(queue) \in Nat
    BY DEF TypeOK
  <2>2. /\ One(receiver \in {"unlock", "post"}) \in {0, 1} /\ One(consumer \in {"lock", "take"}) \in {0, 1}
        /\ One(receiver \in {"lock", "push"}) \in {0, 1} /\ One(consumer \in {"unlock", "post"}) \in {0, 1}
    BY DEF One
  <2>3. /\ receiver = "post" => One(receiver \in {"unlock", "post"}) = 1
        /\ consumer = "post" => One(consumer \in {"unlock", "post"}) = 1
    BY DEF One
  <2> QED
    BY <1>2, <2>1, <2>2, <2>3 DEF PermitsAccounted
<1> QED
  BY <1>1, <1>2

-----------------------------------------------------------------------------
\* The invariant holds before the constructor runs.
LEMMA InitSafety == Init => SafetyInv
<1> SUFFICES ASSUME Init PROVE SafetyInv
  OBVIOUS
<1>1. TypeOK
  <2>1. << >> \in Seq(Datagrams) /\ << >> \in Seq(Contents)
    OBVIOUS
  <2>2. 0 \in 0 .. MaxArrivals /\ 0 \in 0 .. Capacity
    BY LdpReceivePathAssumption
  <2> QED
    BY <2>1, <2>2 DEF Init, TypeOK, Free
<1> QED
  BY <1>1 DEF Init, SafetyInv, MutexInv, BootInv, LocalInv, PermitsAccounted, ReceiverStaysUp,
     Free, Receiver, Consumer

\* Every step of every thread preserves the invariant.
LEMMA StepSafety == SafetyInv /\ [Next]_vars => SafetyInv'
<1> SUFFICES ASSUME SafetyInv, [Next]_vars PROVE SafetyInv'
  OBVIOUS
<1> USE LdpReceivePathAssumption DEF SafetyInv, bootVars, socketVars, queueVars,
        receiverVars, consumerVars, Free, Receiver, Consumer, ReceiverGoto, ConsumerGoto
<1>1. CASE Ctor \/ Bind \/ Reinit \/ SetIsListening \/ CreateReceiver \/ CreateConsumer
  <2>1. CASE Ctor
    BY <2>1 DEF Ctor,
       TypeOK, MutexInv, BootInv, LocalInv, PermitsAccounted, ReceiverStaysUp, One
  <2>2. CASE Bind
    BY <2>2 DEF Bind,
       TypeOK, MutexInv, BootInv, LocalInv, PermitsAccounted, ReceiverStaysUp, One
  <2>3. CASE Reinit
    BY <2>3 DEF Reinit,
       TypeOK, MutexInv, BootInv, LocalInv, PermitsAccounted, ReceiverStaysUp, One
  <2>4. CASE SetIsListening
    BY <2>4 DEF SetIsListening,
       TypeOK, MutexInv, BootInv, LocalInv, PermitsAccounted, ReceiverStaysUp, One
  <2>5. CASE CreateReceiver
    BY <2>5 DEF CreateReceiver,
       TypeOK, MutexInv, BootInv, LocalInv, PermitsAccounted, ReceiverStaysUp, One
  <2>6. CASE CreateConsumer
    BY <2>6 DEF CreateConsumer,
       TypeOK, MutexInv, BootInv, LocalInv, PermitsAccounted, ReceiverStaysUp, One
  <2> QED
    BY <1>1, <2>1, <2>2, <2>3, <2>4, <2>5, <2>6
<1>2. ASSUME NEW d \in Datagrams, Arrive(d) PROVE SafetyInv'
  <2>1. socket' \in Seq(Datagrams)
    BY <1>2 DEF Arrive, TypeOK
  <2> QED
    BY <1>2, <2>1 DEF Arrive, TypeOK, MutexInv, BootInv, LocalInv, PermitsAccounted,
       ReceiverStaysUp, One
<1>3. CASE CheckListening
  BY <1>3 DEF CheckListening,
     TypeOK, MutexInv, BootInv, LocalInv, PermitsAccounted, ReceiverStaysUp, One
<1>4. CASE UdpReceive
  <2>1. Head(socket) \in Datagrams /\ Tail(socket) \in Seq(Datagrams)
    BY <1>4 DEF UdpReceive, TypeOK
  <2>2. accepted' \in Seq(Datagrams)
    BY <1>4, <2>1 DEF UdpReceive, TypeOK
  <2> QED
    BY <1>4, <2>1, <2>2 DEF UdpReceive, TypeOK, MutexInv, BootInv, LocalInv, PermitsAccounted,
       ReceiverStaysUp, One
<1>5. CASE UdpReceiveFails
  BY <1>5 DEF UdpReceiveFails,
     TypeOK, MutexInv, BootInv, LocalInv, PermitsAccounted, ReceiverStaysUp, One
<1>6. CASE ReceiverWait
  <2>1. empty \in Nat /\ full \in Nat /\ empty' \in 0 .. Capacity
    BY <1>6 DEF ReceiverWait, TypeOK
  <2>7. TypeOK'
    BY <1>6, <2>1 DEF ReceiverWait, TypeOK
  <2>8. MutexInv' /\ BootInv' /\ LocalInv' /\ ReceiverStaysUp'
    BY <1>6, <2>1 DEF ReceiverWait, TypeOK, MutexInv, BootInv, LocalInv, ReceiverStaysUp
  <2>9. PermitsAccounted'
    <3> DEFINE a == One(consumer \in {"lock", "take"})
               b == One(consumer \in {"unlock", "post"})
    <3>1. a \in {0, 1} /\ b \in {0, 1} /\ a' = a /\ b' = b
      BY <1>6 DEF ReceiverWait, One
    <3>2. main # "ctor" /\ receiver = "wait" /\ receiver' = "lock"
          /\ queue' = queue /\ full' = full /\ empty' = empty - 1
      BY <1>6 DEF ReceiverWait, BootInv
    <3>3. Len(queue) = full + 0 + a /\ Len(queue) + empty + 0 + b = Capacity
      BY <3>2 DEF PermitsAccounted, One
    <3>4. Len(queue') = full' + 0 + a' /\ Len(queue') + empty' + 1 + b' = Capacity
      <4> HIDE DEF a, b
      <4> QED BY <2>1, <3>1, <3>2, <3>3 DEF TypeOK
    <3> QED
      BY <3>2, <3>4 DEF PermitsAccounted, One
  <2> QED
    BY <2>7, <2>8, <2>9
<1>7. CASE ReceiverLock
  BY <1>7 DEF ReceiverLock,
     TypeOK, MutexInv, BootInv, LocalInv, PermitsAccounted, ReceiverStaysUp, One
<1>8. CASE ReceiverPush
  <2>1. packet.content \in Contents
    BY <1>8 DEF ReceiverPush, LocalInv, Datagrams
  <2>2. queue' \in Seq(Contents) /\ Len(queue') = Len(queue) + 1
    BY <1>8, <2>1 DEF ReceiverPush, TypeOK
  <2> QED
    BY <1>8, <2>2 DEF ReceiverPush,
       TypeOK, MutexInv, BootInv, LocalInv, PermitsAccounted, ReceiverStaysUp, One
<1>9. CASE ReceiverUnlock
  BY <1>9 DEF ReceiverUnlock,
     TypeOK, MutexInv, BootInv, LocalInv, PermitsAccounted, ReceiverStaysUp, One
<1>10. CASE ReceiverPost
  BY <1>10, HasRoom DEF ReceiverPost,
     TypeOK, MutexInv, BootInv, LocalInv, PermitsAccounted, ReceiverStaysUp, One
<1>11. CASE ConsumerWait
  BY <1>11 DEF ConsumerWait,
     TypeOK, MutexInv, BootInv, LocalInv, PermitsAccounted, ReceiverStaysUp, One
<1>12. CASE ConsumerLock
  BY <1>12 DEF ConsumerLock,
     TypeOK, MutexInv, BootInv, LocalInv, PermitsAccounted, ReceiverStaysUp, One
<1>13. CASE ConsumerTake
  <2>2. queue # << >> /\ queue \in Seq(Contents)
    BY <1>13, NotEmpty DEF ConsumerTake, TypeOK
  <2>1. Head(queue) \in Contents /\ queue' \in Seq(Contents) /\ Len(queue') = Len(queue) - 1
    BY <1>13, <2>2 DEF ConsumerTake
  <2>7. TypeOK'
    BY <1>13, <2>1 DEF ConsumerTake, TypeOK
  <2>8. MutexInv' /\ BootInv' /\ LocalInv' /\ ReceiverStaysUp'
    BY <1>13, <2>1 DEF ConsumerTake, TypeOK, MutexInv, BootInv, LocalInv, ReceiverStaysUp
  <2>9. PermitsAccounted'
    <3> DEFINE a == One(receiver \in {"unlock", "post"})
               b == One(receiver \in {"lock", "push"})
    <3>1. a \in {0, 1} /\ b \in {0, 1} /\ a' = a /\ b' = b
      BY <1>13 DEF ConsumerTake, One
    <3>2. main # "ctor" /\ consumer = "take" /\ consumer' = "unlock"
          /\ full' = full /\ empty' = empty
      BY <1>13 DEF ConsumerTake, BootInv
    <3>3. Len(queue) = full + a + 1 /\ Len(queue) + empty + b + 0 = Capacity
      BY <3>2 DEF PermitsAccounted, One
    <3>4. Len(queue') = full' + a' + 0 /\ Len(queue') + empty' + b' + 1 = Capacity
      <4> HIDE DEF a, b
      <4> QED BY <2>1, <2>2, <3>1, <3>2, <3>3 DEF TypeOK
    <3> QED
      BY <3>2, <3>4 DEF PermitsAccounted, One
  <2> QED
    BY <2>7, <2>8, <2>9
<1>14. CASE ConsumerUnlock
  BY <1>14 DEF ConsumerUnlock,
     TypeOK, MutexInv, BootInv, LocalInv, PermitsAccounted, ReceiverStaysUp, One
<1>15. CASE ConsumerPost
  BY <1>15, HasRoom DEF ConsumerPost,
     TypeOK, MutexInv, BootInv, LocalInv, PermitsAccounted, ReceiverStaysUp, One
<1>16. CASE OnMessage
  <2>1. printed' \in Seq(Contents)
    BY <1>16 DEF OnMessage, TypeOK, LocalInv
  <2> QED
    BY <1>16, <2>1 DEF OnMessage,
       TypeOK, MutexInv, BootInv, LocalInv, PermitsAccounted, ReceiverStaysUp, One
<1>17. CASE UNCHANGED vars
  BY <1>17 DEF vars, TypeOK, MutexInv, BootInv, LocalInv, PermitsAccounted, ReceiverStaysUp, One
<1> QED
  BY <1>1, <1>2, <1>3, <1>4, <1>5, <1>6, <1>7, <1>8, <1>9, <1>10, <1>11, <1>12, <1>13, <1>14,
     <1>15, <1>16, <1>17 DEF Next, Boot, Receive, Consume, Stopped

-----------------------------------------------------------------------------
(* Order. *)

\* Before anything has arrived.
LEMMA InitFifo == Init => FifoInv
BY DEF Init, FifoInv, InOrder, InConsumer, InReceiver, One

\* The sequences the invariant relates.
LEMMA Histories ==
  ASSUME TypeOK
  PROVE  /\ accepted \in Seq(Datagrams) /\ printed \in Seq(Contents) /\ queue \in Seq(Contents)
         /\ InConsumer \in {0, 1} /\ InReceiver \in {0, 1}
BY DEF TypeOK, InConsumer, InReceiver, One

\* A packet whose checksum is right is the newest.
LEMMA ReceiveFifo ==
  ASSUME TypeOK, TypeOK', FifoInv, UdpReceive
  PROVE  FifoInv'
<1> DEFINE d == Head(socket)
<1>1. UNCHANGED << printed, queue, message, consumer >> /\ packet' = d /\ receiver = "receive"
  BY DEF UdpReceive, ReceiverGoto, queueVars, consumerVars
<1>2. InConsumer' = InConsumer /\ InReceiver = 0
  BY <1>1 DEF InConsumer, InReceiver, One
<1>3. CASE d.isCorrupted
  <2>1. accepted' = accepted /\ InReceiver' = 0
    BY <1>3 DEF UdpReceive, ReceiverGoto, InReceiver, One
  <2> QED
    BY <1>1, <1>2, <2>1 DEF FifoInv, InOrder
<1>4. CASE ~ d.isCorrupted
  <2>1. accepted' = Append(accepted, d) /\ InReceiver' = 1
    BY <1>4 DEF UdpReceive, ReceiverGoto, InReceiver, One
  <2> HIDE DEF d
  <2>2. /\ accepted \in Seq(Datagrams) /\ accepted' \in Seq(Datagrams)
        /\ printed \in Seq(Contents) /\ queue \in Seq(Contents) /\ InConsumer \in {0, 1}
    BY Histories DEF TypeOK
  <2>3. Len(accepted') = Len(accepted) + 1 /\ accepted'[Len(accepted) + 1] = d
        /\ \A k \in 1 .. Len(accepted) : accepted'[k] = accepted[k]
    BY <2>1, <2>2
  <2>4. Len(accepted) = Len(printed) + InConsumer + Len(queue)
    BY <1>2, <2>2 DEF FifoInv, InOrder
  <2>5. Len(accepted') = Len(printed') + InConsumer' + Len(queue') + InReceiver'
    BY <1>1, <1>2, <2>1, <2>2, <2>3, <2>4
  <2>6. \A k \in 1 .. Len(printed') : printed'[k] = accepted'[k].content
    <3> SUFFICES ASSUME NEW k \in 1 .. Len(printed) PROVE printed[k] = accepted'[k].content
      BY <1>1
    <3>1. k \in 1 .. Len(accepted)
      BY <2>2, <2>4
    <3> QED
      BY <2>3, <3>1 DEF FifoInv, InOrder
  <2>7. \A k \in 1 .. Len(accepted') : ~ accepted'[k].isCorrupted
    <3> SUFFICES ASSUME NEW k \in 1 .. Len(accepted) + 1 PROVE ~ accepted'[k].isCorrupted
      BY <2>3
    <3>1. CASE k \in 1 .. Len(accepted)
      BY <2>3, <3>1 DEF FifoInv, InOrder
    <3>2. CASE k = Len(accepted) + 1
      BY <1>4, <2>3, <3>2
    <3> QED
      BY <2>2, <3>1, <3>2
  <2>8. InConsumer' = 1 => message' = accepted'[Len(printed') + 1].content
    <3> SUFFICES ASSUME InConsumer = 1 PROVE message = accepted'[Len(printed) + 1].content
      BY <1>1, <1>2
    <3>1. Len(printed) + 1 \in 1 .. Len(accepted)
      BY <2>2, <2>4
    <3> QED
      BY <2>3, <3>1 DEF FifoInv
  <2>9. \A k \in 1 .. Len(queue') : queue'[k] = accepted'[Len(printed') + InConsumer' + k].content
    <3> SUFFICES ASSUME NEW k \in 1 .. Len(queue)
                 PROVE  queue[k] = accepted'[Len(printed) + InConsumer + k].content
      BY <1>1, <1>2
    <3>1. Len(printed) + InConsumer + k \in 1 .. Len(accepted)
      BY <2>2, <2>4
    <3> QED
      BY <2>3, <3>1 DEF FifoInv
  <2>10. packet'.content = accepted'[Len(accepted')].content
    BY <1>1, <2>3
  <2> QED
    BY <2>5, <2>6, <2>7, <2>8, <2>9, <2>10 DEF FifoInv, InOrder
<1> QED
  BY <1>3, <1>4

\* The receiver puts its packet behind the others in the queue.
LEMMA PushFifo ==
  ASSUME TypeOK, TypeOK', LocalInv, FifoInv, ReceiverPush
  PROVE  FifoInv'
<1> DEFINE x == packet.content
<1>1. UNCHANGED << printed, accepted, message, consumer >> /\ receiver = "push"
      /\ receiver' = "unlock" /\ queue' = Append(queue, x)
  BY DEF ReceiverPush, ReceiverGoto, consumerVars
<1>2. InConsumer' = InConsumer /\ InReceiver = 1 /\ InReceiver' = 0
  BY <1>1 DEF InConsumer, InReceiver, One
<1>3. x = accepted[Len(accepted)].content
  BY <1>2 DEF FifoInv
<1> HIDE DEF x
<1>4. /\ accepted \in Seq(Datagrams) /\ queue' \in Seq(Contents)
      /\ printed \in Seq(Contents) /\ queue \in Seq(Contents) /\ InConsumer \in {0, 1}
  BY Histories DEF TypeOK
<1>5. Len(queue') = Len(queue) + 1 /\ queue'[Len(queue) + 1] = x
      /\ \A k \in 1 .. Len(queue) : queue'[k] = queue[k]
  BY <1>1, <1>4
<1>6. Len(accepted) = Len(printed) + InConsumer + Len(queue) + 1
  BY <1>2 DEF FifoInv, InOrder
<1>7. \A k \in 1 .. Len(queue') : queue'[k] = accepted'[Len(printed') + InConsumer' + k].content
  <2> SUFFICES ASSUME NEW k \in 1 .. Len(queue) + 1
               PROVE  queue'[k] = accepted[Len(printed) + InConsumer + k].content
    BY <1>1, <1>2, <1>5
  <2>1. CASE k \in 1 .. Len(queue)
    BY <1>5, <2>1 DEF FifoInv
  <2>2. CASE k = Len(queue) + 1
    <3>1. Len(printed) + InConsumer + k = Len(accepted)
      BY <1>4, <1>6, <2>2
    <3> QED
      BY <1>3, <1>5, <2>2, <3>1
  <2> QED
    BY <1>4, <2>1, <2>2
<1>8. Len(accepted') = Len(printed') + InConsumer' + Len(queue') + InReceiver'
  BY <1>1, <1>2, <1>4, <1>5, <1>6
<1> QED
  BY <1>1, <1>2, <1>7, <1>8 DEF FifoInv, InOrder

\* The consumer takes the oldest message of the queue.
LEMMA TakeFifo ==
  ASSUME TypeOK, TypeOK', FifoInv, queue # << >>, ConsumerTake
  PROVE  FifoInv'
<1>1. UNCHANGED << printed, accepted, packet, receiver >> /\ consumer = "take"
      /\ consumer' = "unlock" /\ message' = Head(queue) /\ queue' = Tail(queue)
  BY DEF ConsumerTake, ConsumerGoto, receiverVars
<1>2. InReceiver' = InReceiver /\ InConsumer = 0 /\ InConsumer' = 1
  BY <1>1 DEF InConsumer, InReceiver, One
<1>3. /\ accepted \in Seq(Datagrams) /\ printed \in Seq(Contents)
      /\ queue \in Seq(Contents) /\ queue' \in Seq(Contents) /\ InReceiver \in {0, 1}
  BY Histories DEF TypeOK
<1>4. Len(queue') = Len(queue) - 1 /\ Len(queue) \in Nat \ {0} /\ message' = queue[1]
      /\ \A k \in 1 .. Len(queue) - 1 : queue'[k] = queue[k + 1]
  BY <1>1, <1>3
<1>5. Len(accepted) = Len(printed) + Len(queue) + InReceiver
  BY <1>2, <1>3 DEF FifoInv, InOrder
<1>6. \A k \in 1 .. Len(queue) : queue[k] = accepted[Len(printed) + k].content
  BY <1>2, <1>3 DEF FifoInv
<1>7. message' = accepted'[Len(printed') + 1].content
  BY <1>1, <1>4, <1>6
<1>8. \A k \in 1 .. Len(queue') : queue'[k] = accepted'[Len(printed') + InConsumer' + k].content
  <2> SUFFICES ASSUME NEW k \in 1 .. Len(queue) - 1
               PROVE  queue'[k] = accepted[Len(printed) + 1 + k].content
    BY <1>1, <1>2, <1>4
  <2>1. k + 1 \in 1 .. Len(queue) /\ Len(printed) + (k + 1) = Len(printed) + 1 + k
    BY <1>3, <1>4
  <2>2. queue[k + 1] = accepted[Len(printed) + (k + 1)].content
    BY <1>6, <2>1
  <2> QED
    BY <1>4, <2>1, <2>2
<1>9. Len(accepted') = Len(printed') + InConsumer' + Len(queue') + InReceiver'
  BY <1>1, <1>2, <1>3, <1>4, <1>5
<1> QED
  BY <1>1, <1>2, <1>7, <1>8, <1>9 DEF FifoInv, InOrder

\* What is printed is what the consumer took.
LEMMA PrintFifo ==
  ASSUME TypeOK, TypeOK', FifoInv, OnMessage
  PROVE  FifoInv'
<1>1. UNCHANGED << queue, accepted, packet, receiver, message >> /\ consumer = "print"
      /\ consumer' = "wait" /\ printed' = Append(printed, message)
  BY DEF OnMessage, ConsumerGoto, receiverVars, queueVars
<1>2. InReceiver' = InReceiver /\ InConsumer = 1 /\ InConsumer' = 0
  BY <1>1 DEF InConsumer, InReceiver, One
<1>3. /\ accepted \in Seq(Datagrams) /\ printed \in Seq(Contents) /\ printed' \in Seq(Contents)
      /\ queue \in Seq(Contents) /\ InReceiver \in {0, 1}
  BY Histories DEF TypeOK
<1>4. Len(printed') = Len(printed) + 1 /\ printed'[Len(printed) + 1] = message
      /\ \A k \in 1 .. Len(printed) : printed'[k] = printed[k]
  BY <1>1, <1>3
<1>5. message = accepted[Len(printed) + 1].content
  BY <1>2 DEF FifoInv
<1>6. \A k \in 1 .. Len(printed') : printed'[k] = accepted'[k].content
  <2> SUFFICES ASSUME NEW k \in 1 .. Len(printed) + 1 PROVE printed'[k] = accepted[k].content
    BY <1>1, <1>4
  <2>1. CASE k \in 1 .. Len(printed)
    BY <1>4, <2>1 DEF FifoInv, InOrder
  <2>2. CASE k = Len(printed) + 1
    BY <1>4, <1>5, <2>2
  <2> QED
    BY <1>3, <2>1, <2>2
<1>7. \A k \in 1 .. Len(queue') : queue'[k] = accepted'[Len(printed') + InConsumer' + k].content
  <2> SUFFICES ASSUME NEW k \in 1 .. Len(queue)
               PROVE  queue[k] = accepted[Len(printed) + 1 + 0 + k].content
    BY <1>1, <1>2, <1>4
  <2>1. queue[k] = accepted[Len(printed) + 1 + k].content
    BY <1>2 DEF FifoInv
  <2> QED
    BY <1>3, <2>1
<1>8. Len(accepted') = Len(printed') + InConsumer' + Len(queue') + InReceiver'
  <2>1. Len(accepted) = Len(printed) + 1 + Len(queue) + InReceiver
    BY <1>2 DEF FifoInv, InOrder
  <2> QED
    BY <1>1, <1>2, <1>3, <1>4, <2>1
<1> QED
  BY <1>1, <1>2, <1>6, <1>7, <1>8 DEF FifoInv, InOrder

\* Every other step leaves alone what the invariant is about.
LEMMA QuietFifo ==
  ASSUME FifoInv, UNCHANGED << queue, accepted, printed, packet, message >>,
         InConsumer' = InConsumer, InReceiver' = InReceiver
  PROVE  FifoInv'
BY DEF FifoInv, InOrder

\* Every step preserves the order of the packets.
LEMMA StepFifo ==
  ASSUME SafetyInv, SafetyInv', FifoInv, [Next]_vars
  PROVE  FifoInv'
<1> USE DEF SafetyInv, bootVars, socketVars, queueVars, receiverVars, consumerVars,
        ReceiverGoto, ConsumerGoto
<1>1. CASE UdpReceive
  BY <1>1, ReceiveFifo
<1>2. CASE ReceiverPush
  BY <1>2, PushFifo
<1>3. CASE ConsumerTake
  BY <1>3, TakeFifo, NotEmpty DEF ConsumerTake
<1>4. CASE OnMessage
  BY <1>4, PrintFifo
<1>5. CASE Boot
  <2>1. CASE CreateReceiver
    <3>1. /\ receiver = "off" /\ receiver' = "check" /\ consumer' = consumer
          /\ UNCHANGED << queue, accepted, printed, packet, message >>
      BY <2>1 DEF CreateReceiver, BootInv
    <3>2. InConsumer' = InConsumer /\ InReceiver' = InReceiver
      BY <3>1 DEF InConsumer, InReceiver, One
    <3> QED
      BY <3>1, <3>2, QuietFifo
  <2>2. CASE CreateConsumer
    <3>1. /\ consumer = "off" /\ consumer' = "wait" /\ receiver' = receiver
          /\ UNCHANGED << queue, accepted, printed, packet, message >>
      BY <2>2 DEF CreateConsumer, BootInv
    <3>2. InConsumer' = InConsumer /\ InReceiver' = InReceiver
      BY <3>1 DEF InConsumer, InReceiver, One
    <3> QED
      BY <3>1, <3>2, QuietFifo
  <2>3. CASE Ctor \/ Bind \/ Reinit \/ SetIsListening
    BY <2>3, QuietFifo DEF Ctor, Bind, Reinit, SetIsListening, InConsumer, InReceiver
  <2> QED
    BY <1>5, <2>1, <2>2, <2>3 DEF Boot
<1>6. CASE CheckListening \/ UdpReceiveFails \/ ReceiverWait \/ ReceiverLock
           \/ ReceiverUnlock \/ ReceiverPost
  BY <1>6, QuietFifo DEF CheckListening, UdpReceiveFails, ReceiverWait, ReceiverLock,
     ReceiverUnlock, ReceiverPost, InConsumer, InReceiver
<1>7. CASE ConsumerWait \/ ConsumerLock \/ ConsumerUnlock \/ ConsumerPost
  BY <1>7, QuietFifo DEF ConsumerWait, ConsumerLock, ConsumerUnlock, ConsumerPost,
     InConsumer, InReceiver
<1>8. CASE UNCHANGED vars \/ \E d \in Datagrams : Arrive(d)
  BY <1>8, QuietFifo DEF vars, Arrive, InConsumer, InReceiver
<1> QED
  BY <1>1, <1>2, <1>3, <1>4, <1>5, <1>6, <1>7, <1>8 DEF Next, Receive, Consume, Stopped

\* The inductive invariant holds for ever.
LEMMA InvAlways == SafeSpec => []IInv
<1>1. Init => IInv
  BY InitSafety, InitFifo DEF IInv
<1>2. IInv /\ [Next]_vars => IInv'
  BY StepSafety, StepFifo DEF IInv
<1> QED
  BY <1>1, <1>2, PTL DEF SafeSpec

-----------------------------------------------------------------------------
(* The theorems *)

\* The variables have their types in every reachable state; the semaphores stay between
\* 0 and the capacity of the queue.
THEOREM TypeCorrect == Spec => []TypeOK
<1>1. IInv => TypeOK
  BY DEF IInv, SafetyInv
<1> QED
  BY <1>1, InvAlways, PTL DEF Spec

\* The queue is never touched by both threads, and never read when it is empty.
THEOREM QueueIsSafe == Spec => []QueueSafe
<1>1. IInv => QueueSafe
  BY NotEmpty DEF IInv, SafetyInv, MutexInv, QueueSafe, Receiver, Consumer
<1> QED
  BY <1>1, InvAlways, PTL DEF Spec

\* No permit of the two semaphores is lost or made up.
THEOREM PermitsAreAccounted == Spec => []PermitsAccounted
<1>1. IInv => PermitsAccounted
  BY DEF IInv, SafetyInv
<1> QED
  BY <1>1, InvAlways, PTL DEF Spec

\* What the checksum lets through is printed in order, each packet once, and nothing
\* else is.
THEOREM PrintedInOrder == Spec => []InOrder
<1>1. IInv => InOrder
  BY DEF IInv, FifoInv
<1> QED
  BY <1>1, InvAlways, PTL DEF Spec

\* The receiver thread never ends.
THEOREM ReceiverIsUp == Spec => []ReceiverStaysUp
<1>1. IInv => ReceiverStaysUp
  BY DEF IInv, SafetyInv
<1> QED
  BY <1>1, InvAlways, PTL DEF Spec
-----------------------------------------------------------------------------
(* The path is a pipe. *)

\* What entered the pipe, as a sequence of payloads.
Entered == [k \in 1 .. Len(accepted) |-> accepted[k].content]

\* What has entered the queue are the contents of what was accepted, one for one.
LEMMA EnteredFacts ==
  ASSUME accepted \in Seq(Datagrams)
  PROVE  Entered \in Seq(Contents) /\ Len(Entered) = Len(accepted)
<1>1. \A k \in 1 .. Len(accepted) : accepted[k] \in Datagrams
  BY ElementOfSeq
<1>2. \A k \in 1 .. Len(accepted) : accepted[k].content \in Contents
  BY <1>1 DEF Datagrams
<1>3. Len(accepted) \in Nat
  OBVIOUS
<1> QED
  BY <1>2, <1>3 DEF Entered

\* The pipe starts empty.
LEMMA InitPipe == Init => Pipe!Init
<1> SUFFICES ASSUME Init PROVE Pipe!Init
  OBVIOUS
<1>1. accepted = << >> /\ printed = << >> /\ running = TRUE
  BY DEF Init
<1>2. Entered = << >>
  BY <1>1 DEF Entered
<1> QED
  BY <1>1, <1>2 DEF Pipe!Init, Entered

\* The receiver that is back at recvfrom holds nothing: there is room in the queue and
\* the two threads for one more.
LEMMA ReceivePuts ==
  ASSUME IInv, IInv', running, UdpReceive, ~Head(socket).isCorrupted
  PROVE  Head(socket).content \in Contents /\ Pipe!Put(Head(socket).content)
<1> DEFINE x == Head(socket).content
<1>1. /\ accepted \in Seq(Datagrams) /\ accepted' \in Seq(Datagrams)
      /\ queue \in Seq(Contents) /\ printed \in Seq(Contents)
      /\ socket \in Seq(Datagrams) /\ socket # << >>
  BY DEF IInv, SafetyInv, TypeOK, UdpReceive
<1>2. /\ accepted' = Append(accepted, Head(socket)) /\ UNCHANGED << printed, running >>
      /\ receiver = "receive"
  BY DEF UdpReceive, ReceiverGoto
<1>3. Head(socket) \in Datagrams
  BY <1>1
<1>4. x \in Contents
  BY <1>3 DEF Datagrams
<1>5. Len(accepted) - Len(printed) < Capacity + 2
  <2>1. InReceiver = 0 /\ InConsumer \in {0, 1}
    BY <1>2 DEF InReceiver, InConsumer, One
  <2>2. Len(queue) <= Capacity
    <3>1. main # "ctor"
      BY <1>2 DEF IInv, SafetyInv, BootInv
    <3> QED
      BY <3>1, HasRoom DEF IInv
  <2>3. Len(accepted) = Len(printed) + InConsumer + Len(queue)
    BY <1>1, <2>1 DEF IInv, FifoInv, InOrder
  <2> HIDE DEF x
  <2> QED
    BY <1>1, <2>1, <2>2, <2>3, LdpReceivePathAssumption
<1>6. Entered \in Seq(Contents) /\ Len(Entered) = Len(accepted)
  BY <1>1, EnteredFacts
<1>7. /\ Len(accepted') = Len(accepted) + 1 /\ accepted'[Len(accepted) + 1] = Head(socket)
      /\ \A k \in 1 .. Len(accepted) : accepted'[k] = accepted[k]
  BY <1>1, <1>2, <1>3
<1>8. Entered' = Append(Entered, x)
  <2>1. Entered' \in Seq(Contents) /\ Len(Entered') = Len(accepted')
    <3>1. \A k \in 1 .. Len(accepted') : accepted'[k] \in Datagrams
      BY <1>1, ElementOfSeq
    <3>2. \A k \in 1 .. Len(accepted') : accepted'[k].content \in Contents
      BY <3>1 DEF Datagrams
    <3> QED
      BY <1>1, <3>2 DEF Entered
  <2>2. /\ Append(Entered, x) \in Seq(Contents)
        /\ Len(Append(Entered, x)) = Len(accepted) + 1
    BY <1>4, <1>6
  <2>0. x = Head(socket).content
    OBVIOUS
  <2> HIDE DEF x
  <2>3. ASSUME NEW k \in 1 .. Len(accepted) + 1
        PROVE  Entered'[k] = Append(Entered, x)[k]
    <3>1. Entered'[k] = accepted'[k].content
      BY <1>7 DEF Entered
    <3>2. CASE k = Len(accepted) + 1
      BY <1>4, <1>6, <1>7, <2>0, <3>1, <3>2
    <3>3. CASE k \in 1 .. Len(accepted)
      <4>1. Append(Entered, x)[k] = Entered[k]
        BY <1>4, <1>6, <3>3
      <4> QED
        BY <1>7, <3>1, <3>3, <4>1 DEF Entered
    <3>4. Len(accepted) \in Nat
      BY <1>1
    <3>5. k = Len(accepted) + 1 \/ k \in 1 .. Len(accepted)
      BY <3>4
    <3> QED
      BY <3>2, <3>3, <3>5
  <2> QED
    BY <1>7, <2>1, <2>2, <2>3
<1>9. Pipe!Put(x)
  BY <1>2, <1>5, <1>6, <1>8 DEF Pipe!Put, Entered
<1> QED
  BY <1>4, <1>9

\* The message the consumer prints is the oldest one that is inside.
LEMMA PrintGets ==
  ASSUME IInv, running, OnMessage
  PROVE  Pipe!Get
<1>1. /\ UNCHANGED << accepted, running >> /\ printed' = Append(printed, message)
      /\ consumer = "print"
  BY DEF OnMessage, ConsumerGoto
<1>2. /\ accepted \in Seq(Datagrams) /\ printed \in Seq(Contents) /\ queue \in Seq(Contents)
  BY DEF IInv, SafetyInv, TypeOK
<1>3. InConsumer = 1 /\ InReceiver \in {0, 1}
  BY <1>1 DEF InConsumer, InReceiver, One
<1>4. message = accepted[Len(printed) + 1].content
  BY <1>3 DEF IInv, FifoInv
<1>5. Len(printed) < Len(accepted)
  <2>1. Len(accepted) = Len(printed) + 1 + Len(queue) + InReceiver
    BY <1>3 DEF IInv, FifoInv, InOrder
  <2> QED
    BY <1>2, <1>3, <2>1
<1>6. Len(printed) + 1 \in 1 .. Len(accepted)
  BY <1>2, <1>5
<1>7. Entered[Len(printed) + 1] = message
  BY <1>4, <1>6 DEF Entered
<1>8. Len(Entered) = Len(accepted)
  BY <1>2, EnteredFacts
<1>9. Entered' = Entered
  BY <1>1 DEF Entered
<1> QED
  BY <1>1, <1>5, <1>7, <1>8, <1>9 DEF Pipe!Get, Entered

\* A packet whose checksum is wrong, and every step that neither accepts nor prints,
\* is invisible.
LEMMA OtherSteps ==
  ASSUME [Next]_vars, ~(running /\ UdpReceive /\ ~Head(socket).isCorrupted),
         ~(running /\ OnMessage)
  PROVE  Pipe!Exit \/ UNCHANGED Pipe!pipeVars
<1> SUFFICES \/ UNCHANGED << accepted, printed, running >>
             \/ running /\ running' = FALSE /\ UNCHANGED << accepted, printed >>
  BY DEF Pipe!Exit, Pipe!pipeVars
<1>1. CASE Boot
  BY <1>1 DEF Boot, Ctor, Bind, Reinit, SetIsListening, CreateReceiver, CreateConsumer
<1>2. CASE running /\ UdpReceive
  BY <1>2 DEF UdpReceive, ReceiverGoto
<1>3. CASE running /\ UdpReceiveFails
  BY <1>3 DEF UdpReceiveFails
<1>4. CASE CheckListening \/ ReceiverWait \/ ReceiverLock \/ ReceiverPush
           \/ ReceiverUnlock \/ ReceiverPost
  BY <1>4 DEF CheckListening, ReceiverWait, ReceiverLock, ReceiverPush, ReceiverUnlock,
     ReceiverPost
<1>5. CASE ConsumerWait \/ ConsumerLock \/ ConsumerTake \/ ConsumerUnlock \/ ConsumerPost
  BY <1>5 DEF ConsumerWait, ConsumerLock, ConsumerTake, ConsumerUnlock, ConsumerPost
<1>6. CASE UNCHANGED vars \/ \E d \in Datagrams : Arrive(d)
  BY <1>6 DEF vars, Arrive
<1> QED
  BY <1>1, <1>2, <1>3, <1>4, <1>5, <1>6 DEF Next, Receive, Consume, Stopped

\* Whatever the two threads and the network do, what lies between the checksum and the
\* screen is a bounded first-in-first-out pipe.
THEOREM QueueIsAPipe == Spec => PipeSafe
<1>1. IInv /\ IInv' /\ [Next]_vars => [Pipe!Next]_(Pipe!pipeVars)
  <2> SUFFICES ASSUME IInv, IInv', [Next]_vars PROVE [Pipe!Next]_(Pipe!pipeVars)
    OBVIOUS
  <2>1. CASE running /\ UdpReceive /\ ~Head(socket).isCorrupted
    <3>1. Head(socket).content \in Contents /\ Pipe!Put(Head(socket).content)
      BY <2>1, ReceivePuts
    <3>2. PICK item \in Contents : item = Head(socket).content
      BY <3>1
    <3>3. Pipe!Put(item)
      BY <3>1, <3>2 DEF Pipe!Put
    <3> QED
      BY <3>3 DEF Pipe!Next
  <2>2. CASE running /\ OnMessage
    BY <2>2, PrintGets DEF Pipe!Next
  <2>3. CASE ~(running /\ UdpReceive /\ ~Head(socket).isCorrupted) /\ ~(running /\ OnMessage)
    BY <2>3, OtherSteps DEF Pipe!Next
  <2> QED
    BY <2>1, <2>2, <2>3
<1> QED
  BY <1>1, InitPipe, InvAlways, PTL DEF Spec, SafeSpec, PipeSafe, Pipe!SafeSpec
=============================================================================
