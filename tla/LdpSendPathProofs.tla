-------------------------- MODULE LdpSendPathProofs --------------------------
(***************************************************************************)
(* The safety of the sending half of an endpoint, for every capacity of    *)
(* the window, every set of line lengths and every number of lines.        *)
(***************************************************************************)
EXTENDS LdpSendPath, SequenceTheorems, TLAPS

(* The inductive invariant: the type invariant and four parts. *)

\* The mutex is held by the thread that is between lock and unlock.
MutexInv ==
  /\ mutex = MainThread <=> MainInside
  /\ \A s \in Senders : mutex = s <=> SenderInside(s)

\* Until both initialisations are over nothing is in use, and the one sender
\* that exists waits.
BootInv ==
  /\ main = "ctor" => /\ window = << >> /\ full = 0 /\ mutex = Free
                      /\ sender[1] = "off" /\ sender[2] = "off"
  /\ main \in {"bind", "initMutex", "initEmpty", "initFull", "create"} =>
       /\ window = << >> /\ full = 0 /\ empty = Capacity /\ mutex = Free
       /\ sender[1] = "wait" /\ sender[2] = "off"

\* The loop of LDP::send is inside the line.
LoopInv == main \in SendSteps => offset <= line.length

\* What is in the deque is what comes next of what was produced.
FifoInv ==
  /\ Len(produced) = Len(sent) + Len(window) - Popping
  /\ Popping <= Len(sent)
  /\ \A k \in 1 .. Len(sent) : sent[k].packet = produced[k]
  /\ \A k \in 1 .. Len(window) : window[k] = produced[Len(sent) - Popping + k]

SafetyInv == TypeOK /\ MutexInv /\ BootInv /\ LoopInv /\ PermitsAccounted

IInv == SafetyInv /\ FifoInv

-----------------------------------------------------------------------------
\* The invariant holds before the constructor runs.
LEMMA InitSafety == Init => SafetyInv
<1> SUFFICES ASSUME Init PROVE SafetyInv
  OBVIOUS
<1> USE LdpSendPathAssumption DEF Init, Senders, Free, MainThread, BootSteps, SendSteps
<1>1. TypeOK
  <2>1. << >> \in Seq(Packets) /\ << >> \in Seq([packet : Packets, to : {"set", "unset"}])
    OBVIOUS
  <2>2. line \in [text : 0 .. MaxReads, length : Lengths]
    OBVIOUS
  <2>3. 0 \in 0 .. MaxReads /\ 0 \in 0 .. Capacity /\ 0 \in 0 .. LongestLine + PayloadSize
    BY DEF PayloadSize, LongestLine
  <2>4. sender \in [Senders -> {"off", "wait", "lock", "send", "pop", "unlock", "post"}]
    OBVIOUS
  <2> QED
    BY <2>1, <2>2, <2>3, <2>4 DEF TypeOK
<1>2. MutexInv
  BY DEF TypeOK, MutexInv, MainInside, SenderInside, MainInside, SenderInside
<1>3. BootInv
  BY DEF TypeOK, BootInv, MainInside, SenderInside
<1>4. LoopInv
  BY DEF TypeOK, LoopInv, PayloadSize, MainInside, SenderInside
<1>5. PermitsAccounted
  BY DEF TypeOK, BootInv, PermitsAccounted, SenderOwes, SenderHolds, One, MainInside,
     SenderInside
<1> QED
  BY <1>1, <1>2, <1>3, <1>4, <1>5 DEF SafetyInv

(* What the accounts say where a thread is about to use them. *)

\* A sender that has taken a permit finds a packet.
LEMMA NotEmpty ==
  ASSUME SafetyInv, NEW s \in Senders, sender[s] \in {"lock", "send", "pop"}
  PROVE  window # << >>
<1> USE DEF SafetyInv
<1>1. main # "ctor" /\ SenderOwes(s) = 1
  BY DEF BootInv, Senders, SenderOwes, One
<1>2. SenderOwes(1) \in 0 .. 1 /\ SenderOwes(2) \in 0 .. 1
  BY DEF SenderOwes, One
<1>3. CASE s = 1
  BY <1>1, <1>2, <1>3 DEF TypeOK, PermitsAccounted, One
<1>4. CASE s = 2
  BY <1>1, <1>2, <1>4 DEF TypeOK, PermitsAccounted, One
<1> QED
  BY <1>3, <1>4 DEF Senders

\* A sender that gives a free slot back does not make one too many.
LEMMA EmptyHasRoom ==
  ASSUME SafetyInv, NEW s \in Senders, sender[s] = "post"
  PROVE  empty < Capacity
<1> USE LdpSendPathAssumption DEF SafetyInv
<1>1. main # "ctor" /\ SenderHolds(s) = 1
  BY DEF BootInv, Senders, SenderHolds, One
<1>2. SenderHolds(1) \in 0 .. 1 /\ SenderHolds(2) \in 0 .. 1
  BY DEF SenderHolds, One
<1>3. CASE s = 1
  BY <1>1, <1>2, <1>3 DEF TypeOK, PermitsAccounted, One
<1>4. CASE s = 2
  BY <1>1, <1>2, <1>4 DEF TypeOK, PermitsAccounted, One
<1> QED
  BY <1>3, <1>4 DEF Senders

\* LDP::send does not announce a packet too many.
LEMMA FullHasRoom ==
  ASSUME SafetyInv, main = "post"
  PROVE  full < Capacity
<1> USE LdpSendPathAssumption DEF SafetyInv
<1>1. SenderHolds(1) \in 0 .. 1 /\ SenderHolds(2) \in 0 .. 1
  BY DEF SenderHolds, One
<1>2. SenderOwes(1) \in 0 .. 1 /\ SenderOwes(2) \in 0 .. 1
  BY DEF SenderOwes, One
<1> QED
  BY <1>1, <1>2 DEF TypeOK, PermitsAccounted, One

\* Every step of every thread preserves the invariant.
LEMMA StepSafety == SafetyInv /\ [Next]_vars => SafetyInv'
<1> SUFFICES ASSUME SafetyInv, [Next]_vars PROVE SafetyInv'
  OBVIOUS
<1> USE LdpSendPathAssumption DEF SafetyInv, vars, bootVars, inputVars, windowVars, historyVars,
     BootSteps, SendSteps, Free, MainThread
<1>1. CASE Ctor
  BY <1>1 DEF Ctor, TypeOK, MutexInv, BootInv, LoopInv, PermitsAccounted, Senders,
     MainInside, SenderInside, SenderOwes, SenderHolds, One, Packets, PayloadSize,
     LongestLine
<1>2. CASE BindSucceeds
  BY <1>2 DEF BindSucceeds, LookedUp, TypeOK, MutexInv, BootInv, LoopInv, PermitsAccounted,
     Senders, MainInside, SenderInside, SenderOwes, SenderHolds, One, Packets,
     PayloadSize, LongestLine
<1>3. CASE BindFails
  BY <1>3 DEF BindFails, TypeOK, MutexInv, BootInv, LoopInv, PermitsAccounted, Senders,
     MainInside, SenderInside, SenderOwes, SenderHolds, One, Packets, PayloadSize,
     LongestLine
<1>4. CASE InitMutex
  BY <1>4 DEF InitMutex, TypeOK, MutexInv, BootInv, LoopInv, PermitsAccounted, Senders,
     MainInside, SenderInside, SenderOwes, SenderHolds, One, Packets, PayloadSize,
     LongestLine
<1>5. CASE InitEmpty
  BY <1>5 DEF InitEmpty, TypeOK, MutexInv, BootInv, LoopInv, PermitsAccounted, Senders,
     MainInside, SenderInside, SenderOwes, SenderHolds, One, Packets, PayloadSize,
     LongestLine
<1>6. CASE InitFull
  BY <1>6 DEF InitFull, TypeOK, MutexInv, BootInv, LoopInv, PermitsAccounted, Senders,
     MainInside, SenderInside, SenderOwes, SenderHolds, One, Packets, PayloadSize,
     LongestLine
<1>7. CASE CreateSender
  BY <1>7 DEF CreateSender, TypeOK, MutexInv, BootInv, LoopInv, PermitsAccounted,
     Senders, MainInside, SenderInside, SenderOwes, SenderHolds, One, Packets,
     PayloadSize, LongestLine
<1>8. CASE Listen
  BY <1>8 DEF Listen, TypeOK, MutexInv, BootInv, LoopInv, PermitsAccounted, Senders,
     MainInside, SenderInside, SenderOwes, SenderHolds, One, Packets, PayloadSize,
     LongestLine
<1>9. CASE Read
  <2>1. TypeOK'
    BY <1>9 DEF Read, TypeOK, Packets, PayloadSize, LongestLine, LoopInv, 
       PermitsAccounted, SenderOwes, SenderHolds, One, vars, bootVars, inputVars,
       windowVars, historyVars, BootSteps, SendSteps, Senders, Free, MainThread
  <2>2. MutexInv'
    BY <1>9 DEF Read, TypeOK, MutexInv, MainInside, SenderInside, 
       inputVars, windowVars, historyVars, BootSteps, SendSteps, Senders, Free,
       MainThread
  <2>3. BootInv'
    BY <1>9 DEF Read, TypeOK, BootInv, 
       historyVars, BootSteps, SendSteps, Senders, Free, MainThread
  <2>4. LoopInv'
    <3>1. line'.length \in 0 .. 122
      BY <1>9 DEF Read, TypeOK, LongestLine
    <3> QED
      BY <1>9, <3>1 DEF Read, LoopInv
  <2>5. PermitsAccounted'
    BY <1>9 DEF Read, TypeOK, BootInv, PermitsAccounted, SenderOwes, SenderHolds, One, 
       vars, bootVars, inputVars, windowVars, historyVars, BootSteps, SendSteps,
       Senders, Free, MainThread
  <2> QED
    BY <2>1, <2>2, <2>3, <2>4, <2>5
<1>10. CASE WaitEmpty
  <2>1. TypeOK'
    BY <1>10 DEF WaitEmpty, TypeOK, Packets, PayloadSize, LongestLine, LoopInv, 
       PermitsAccounted, SenderOwes, SenderHolds, One, vars, bootVars, inputVars,
       windowVars, historyVars, BootSteps, SendSteps, Senders, Free, MainThread
  <2>2. MutexInv'
    BY <1>10 DEF WaitEmpty, TypeOK, MutexInv, MainInside, SenderInside, 
       inputVars, windowVars, historyVars, BootSteps, SendSteps, Senders, Free,
       MainThread
  <2>3. BootInv'
    BY <1>10 DEF WaitEmpty, TypeOK, BootInv, 
       historyVars, BootSteps, SendSteps, Senders, Free, MainThread
  <2>4. LoopInv'
    BY <1>10 DEF WaitEmpty, TypeOK, LoopInv, PayloadSize, 
       windowVars, historyVars, BootSteps, SendSteps, Senders, Free, MainThread
  <2>5. PermitsAccounted'
    <3>1. SenderOwes(1)' = SenderOwes(1) /\ SenderOwes(2)' = SenderOwes(2)
          /\ SenderHolds(1)' = SenderHolds(1) /\ SenderHolds(2)' = SenderHolds(2)
      BY <1>10 DEF WaitEmpty, SenderOwes, SenderHolds
    <3>2. main = "wait" /\ main' = "lock" /\ window' = window /\ full' = full /\ empty' = empty - 1
      BY <1>10 DEF WaitEmpty
    <3>3. Len(window) = full + SenderOwes(1) + SenderOwes(2)
          /\ Len(window) + empty + SenderHolds(1) + SenderHolds(2) = Capacity
      BY <3>2 DEF TypeOK, PermitsAccounted, SenderOwes, SenderHolds, One
    <3>4. Len(window') = full' + SenderOwes(1)' + SenderOwes(2)'
          /\ Len(window') + empty' + SenderHolds(1)' + SenderHolds(2)' + 1 = Capacity
      BY <3>1, <3>2, <3>3 DEF TypeOK, SenderOwes, SenderHolds, One
    <3> QED
      BY <3>2, <3>4 DEF PermitsAccounted, TypeOK, SenderOwes, SenderHolds, One
  <2> QED
    BY <2>1, <2>2, <2>3, <2>4, <2>5
<1>11. CASE Lock
  BY <1>11 DEF Lock, TypeOK, MutexInv, BootInv, LoopInv, PermitsAccounted, Senders,
     MainInside, SenderInside, SenderOwes, SenderHolds, One, Packets, PayloadSize,
     LongestLine
<1>12. CASE Push
  <2>1. TypeOK'
    <3>1. line.length \in 0 .. 122
      BY DEF TypeOK, LongestLine
    <3>2. line.text \in 0 .. MaxReads
      BY DEF TypeOK
    <3>3. offset \in Nat
      BY DEF TypeOK, LongestLine, PayloadSize
    <3>4. offset <= line.length
      BY <1>12 DEF Push, LoopInv
    <3>5. offset \in 0 .. LongestLine
      BY <3>1, <3>3, <3>4 DEF LongestLine
    <3>6. [text |-> line.text, offset |-> offset] \in Packets
      BY <3>1, <3>5, <3>2 DEF Packets
    <3>7. window' \in Seq(Packets) /\ produced' \in Seq(Packets)
      BY <1>12, <3>6 DEF Push, TypeOK
    <3> QED
      BY <1>12, <3>7 DEF Push, TypeOK, 
         historyVars, BootSteps, SendSteps, Senders, Free, MainThread
  <2>2. MutexInv'
    BY <1>12 DEF Push, TypeOK, MutexInv, MainInside, SenderInside, 
       inputVars, windowVars, historyVars, BootSteps, SendSteps, Senders, Free,
       MainThread
  <2>3. BootInv'
    BY <1>12 DEF Push, TypeOK, BootInv, 
       historyVars, BootSteps, SendSteps, Senders, Free, MainThread
  <2>4. LoopInv'
    BY <1>12 DEF Push, TypeOK, LoopInv, PayloadSize, 
       windowVars, historyVars, BootSteps, SendSteps, Senders, Free, MainThread
  <2>5. PermitsAccounted'
    BY <1>12 DEF Push, TypeOK, BootInv, PermitsAccounted, SenderOwes, SenderHolds, One, 
       vars, bootVars, inputVars, windowVars, historyVars, BootSteps, SendSteps,
       Senders, Free, MainThread
  <2> QED
    BY <2>1, <2>2, <2>3, <2>4, <2>5
<1>13. CASE Unlock
  BY <1>13 DEF Unlock, TypeOK, MutexInv, BootInv, LoopInv, PermitsAccounted, Senders,
     MainInside, SenderInside, SenderOwes, SenderHolds, One, Packets, PayloadSize,
     LongestLine
<1>14. CASE PostFull
  <2>1. TypeOK'
    <3>1. line.length \in 0 .. 122
      BY DEF TypeOK, LongestLine
    <3>2. offset \in Nat
      BY DEF TypeOK, LongestLine, PayloadSize
    <3>3. offset' \in 0 .. LongestLine + PayloadSize
      BY <1>14, <3>1, <3>2 DEF PostFull, LoopInv, PayloadSize, LongestLine
    <3> QED
      BY <1>14, <3>3, FullHasRoom DEF PostFull, TypeOK, 
         windowVars, historyVars, BootSteps, SendSteps, Senders, Free, MainThread
  <2>2. MutexInv'
    BY <1>14 DEF PostFull, TypeOK, MutexInv, MainInside, SenderInside, 
       inputVars, windowVars, historyVars, BootSteps, SendSteps, Senders, Free,
       MainThread
  <2>3. BootInv'
    BY <1>14 DEF PostFull, TypeOK, BootInv, 
       historyVars, BootSteps, SendSteps, Senders, Free, MainThread
  <2>4. LoopInv'
    <3>1. line.length \in 0 .. 122
      BY DEF TypeOK, LongestLine
    <3>2. offset \in Nat
      BY DEF TypeOK, LongestLine, PayloadSize
    <3> QED
      BY <1>14, <3>1, <3>2 DEF PostFull, LoopInv, PayloadSize
  <2>5. PermitsAccounted'
    BY <1>14 DEF PostFull, TypeOK, BootInv, PermitsAccounted, SenderOwes, SenderHolds, 
       One, vars, bootVars, inputVars, windowVars, historyVars, BootSteps, SendSteps,
       Senders, Free, MainThread
  <2> QED
    BY <2>1, <2>2, <2>3, <2>4, <2>5
<1>15. CASE LearnPeer
  BY <1>15 DEF LearnPeer, TypeOK, MutexInv, BootInv, LoopInv, PermitsAccounted,
     Senders, MainInside, SenderInside, SenderOwes, SenderHolds, One, Packets,
     PayloadSize, LongestLine, Listening
<1>16. CASE ReceiverFails
  BY <1>16 DEF ReceiverFails, TypeOK, MutexInv, BootInv, LoopInv, PermitsAccounted,
     Senders, MainInside, SenderInside, SenderOwes, SenderHolds, One, Packets,
     PayloadSize, LongestLine, Listening
<1>17. ASSUME NEW s \in Senders, SenderWait(s) PROVE SafetyInv'
  <2>1. TypeOK'
    BY <1>17 DEF SenderWait, Goto, TypeOK, Packets, PayloadSize, LongestLine, LoopInv, 
       PermitsAccounted, SenderOwes, SenderHolds, One, vars, bootVars, inputVars,
       windowVars, historyVars, BootSteps, SendSteps, Senders, Free, MainThread
  <2>2. MutexInv'
    BY <1>17 DEF SenderWait, Goto, TypeOK, MutexInv, MainInside, SenderInside, 
       bootVars, inputVars, windowVars, historyVars, BootSteps, SendSteps, Senders,
       Free, MainThread
  <2>3. BootInv'
    BY <1>17 DEF SenderWait, Goto, TypeOK, BootInv, 
       windowVars, historyVars, BootSteps, SendSteps, Senders, Free, MainThread
  <2>4. LoopInv'
    BY <1>17 DEF SenderWait, Goto, TypeOK, LoopInv, PayloadSize, 
       inputVars, windowVars, historyVars, BootSteps, SendSteps, Senders, Free,
       MainThread
  <2>5. PermitsAccounted'
    <3>1. main # "ctor" /\ main' = main
      BY <1>17 DEF SenderWait, Goto, BootInv, Senders
    <3>2. window' = window /\ full' = full - 1 /\ empty' = empty
      BY <1>17 DEF SenderWait, Goto, TypeOK
    <3>3. CASE s = 1
      <4>1. sender[1] = "wait" /\ sender'[1] = "lock" /\ sender'[2] = sender[2]
        BY <1>17, <3>3 DEF SenderWait, Goto, TypeOK, Senders
      <4> QED
        BY <3>1, <3>2, <4>1 DEF TypeOK, PermitsAccounted, SenderOwes, SenderHolds, One
    <3>4. CASE s = 2
      <4>1. sender[2] = "wait" /\ sender'[2] = "lock" /\ sender'[1] = sender[1]
        BY <1>17, <3>4 DEF SenderWait, Goto, TypeOK, Senders
      <4> QED
        BY <3>1, <3>2, <4>1 DEF TypeOK, PermitsAccounted, SenderOwes, SenderHolds, One
    <3> QED
      BY <3>3, <3>4 DEF Senders
  <2> QED
    BY <2>1, <2>2, <2>3, <2>4, <2>5
<1>18. ASSUME NEW s \in Senders, SenderLock(s) PROVE SafetyInv'
  BY <1>18 DEF SenderLock, TypeOK, MutexInv, BootInv, LoopInv, PermitsAccounted,
     Senders, MainInside, SenderInside, SenderOwes, SenderHolds, One, Packets,
     PayloadSize, LongestLine, Goto
<1>19. ASSUME NEW s \in Senders, SenderSend(s) PROVE SafetyInv'
  <2>1. TypeOK'
    <3>1. Head(window) \in Packets
      BY <1>19, NotEmpty DEF SenderSend, Goto, TypeOK
    <3>2. [packet |-> Head(window), to |-> peer] \in [packet : Packets, to : {"set", "unset"}]
      BY <3>1 DEF TypeOK
    <3>3. sent' \in Seq([packet : Packets, to : {"set", "unset"}])
      BY <1>19, <3>2 DEF SenderSend, TypeOK
    <3> QED
      BY <1>19, <3>3 DEF SenderSend, Goto, TypeOK, 
         windowVars, historyVars, BootSteps, SendSteps, Senders, Free, MainThread
  <2>2. MutexInv'
    BY <1>19 DEF SenderSend, Goto, TypeOK, MutexInv, MainInside, SenderInside, 
       bootVars, inputVars, windowVars, historyVars, BootSteps, SendSteps, Senders,
       Free, MainThread
  <2>3. BootInv'
    BY <1>19 DEF SenderSend, Goto, TypeOK, BootInv, 
       windowVars, historyVars, BootSteps, SendSteps, Senders, Free, MainThread
  <2>4. LoopInv'
    BY <1>19 DEF SenderSend, Goto, TypeOK, LoopInv, PayloadSize, 
       inputVars, windowVars, historyVars, BootSteps, SendSteps, Senders, Free,
       MainThread
  <2>5. PermitsAccounted'
    <3>1. main # "ctor" /\ main' = main
      BY <1>19 DEF SenderSend, Goto, BootInv, Senders
    <3>2. window' = window /\ full' = full /\ empty' = empty
      BY <1>19 DEF SenderSend, Goto, TypeOK
    <3>3. CASE s = 1
      <4>1. sender[1] = "send" /\ sender'[1] = "pop" /\ sender'[2] = sender[2]
        BY <1>19, <3>3 DEF SenderSend, Goto, TypeOK, Senders
      <4> QED
        BY <3>1, <3>2, <4>1 DEF TypeOK, PermitsAccounted, SenderOwes, SenderHolds, One
    <3>4. CASE s = 2
      <4>1. sender[2] = "send" /\ sender'[2] = "pop" /\ sender'[1] = sender[1]
        BY <1>19, <3>4 DEF SenderSend, Goto, TypeOK, Senders
      <4> QED
        BY <3>1, <3>2, <4>1 DEF TypeOK, PermitsAccounted, SenderOwes, SenderHolds, One
    <3> QED
      BY <3>3, <3>4 DEF Senders
  <2> QED
    BY <2>1, <2>2, <2>3, <2>4, <2>5
<1>20. ASSUME NEW s \in Senders, SenderFails(s) PROVE SafetyInv'
  BY <1>20 DEF SenderFails, TypeOK, MutexInv, BootInv, LoopInv, PermitsAccounted,
     Senders, MainInside, SenderInside, SenderOwes, SenderHolds, One, Packets,
     PayloadSize, LongestLine, Goto
<1>21. ASSUME NEW s \in Senders, SenderPop(s) PROVE SafetyInv'
  <2>1. TypeOK'
    <3>1. window' \in Seq(Packets)
      BY <1>21, NotEmpty DEF SenderPop, Goto, TypeOK
    <3> QED
      BY <1>21, <3>1 DEF SenderPop, Goto, TypeOK, 
         windowVars, historyVars, BootSteps, SendSteps, Senders, Free, MainThread
  <2>2. MutexInv'
    BY <1>21 DEF SenderPop, Goto, TypeOK, MutexInv, MainInside, SenderInside, 
       bootVars, inputVars, windowVars, historyVars, BootSteps, SendSteps, Senders,
       Free, MainThread
  <2>3. BootInv'
    BY <1>21 DEF SenderPop, Goto, TypeOK, BootInv, 
       windowVars, historyVars, BootSteps, SendSteps, Senders, Free, MainThread
  <2>4. LoopInv'
    BY <1>21 DEF SenderPop, Goto, TypeOK, LoopInv, PayloadSize, 
       inputVars, windowVars, historyVars, BootSteps, SendSteps, Senders, Free,
       MainThread
  <2>5. PermitsAccounted'
    <3>1. main # "ctor" /\ main' = main
      BY <1>21 DEF SenderPop, Goto, BootInv, Senders
    <3>2. Len(window') = Len(window) - 1 /\ full' = full /\ empty' = empty
      BY <1>21, NotEmpty DEF SenderPop, Goto, TypeOK
    <3>3. CASE s = 1
      <4>1. sender[1] = "pop" /\ sender'[1] = "unlock" /\ sender'[2] = sender[2]
        BY <1>21, <3>3 DEF SenderPop, Goto, TypeOK, Senders
      <4> QED
        BY <3>1, <3>2, <4>1 DEF TypeOK, PermitsAccounted, SenderOwes, SenderHolds, One
    <3>4. CASE s = 2
      <4>1. sender[2] = "pop" /\ sender'[2] = "unlock" /\ sender'[1] = sender[1]
        BY <1>21, <3>4 DEF SenderPop, Goto, TypeOK, Senders
      <4> QED
        BY <3>1, <3>2, <4>1 DEF TypeOK, PermitsAccounted, SenderOwes, SenderHolds, One
    <3> QED
      BY <3>3, <3>4 DEF Senders
  <2> QED
    BY <2>1, <2>2, <2>3, <2>4, <2>5
<1>22. ASSUME NEW s \in Senders, SenderUnlock(s) PROVE SafetyInv'
  <2>1. TypeOK'
    BY <1>22 DEF SenderUnlock, Goto, TypeOK, Packets, PayloadSize, LongestLine, 
       LoopInv, PermitsAccounted, SenderOwes, SenderHolds, One, vars, bootVars,
       inputVars, windowVars, historyVars, BootSteps, SendSteps, Senders, Free,
       MainThread
  <2>2. MutexInv'
    BY <1>22 DEF SenderUnlock, Goto, TypeOK, MutexInv, MainInside, SenderInside, 
       bootVars, inputVars, windowVars, historyVars, BootSteps, SendSteps, Senders,
       Free, MainThread
  <2>3. BootInv'
    BY <1>22 DEF SenderUnlock, Goto, TypeOK, BootInv, 
       windowVars, historyVars, BootSteps, SendSteps, Senders, Free, MainThread
  <2>4. LoopInv'
    BY <1>22 DEF SenderUnlock, Goto, TypeOK, LoopInv, PayloadSize, 
       inputVars, windowVars, historyVars, BootSteps, SendSteps, Senders, Free,
       MainThread
  <2>5. PermitsAccounted'
    <3>1. main # "ctor" /\ main' = main
      BY <1>22 DEF SenderUnlock, Goto, BootInv, Senders
    <3>2. window' = window /\ full' = full /\ empty' = empty
      BY <1>22 DEF SenderUnlock, Goto, TypeOK
    <3>3. CASE s = 1
      <4>1. sender[1] = "unlock" /\ sender'[1] = "post" /\ sender'[2] = sender[2]
        BY <1>22, <3>3 DEF SenderUnlock, Goto, TypeOK, Senders
      <4> QED
        BY <3>1, <3>2, <4>1 DEF TypeOK, PermitsAccounted, SenderOwes, SenderHolds, One
    <3>4. CASE s = 2
      <4>1. sender[2] = "unlock" /\ sender'[2] = "post" /\ sender'[1] = sender[1]
        BY <1>22, <3>4 DEF SenderUnlock, Goto, TypeOK, Senders
      <4> QED
        BY <3>1, <3>2, <4>1 DEF TypeOK, PermitsAccounted, SenderOwes, SenderHolds, One
    <3> QED
      BY <3>3, <3>4 DEF Senders
  <2> QED
    BY <2>1, <2>2, <2>3, <2>4, <2>5
<1>23. ASSUME NEW s \in Senders, SenderPost(s) PROVE SafetyInv'
  <2>1. TypeOK'
    BY <1>23, EmptyHasRoom DEF SenderPost, Goto, TypeOK, 
       windowVars, historyVars, BootSteps, SendSteps, Senders, Free, MainThread
  <2>2. MutexInv'
    BY <1>23 DEF SenderPost, Goto, TypeOK, MutexInv, MainInside, SenderInside, 
       bootVars, inputVars, windowVars, historyVars, BootSteps, SendSteps, Senders,
       Free, MainThread
  <2>3. BootInv'
    BY <1>23 DEF SenderPost, Goto, TypeOK, BootInv, 
       windowVars, historyVars, BootSteps, SendSteps, Senders, Free, MainThread
  <2>4. LoopInv'
    BY <1>23 DEF SenderPost, Goto, TypeOK, LoopInv, PayloadSize, 
       inputVars, windowVars, historyVars, BootSteps, SendSteps, Senders, Free,
       MainThread
  <2>5. PermitsAccounted'
    <3>1. main # "ctor" /\ main' = main
      BY <1>23 DEF SenderPost, Goto, BootInv, Senders
    <3>2. window' = window /\ full' = full /\ empty' = empty + 1
      BY <1>23 DEF SenderPost, Goto, TypeOK
    <3>3. CASE s = 1
      <4>1. sender[1] = "post" /\ sender'[1] = "wait" /\ sender'[2] = sender[2]
        BY <1>23, <3>3 DEF SenderPost, Goto, TypeOK, Senders
      <4> QED
        BY <3>1, <3>2, <4>1 DEF TypeOK, PermitsAccounted, SenderOwes, SenderHolds, One
    <3>4. CASE s = 2
      <4>1. sender[2] = "post" /\ sender'[2] = "wait" /\ sender'[1] = sender[1]
        BY <1>23, <3>4 DEF SenderPost, Goto, TypeOK, Senders
      <4> QED
        BY <3>1, <3>2, <4>1 DEF TypeOK, PermitsAccounted, SenderOwes, SenderHolds, One
    <3> QED
      BY <3>3, <3>4 DEF Senders
  <2> QED
    BY <2>1, <2>2, <2>3, <2>4, <2>5
<1>24. CASE UNCHANGED vars
  BY <1>24 DEF TypeOK, MutexInv, BootInv, LoopInv, PermitsAccounted, Senders,
     MainInside, SenderInside, SenderOwes, SenderHolds, One, Packets, PayloadSize,
     LongestLine
<1> QED
  BY <1>1, <1>2, <1>3, <1>4, <1>5, <1>6, <1>7, <1>8, <1>9, <1>10, <1>11, <1>12, <1>13,
     <1>14, <1>15, <1>16, <1>17, <1>18, <1>19, <1>20, <1>21, <1>22, <1>23,
     <1>24 DEF Next, Boot, Send, SenderWork, Stopped

\* So it holds for ever.
LEMMA SafetyAlways == SafeSpec => []SafetyInv
  BY InitSafety, StepSafety, PTL DEF SafeSpec

-----------------------------------------------------------------------------
(* First in, first out *)

\* A packet is both sent and in the deque while a sender is at pop_front, ...
LEMMA PoppingIsOne ==
  ASSUME NEW s \in Senders, sender[s] = "pop"
  PROVE  Popping = 1
  BY DEF Popping, One

\* ... and at no other time.
LEMMA PoppingIsZero ==
  ASSUME \A s \in Senders : sender[s] # "pop"
  PROVE  Popping = 0
  BY DEF Popping, One

\* The holder of the mutex is the only sender inside.
LEMMA OthersOutside ==
  ASSUME SafetyInv, NEW s \in Senders, SenderInside(s),
         NEW t \in Senders, t # s
  PROVE  ~SenderInside(t)
  BY DEF SafetyInv, MutexInv

\* Nothing is produced and nothing is sent at first.
LEMMA InitFifo == Init => FifoInv
<1> SUFFICES ASSUME Init PROVE FifoInv
  OBVIOUS
<1>1. Popping = 0
  BY PoppingIsZero DEF Init
<1> QED
  BY <1>1 DEF Init, FifoInv

\* At most one packet is being popped, and the deque holds it.
LEMMA PoppingBounds ==
  ASSUME SafetyInv
  PROVE  Popping \in 0 .. 1 /\ Popping <= Len(window)
<1>1. CASE \E s \in Senders : sender[s] = "pop"
  <2>1. window # << >> /\ Popping = 1
    BY <1>1, NotEmpty, PoppingIsOne
  <2> QED
    BY <2>1 DEF SafetyInv, TypeOK
<1>2. CASE \A s \in Senders : sender[s] # "pop"
  BY <1>2, PoppingIsZero DEF SafetyInv, TypeOK
<1> QED
  BY <1>1, <1>2

\* emplace_back adds the newest packet behind the others.
LEMMA PushFifo ==
  ASSUME SafetyInv, SafetyInv', FifoInv, Push
  PROVE  FifoInv'
<1> DEFINE p == [text |-> line.text, offset |-> offset]
<1>1. Popping' = Popping /\ Popping \in 0 .. 1 /\ Popping <= Len(window)
  BY PoppingBounds DEF Push, Popping
<1>2. /\ window \in Seq(Packets) /\ produced \in Seq(Packets)
      /\ sent \in Seq([packet : Packets, to : {"set", "unset"}])
      /\ window' \in Seq(Packets) /\ produced' \in Seq(Packets)
  BY DEF SafetyInv, TypeOK
<1>3. window' = Append(window, p) /\ produced' = Append(produced, p) /\ sent' = sent
  BY DEF Push
<1> HIDE DEF p
<1>4. Len(window') = Len(window) + 1 /\ Len(produced') = Len(produced) + 1
  BY <1>2, <1>3
<1>5. Len(produced) = Len(sent) + Len(window) - Popping /\ Popping <= Len(sent)
  BY DEF FifoInv
<1>6. ASSUME NEW k \in 1 .. Len(sent') PROVE sent'[k].packet = produced'[k]
  <2>1. sent[k].packet = produced[k] /\ k \in 1 .. Len(sent)
    BY <1>3 DEF FifoInv
  <2> QED
    BY <1>1, <1>2, <1>3, <1>5, <2>1
<1>7. ASSUME NEW k \in 1 .. Len(window') PROVE window'[k] = produced'[Len(sent') - Popping' + k]
  <2>1. CASE k \in 1 .. Len(window)
    <3>1. window[k] = produced[Len(sent) - Popping + k]
      BY <2>1 DEF FifoInv
    <3>2. Len(sent) - Popping + k \in 1 .. Len(produced)
      <4>1. CASE Popping = 0
        BY <1>2, <1>5, <2>1, <4>1
      <4>2. CASE Popping = 1
        BY <1>1, <1>2, <1>5, <2>1, <4>2
      <4> QED
        BY <1>1, <4>1, <4>2
    <3>3. window'[k] = window[k]
      BY <1>2, <1>3, <2>1
    <3>4. produced'[Len(sent) - Popping + k] = produced[Len(sent) - Popping + k]
      BY <1>2, <1>3, <3>2
    <3> QED
      BY <1>1, <1>3, <3>1, <3>3, <3>4
  <2>2. CASE k = Len(window) + 1
    <3>1. Len(sent') - Popping' + k = Len(produced) + 1
      BY <1>1, <1>2, <1>3, <1>5, <2>2
    <3> QED
      BY <1>2, <1>3, <2>2, <3>1
  <2> QED
    BY <1>2, <1>4, <2>1, <2>2
<1>8. Len(produced') = Len(sent') + Len(window') - Popping' /\ Popping' <= Len(sent')
  BY <1>1, <1>2, <1>3, <1>4, <1>5
<1> QED
  BY <1>6, <1>7, <1>8 DEF FifoInv

\* sendto takes the oldest packet, ...
LEMMA SendFifo ==
  ASSUME SafetyInv, SafetyInv', FifoInv, NEW s \in Senders, SenderSend(s)
  PROVE  FifoInv'
<1> DEFINE d == [packet |-> Head(window), to |-> peer]
<1>1. window # << >>
  BY NotEmpty DEF SenderSend, Goto
<1>2. Popping = 0
  <2>1. SenderInside(s) /\ sender[s] # "pop"
    BY DEF SenderSend, Goto, SenderInside
  <2>2. \A t \in Senders : sender[t] = "pop" => SenderInside(t)
    BY DEF SenderInside
  <2> QED
    BY <2>1, <2>2, OthersOutside, PoppingIsZero
<1>3. Popping' = 1
  <2>1. sender'[s] = "pop"
    BY DEF SenderSend, Goto, SafetyInv, TypeOK
  <2> QED
    BY <2>1 DEF Popping, One
<1>4. /\ window \in Seq(Packets) /\ produced \in Seq(Packets)
      /\ sent \in Seq([packet : Packets, to : {"set", "unset"}])
      /\ sent' \in Seq([packet : Packets, to : {"set", "unset"}])
  BY DEF SafetyInv, TypeOK
<1>5. window' = window /\ produced' = produced /\ sent' = Append(sent, d)
  BY DEF SenderSend, windowVars
<1>6. d.packet = Head(window)
  OBVIOUS
<1> HIDE DEF d
<1>7. Len(sent') = Len(sent) + 1 /\ sent'[Len(sent) + 1] = d
  BY <1>4, <1>5
<1>8. Len(produced) = Len(sent) + Len(window)
  BY <1>2, <1>4 DEF FifoInv
<1>9. \A k \in 1 .. Len(window) : window[k] = produced[Len(sent) + k]
  BY <1>2, <1>4 DEF FifoInv
<1>10. d.packet = produced[Len(sent) + 1]
  BY <1>1, <1>4, <1>6, <1>9
<1>11. ASSUME NEW k \in 1 .. Len(sent') PROVE sent'[k].packet = produced'[k]
  <2>1. CASE k \in 1 .. Len(sent)
    <3>1. sent'[k] = sent[k]
      BY <1>4, <1>5, <2>1
    <3>2. sent[k].packet = produced[k]
      BY <2>1 DEF FifoInv
    <3> QED
      BY <1>5, <3>1, <3>2
  <2>2. CASE k = Len(sent) + 1
    BY <1>5, <1>7, <1>10, <2>2
  <2> QED
    BY <1>4, <1>7, <2>1, <2>2
<1>12. ASSUME NEW k \in 1 .. Len(window') PROVE window'[k] = produced'[Len(sent') - Popping' + k]
  BY <1>3, <1>4, <1>5, <1>7, <1>9
<1>13. Len(produced') = Len(sent') + Len(window') - Popping' /\ Popping' <= Len(sent')
  BY <1>3, <1>4, <1>5, <1>7, <1>8
<1> QED
  BY <1>11, <1>12, <1>13 DEF FifoInv

\* ... which is the one that pop_front removes.
LEMMA PopFifo ==
  ASSUME SafetyInv, SafetyInv', FifoInv, NEW s \in Senders, SenderPop(s)
  PROVE  FifoInv'
<1>1. window # << >>
  BY NotEmpty DEF SenderPop, Goto
<1>2. Popping = 1
  BY PoppingIsOne DEF SenderPop, Goto
<1>3. Popping' = 0
  <2>1. \A t \in Senders : sender'[t] # "pop"
    <3>1. \A t \in Senders : t # s => sender[t] # "pop"
      BY OthersOutside DEF SenderPop, Goto, SenderInside
    <3> QED
      BY <3>1 DEF SenderPop, Goto, SafetyInv, TypeOK
  <2> QED
    BY <2>1 DEF Popping, One
<1>4. /\ window \in Seq(Packets) /\ window' \in Seq(Packets) /\ produced \in Seq(Packets)
      /\ Len(sent) \in Nat
  BY DEF SafetyInv, TypeOK
<1>5. window' = Tail(window) /\ produced' = produced /\ sent' = sent
  BY DEF SenderPop, historyVars
<1>6. Len(window') = Len(window) - 1
  BY <1>1, <1>4, <1>5
<1>7. Len(produced) = Len(sent) + Len(window) - 1
  BY <1>2 DEF FifoInv
<1>8. ASSUME NEW k \in 1 .. Len(window') PROVE window'[k] = produced'[Len(sent') - Popping' + k]
  <2>1. window'[k] = window[k + 1] /\ k + 1 \in 1 .. Len(window)
    BY <1>1, <1>4, <1>5, <1>6
  <2>2. window[k + 1] = produced[Len(sent) - 1 + (k + 1)]
    BY <1>2, <2>1 DEF FifoInv
  <2>3. Len(sent) - 1 + (k + 1) = Len(sent') - Popping' + k
    BY <1>3, <1>4, <1>5, <1>6
  <2> QED
    BY <1>5, <2>1, <2>2, <2>3
<1>9. \A k \in 1 .. Len(sent') : sent'[k].packet = produced'[k]
  BY <1>5 DEF FifoInv
<1>10. Len(produced') = Len(sent') + Len(window') - Popping' /\ Popping' <= Len(sent')
  BY <1>3, <1>4, <1>5, <1>6, <1>7
<1> QED
  BY <1>8, <1>9, <1>10 DEF FifoInv

\* Every other step leaves the deque, the histories and the senders at pop alone.
LEMMA QuietFifo ==
  ASSUME FifoInv, UNCHANGED << window, produced, sent >>,
         \A s \in Senders : sender'[s] = "pop" <=> sender[s] = "pop"
  PROVE  FifoInv'
<1>1. Popping' = Popping
  BY DEF Popping, One
<1> QED
  BY <1>1 DEF FifoInv

\* Every step preserves the order of the packets.
LEMMA StepFifo ==
  ASSUME SafetyInv, SafetyInv', FifoInv, [Next]_vars
  PROVE  FifoInv'
<1> USE DEF SafetyInv, TypeOK
<1>1. CASE Push
  BY <1>1, PushFifo
<1>2. ASSUME NEW s \in Senders, SenderSend(s) PROVE FifoInv'
  BY <1>2, SendFifo
<1>3. ASSUME NEW s \in Senders, SenderPop(s) PROVE FifoInv'
  BY <1>3, PopFifo
<1>4. CASE Boot
  BY <1>4, QuietFifo DEF Boot, Ctor, BindSucceeds, LookedUp, BindFails, InitMutex, InitEmpty,
     InitFull,
     CreateSender, Listen, Senders, BootInv, historyVars, windowVars
<1>5. CASE Read \/ WaitEmpty \/ Lock \/ Unlock \/ PostFull \/ LearnPeer \/ ReceiverFails
  BY <1>5, QuietFifo DEF Read, WaitEmpty, Lock, Unlock, PostFull, LearnPeer,
     ReceiverFails,
     historyVars, windowVars
<1>6. ASSUME NEW s \in Senders,
             SenderWait(s) \/ SenderLock(s) \/ SenderFails(s) \/ SenderUnlock(s) \/ SenderPost(s)
      PROVE  FifoInv'
  BY <1>6, QuietFifo DEF SenderWait, SenderLock, SenderFails, SenderUnlock, SenderPost,
     Goto,
     historyVars, windowVars
<1>7. CASE UNCHANGED vars
  BY <1>7, QuietFifo DEF vars, historyVars, windowVars
<1> QED
  BY <1>1, <1>2, <1>3, <1>4, <1>5, <1>6, <1>7 DEF Next, Send, SenderWork, Stopped

\* The inductive invariant holds for ever.
LEMMA InvAlways == SafeSpec => []IInv
<1>1. Init => IInv
  BY InitSafety, InitFifo DEF IInv
<1>2. IInv /\ [Next]_vars => IInv'
  BY StepSafety, StepFifo DEF IInv
<1> QED
  BY <1>1, <1>2, PTL DEF SafeSpec

-----------------------------------------------------------------------------
(* The theorems *)

\* The variables have their types in every reachable state.
THEOREM TypeCorrect == Spec => []TypeOK
<1>1. IInv => TypeOK
  BY DEF IInv, SafetyInv
<1> QED
  BY <1>1, InvAlways, PTL DEF Spec

\* The deque is never touched by two threads, and never read when it is empty,
\* although the mutex and the semaphores are initialised twice.
THEOREM DequeIsSafe == Spec => []DequeSafe
<1>1. IInv => DequeSafe
  <2> SUFFICES ASSUME IInv PROVE DequeSafe
    OBVIOUS
  <2>1. MainInside => \A s \in Senders : ~SenderInside(s)
    BY DEF IInv, SafetyInv, MutexInv, Senders, MainThread
  <2>2. ~(SenderInside(1) /\ SenderInside(2))
    BY DEF IInv, SafetyInv, MutexInv, Senders
  <2>3. \A s \in Senders : sender[s] \in {"send", "pop"} => window # << >>
    BY NotEmpty DEF IInv
  <2> QED
    BY <2>1, <2>2, <2>3 DEF DequeSafe
<1> QED
  BY <1>1, InvAlways, PTL DEF Spec

\* No permit of the two semaphores is lost or made up.
THEOREM PermitsAreAccounted == Spec => []PermitsAccounted
<1>1. IInv => PermitsAccounted
  BY DEF IInv, SafetyInv
<1> QED
  BY <1>1, InvAlways, PTL DEF Spec

\* Packets reach sendto in the order LDP::send made them, each exactly once.
THEOREM SentInOrder == Spec => []InOrder
<1>1. IInv => InOrder
  BY DEF IInv, FifoInv, InOrder
<1> QED
  BY <1>1, InvAlways, PTL DEF Spec

-----------------------------------------------------------------------------
(* The window implements the pipe *)

\* What left the pipe: the packets sendto accepted.
Left == [k \in 1 .. Len(sent) |-> sent[k].packet]

\* The packets sendto accepted, one by one.
LEMMA LeftFacts ==
  ASSUME TypeOK
  PROVE  /\ Left \in Seq(Packets) /\ Len(Left) = Len(sent)
         /\ \A k \in 1 .. Len(sent) : Left[k] = sent[k].packet
<1>1. \A k \in 1 .. Len(sent) : sent[k] \in [packet : Packets, to : {"set", "unset"}]
  BY ElementOfSeq DEF TypeOK
<1>2. \A k \in 1 .. Len(sent) : sent[k].packet \in Packets
  BY <1>1
<1> QED
  BY <1>2 DEF Left, TypeOK

\* The pipe is empty at first.
LEMMA InitPipe == Init => Pipe!Init
  BY DEF Init, Pipe!Init

\* A place is free when LDP::send adds a packet.
LEMMA PushPuts ==
  ASSUME IInv, IInv', running, Push
  PROVE  Pipe!Put([text |-> line.text, offset |-> offset])
<1> USE DEF IInv, SafetyInv
<1>1. Len(produced) - Len(Left) < Capacity
  <2>1. /\ window \in Seq(Packets) /\ produced \in Seq(Packets)
        /\ sent \in Seq([packet : Packets, to : {"set", "unset"}])
    BY DEF TypeOK
  <2>2. Len(window) < Capacity
    BY LdpSendPathAssumption DEF Push, TypeOK, PermitsAccounted, SenderHolds, One
  <2>3. Len(produced) = Len(sent) + Len(window) - Popping /\ Popping \in 0 .. 1
    BY PoppingBounds DEF FifoInv
  <2>4. Len(Left) = Len(sent)
    BY LeftFacts
  <2>5. CASE Popping = 0
    BY LdpSendPathAssumption, <2>1, <2>2, <2>3, <2>4, <2>5
  <2>6. CASE Popping = 1
    BY LdpSendPathAssumption, <2>1, <2>2, <2>3, <2>4, <2>6
  <2> QED
    BY <2>3, <2>5, <2>6
<1>2. Left' = Left /\ running' = running
  BY DEF Push, Left
<1> QED
  BY <1>1, <1>2 DEF Push, Pipe!Put, Left

\* sendto accepts the oldest packet that is left in the deque.
LEMMA SendGets ==
  ASSUME IInv, IInv', running, NEW s \in Senders, SenderSend(s)
  PROVE  Pipe!Get
<1> USE DEF IInv, SafetyInv
<1>1. /\ produced \in Seq(Packets)
      /\ sent \in Seq([packet : Packets, to : {"set", "unset"}])
      /\ sent' \in Seq([packet : Packets, to : {"set", "unset"}])
  BY DEF TypeOK
<1>2. sent' = Append(sent, [packet |-> Head(window), to |-> peer])
      /\ produced' = produced /\ running' = running
  BY DEF SenderSend
<1>3. Len(sent') = Len(sent) + 1 /\ \A k \in 1 .. Len(sent) : sent'[k] = sent[k]
  BY <1>1, <1>2
<1>4. Len(sent') <= Len(produced)
  <2>1. window' = window /\ window # << >> /\ window \in Seq(Packets)
    BY NotEmpty DEF SenderSend, Goto, windowVars, TypeOK
  <2>2. Popping' \in 0 .. 1 /\ Len(produced') = Len(sent') + Len(window') - Popping'
    BY PoppingBounds DEF FifoInv, Popping, One
  <2>3. CASE Popping' = 0
    BY <1>1, <1>2, <2>1, <2>2, <2>3
  <2>4. CASE Popping' = 1
    BY <1>1, <1>2, <2>1, <2>2, <2>4
  <2> QED
    BY <2>2, <2>3, <2>4
<1>5. sent'[Len(sent) + 1].packet = produced[Len(sent) + 1]
  BY <1>1, <1>2, <1>3 DEF FifoInv
<1>6. Len(Left) = Len(sent) /\ Len(Left') = Len(sent')
  BY LeftFacts, <1>1 DEF Left, TypeOK
<1>7. Left' = Append(Left, produced[Len(Left) + 1])
  <2>1. Left \in Seq(Packets) /\ Left' \in Seq(Packets)
    <3>1. \A k \in 1 .. Len(sent') : sent'[k] \in [packet : Packets, to : {"set", "unset"}]
      BY <1>1, ElementOfSeq
    <3>2. \A k \in 1 .. Len(sent') : sent'[k].packet \in Packets
      BY <3>1
    <3> QED
      BY <1>1, <3>2, LeftFacts DEF Left
  <2>2. Append(Left, produced[Len(Left) + 1]) \in Seq(Packets)
    BY <1>1, <1>3, <1>4, <1>6, <2>1
  <2>3. \A k \in 1 .. Len(sent') : Left'[k] = Append(Left, produced[Len(Left) + 1])[k]
    BY <1>1, <1>3, <1>5, <1>6, <2>1 DEF Left
  <2> QED
    BY <1>1, <1>3, <1>6, <2>1, <2>2, <2>3
<1> QED
  BY <1>1, <1>2, <1>3, <1>4, <1>6, <1>7 DEF Pipe!Get, Left

\* Every step that neither adds a packet nor sends one is invisible.
LEMMA OtherSteps ==
  ASSUME [Next]_vars,
         ~(running /\ Push), \A s \in Senders : ~(running /\ SenderSend(s))
  PROVE  Pipe!Exit \/ UNCHANGED Pipe!pipeVars
<1>1. CASE Boot
  BY <1>1 DEF Boot, Ctor, BindSucceeds, LookedUp, BindFails, InitMutex, InitEmpty, InitFull,
     CreateSender, Listen, historyVars, Pipe!pipeVars
<1>2. CASE Read \/ Send \/ LearnPeer
  BY <1>2 DEF Send, Read, WaitEmpty, Lock, Unlock, PostFull, LearnPeer, historyVars,
     Pipe!pipeVars
<1>3. CASE ReceiverFails
  BY <1>3 DEF ReceiverFails, historyVars, Pipe!Exit
<1>4. ASSUME NEW s \in Senders, SenderWait(s) \/ SenderWork(s)
      PROVE  Pipe!Exit \/ UNCHANGED Pipe!pipeVars
  BY <1>4 DEF SenderWork, SenderWait, SenderLock, SenderFails, SenderPop, SenderUnlock,
     SenderPost, historyVars, Pipe!pipeVars, Pipe!Exit
<1>5. CASE UNCHANGED vars
  BY <1>5 DEF vars, historyVars, Pipe!pipeVars
<1> QED
  BY <1>1, <1>2, <1>3, <1>4, <1>5 DEF Next, Stopped

\* Whatever the two senders and the main thread do, the window is a bounded
\* first-in-first-out pipe between LDP::send and sendto.
THEOREM WindowIsAPipe == Spec => PipeSafe
<1>1. Init => Pipe!Init
  BY InitPipe
<1>2. IInv /\ IInv' /\ [Next]_vars => [Pipe!Next]_(Pipe!pipeVars)
  <2> SUFFICES ASSUME IInv, IInv', [Next]_vars PROVE [Pipe!Next]_(Pipe!pipeVars)
    OBVIOUS
  <2>1. CASE running /\ Push
    <3>1. [text |-> line.text, offset |-> offset] \in Packets
      BY <2>1 DEF IInv, SafetyInv, TypeOK, LoopInv, Push, Packets, SendSteps,
         LongestLine
    <3> QED
      BY <2>1, <3>1, PushPuts DEF Pipe!Next
  <2>2. ASSUME NEW s \in Senders, running, SenderSend(s) PROVE Pipe!Next
    BY <2>2, SendGets DEF Pipe!Next
  <2>3. CASE ~(running /\ Push) /\ \A s \in Senders : ~(running /\ SenderSend(s))
    BY <2>3, OtherSteps DEF Pipe!Next
  <2> QED
    BY <2>1, <2>2, <2>3
<1> QED
  BY <1>1, <1>2, InvAlways, PTL DEF Spec, SafeSpec, PipeSafe, Pipe!SafeSpec
=============================================================================
