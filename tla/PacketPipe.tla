----------------------------- MODULE PacketPipe -----------------------------
(***************************************************************************)
(* What the sender window and the queue of received messages of an LDP     *)
(* object promise to their users: a pipe.  Items leave it in the order     *)
(* they entered it, none is lost, repeated or made up, at most Capacity of *)
(* them are inside, and every item that entered leaves, as long as the     *)
(* process runs.                                                           *)
(***************************************************************************)
EXTENDS Integers, Sequences

CONSTANTS Items,     \* what may travel through the pipe
          Capacity   \* how many items fit in it

VARIABLES entered,   \* the items put in so far
          left,      \* the items that came out so far
          running    \* the process has not called exit

pipeVars == << entered, left, running >>

Init == entered = << >> /\ left = << >> /\ running = TRUE

Put(item) ==
  /\ running /\ Len(entered) - Len(left) < Capacity
  /\ entered' = Append(entered, item)
  /\ UNCHANGED << left, running >>

Get ==
  /\ running /\ Len(left) < Len(entered)
  /\ left' = Append(left, entered[Len(left) + 1])
  /\ UNCHANGED << entered, running >>

Exit == running /\ running' = FALSE /\ UNCHANGED << entered, left >>

Next == (\E item \in Items : Put(item)) \/ Get \/ Exit

SafeSpec == Init /\ [][Next]_pipeVars

Spec == SafeSpec /\ WF_pipeVars(Get)
=============================================================================
