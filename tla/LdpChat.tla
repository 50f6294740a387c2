------------------------------- MODULE LdpChat -------------------------------
(***************************************************************************)
(* Two endpoints, a client and a server, and the network between them, with *)
(* troll in the middle: it loses, repeats, damages and overtakes datagrams. *)
(*                                                                         *)
(* An endpoint is taken as LdpSendPath and LdpReceivePath show it to be:    *)
(* LDP::send puts packets in a first in, first out window, from which they  *)
(* reach sendto one at a time; the receiver thread holds one packet at a    *)
(* time and puts it in a queue from which it is printed.  There are no      *)
(* acknowledgements, no sequence numbers and no retransmissions in the code.*)
(***************************************************************************)
EXTENDS Integers, Sequences, FiniteSets

CONSTANTS Client, Server,  \* the two endpoints
          MaxPackets,      \* bound: how many packets each endpoint makes
          WindowCapacity,  \* WINDOW_CONTAINER_MAX_SIZE
          QueueCapacity,   \* MAX_REC_MESSAGE_Q_SIZE
          SocketSize,      \* how many datagrams a socket holds
          MaxFaults,       \* bound: how often the network does harm
          Started,         \* the endpoints that run from the beginning
          SetUps,          \* what setting up may come to at each endpoint
          ServerWaits      \* the user at the server types only after reading

Endpoints == {Client, Server}
Other(e)  == IF e = Client THEN Server ELSE Client

\* What createAndBindSocket may come to: the socket is bound and the address of the
\* peer looked up; it is bound and there is no address, at a server or at a client
\* whose look-up failed; no socket could be bound.  Its result and that of the
\* look-up are ignored, and the program goes on in any case.
Outcomes == {"known", "unknown", "unbound"}

ASSUME LdpChatAssumption ==
  /\ Client # Server
  /\ MaxPackets \in [Endpoints -> Nat]
  /\ WindowCapacity \in Nat \ {0}
  /\ QueueCapacity \in Nat \ {0} /\ SocketSize \in Nat \ {0}
  /\ MaxFaults \in Nat /\ Started \subseteq Endpoints /\ ServerWaits \in BOOLEAN
  /\ SetUps \in [Endpoints -> SUBSET Outcomes] /\ "known" \notin SetUps[Server]

VARIABLES
  status,   \* of each endpoint: "off", "running" or "exited"
  setUp,    \* what createAndBindSocket comes to there
  peer,     \* its chateeSockaddr: "set", or "unset" while it is uninitialised
  made,     \* how many packets LDP::send has made there
  window,   \* its senderWindow
  hand,     \* the packet its receiver thread holds, a sequence of at most one
  queue,    \* its receivedMessageQueue
  printed,  \* history: what it has printed
  lost,     \* history: its packets of which a copy was lost, and why
  network,  \* external: the datagrams it has sent and the network carries
  socket,   \* external: the datagrams in its socket
  faults    \* how often the network has done harm

senderVars   == << made, window >>
receiverVars == << hand, queue, printed >>
netVars      == << network, socket, faults >>
vars == << status, setUp, peer, senderVars, receiverVars, lost, netVars >>

\* The k-th packet of an endpoint is its number k.  A datagram is damaged where
\* the checksum covers it ("caught") or in its last byte ("missed"): see LdpPacket.
Damages      == {"none", "caught", "missed"}
Datagrams(e) == [packet : 1 .. MaxPackets[e], damage : Damages]

Running(e) == status[e] = "running"
Bound(e)   == setUp[e] # "unbound"

\* The address of the peer when LDP::listen returns: looked up, or uninitialised
\* until a datagram comes.
FirstPeer(e) == IF setUp[e] = "known" THEN "set" ELSE "unset"

Init ==
  /\ status = [e \in Endpoints |-> IF e \in Started THEN "running" ELSE "off"]
  /\ setUp \in [Endpoints -> Outcomes] /\ \A e \in Endpoints : setUp[e] \in SetUps[e]
  /\ peer = [e \in Endpoints |-> FirstPeer(e)]
  /\ made = [e \in Endpoints |-> 0]
  /\ window = [e \in Endpoints |-> << >>] /\ hand = window /\ queue = window
  /\ printed = window /\ network = window /\ socket = window
  /\ lost = [e \in Endpoints |-> {}] /\ faults = 0

Lose(e, n, why) == lost' = [lost EXCEPT ![e] = @ \cup {[packet |-> n, why |-> why]}]

-----------------------------------------------------------------------------
(* An endpoint *)

\* The user starts the program; it has set up what it could and its threads run.
Start(e) ==
  /\ status[e] = "off"
  /\ status' = [status EXCEPT ![e] = "running"]
  /\ UNCHANGED << setUp, peer, senderVars, receiverVars, lost, netVars >>

\* Variants of the steps below, as a slip in the code would make them: the runs
\* tell each of them from the code.

\* emplace_front for emplace_back.
Make_Front(e) ==
  /\ Running(e) /\ made[e] < MaxPackets[e] /\ Len(window[e]) < WindowCapacity
  /\ ServerWaits /\ e = Server => printed[e] # << >>
  /\ made' = [made EXCEPT ![e] = @ + 1]
  /\ window' = [window EXCEPT ![e] = << made'[e] >> \o @]
  /\ UNCHANGED << status, setUp, peer, receiverVars, lost, netVars >>

\* front without pop_front.
UdpSend_NoPop(e) ==
  /\ Running(e) /\ window[e] # << >> /\ Bound(e) /\ peer[e] = "set"
  /\ network' = [network EXCEPT ![e] = Append(@, [packet |-> Head(window[e]), damage |-> "none"])]
  /\ UNCHANGED << status, setUp, peer, senderVars, receiverVars, lost, socket, faults >>

\* isCorrupted is not looked at.
UdpReceive_Unchecked(e) ==
  /\ Running(e) /\ hand[e] = << >> /\ socket[e] # << >>
  /\ socket' = [socket EXCEPT ![e] = Tail(@)]
  /\ peer' = [peer EXCEPT ![e] = "set"]
  /\ hand' = [hand EXCEPT ![e] = << Head(socket[e]) >>]
  /\ UNCHANGED << status, setUp, senderVars, queue, printed, lost, network, faults >>

\* The address is not kept.
UdpReceive_Anonymous(e) ==
  LET d == Head(socket[e]) IN
  /\ Running(e) /\ hand[e] = << >> /\ socket[e] # << >>
  /\ socket' = [socket EXCEPT ![e] = Tail(@)]
  /\ IF d.damage = "caught"
       THEN Lose(Other(e), d.packet, "corrupted") /\ UNCHANGED hand
       ELSE hand' = [hand EXCEPT ![e] = << d >>] /\ UNCHANGED lost
  /\ UNCHANGED << status, setUp, peer, senderVars, queue, printed, network, faults >>

\* A packet that finds the queue full is thrown away.
UdpReceive_Impatient(e) ==
  /\ Running(e) /\ hand[e] = << >> /\ socket[e] # << >>
  /\ socket' = [socket EXCEPT ![e] = Tail(@)]
  /\ peer' = [peer EXCEPT ![e] = "set"]
  /\ hand' = IF Head(socket[e]).damage = "caught" \/ Len(queue[e]) = QueueCapacity
             THEN hand ELSE [hand EXCEPT ![e] = << Head(socket[e]) >>]
  /\ UNCHANGED << status, setUp, senderVars, queue, printed, lost, network, faults >>

\* The receiver does not wait for a free slot.
Enqueue_Unbounded(e) ==
  /\ Running(e) /\ hand[e] # << >>
  /\ queue' = [queue EXCEPT ![e] = Append(@, Head(hand[e]))]
  /\ hand' = [hand EXCEPT ![e] = << >>]
  /\ UNCHANGED << status, setUp, peer, senderVars, printed, lost, netVars >>

\* front without pop.
PrintMessage_NoPop(e) ==
  /\ Running(e) /\ queue[e] # << >>
  /\ printed' = [printed EXCEPT ![e] = Append(@, Head(queue[e]))]
  /\ UNCHANGED << status, setUp, peer, senderVars, hand, queue, lost, netVars >>

\* One turn of the loop of LDP::send.
Make(e) ==
  /\ Running(e) /\ made[e] < MaxPackets[e] /\ Len(window[e]) < WindowCapacity
  /\ ServerWaits /\ e = Server => printed[e] # << >>
  /\ made' = [made EXCEPT ![e] = @ + 1]
  /\ window' = [window EXCEPT ![e] = Append(@, made'[e])]
  /\ UNCHANGED << status, setUp, peer, receiverVars, lost, netVars >>

\* One turn of ldpPacketSender with an address to send to.
UdpSend(e) ==
  /\ Running(e) /\ window[e] # << >> /\ Bound(e) /\ peer[e] = "set"
  /\ network' = [network EXCEPT ![e] = Append(@, [packet |-> Head(window[e]), damage |-> "none"])]
  /\ window' = [window EXCEPT ![e] = Tail(@)]
  /\ UNCHANGED << status, setUp, peer, made, receiverVars, lost, socket, faults >>

\* Without one, the uninitialised address may be such that sendto accepts it,
\* and the packet goes nowhere.
UdpSendAstray(e) ==
  /\ Running(e) /\ window[e] # << >> /\ Bound(e) /\ peer[e] = "unset"
  /\ window' = [window EXCEPT ![e] = Tail(@)]
  /\ Lose(e, Head(window[e]), "astray")
  /\ UNCHANGED << status, setUp, peer, made, receiverVars, netVars >>

\* Or sendto returns -1, as it does without a socket, and the process exits.
UdpSendFails(e) ==
  /\ Running(e) /\ window[e] # << >>
  /\ ~Bound(e) \/ peer[e] = "unset"
  /\ status' = [status EXCEPT ![e] = "exited"]
  /\ UNCHANGED << setUp, peer, senderVars, receiverVars, lost, netVars >>

Sender(e) == UdpSend(e) \/ UdpSendAstray(e) \/ UdpSendFails(e)

\* ldpPacketReceiver up to the test of isCorrupted: the address of the sender is
\* kept, whatever the checksum says.
UdpReceive(e) ==
  LET d == Head(socket[e]) IN
  /\ Running(e) /\ hand[e] = << >> /\ socket[e] # << >>
  /\ socket' = [socket EXCEPT ![e] = Tail(@)]
  /\ peer' = [peer EXCEPT ![e] = "set"]
  /\ IF d.damage = "caught"
       THEN Lose(Other(e), d.packet, "corrupted") /\ UNCHANGED hand
       ELSE hand' = [hand EXCEPT ![e] = << d >>] /\ UNCHANGED lost
  /\ UNCHANGED << status, setUp, senderVars, queue, printed, network, faults >>

\* recvfrom returns -1: the socket was closed when it could not be bound.
ReceiverFails(e) ==
  /\ Running(e) /\ ~Bound(e)
  /\ status' = [status EXCEPT ![e] = "exited"]
  /\ UNCHANGED << setUp, peer, senderVars, receiverVars, lost, netVars >>

Receiver(e) == UdpReceive(e) \/ ReceiverFails(e)

\* The rest of ldpPacketReceiver, which waits for a free slot.
Enqueue(e) ==
  /\ Running(e) /\ hand[e] # << >> /\ Len(queue[e]) < QueueCapacity
  /\ queue' = [queue EXCEPT ![e] = Append(@, Head(hand[e]))]
  /\ hand' = [hand EXCEPT ![e] = << >>]
  /\ UNCHANGED << status, setUp, peer, senderVars, printed, lost, netVars >>

\* One turn of messageConsumer.
PrintMessage(e) ==
  /\ Running(e) /\ queue[e] # << >>
  /\ printed' = [printed EXCEPT ![e] = Append(@, Head(queue[e]))]
  /\ queue' = [queue EXCEPT ![e] = Tail(@)]
  /\ UNCHANGED << status, setUp, peer, senderVars, hand, lost, netVars >>

-----------------------------------------------------------------------------
(* External: the network and troll *)

\* The kernel of the other side takes a datagram; it has nowhere to put it if the
\* program does not run or has no socket, or the socket is full.
Deliver(e) ==
  LET o == Other(e)
      d == Head(network[e]) IN
  /\ network[e] # << >>
  /\ network' = [network EXCEPT ![e] = Tail(@)]
  /\ IF Running(o) /\ Bound(o) /\ Len(socket[o]) < SocketSize
       THEN socket' = [socket EXCEPT ![o] = Append(@, d)] /\ UNCHANGED lost
       ELSE Lose(e, d.packet, "unreceived") /\ UNCHANGED socket
  /\ UNCHANGED << status, setUp, peer, senderVars, receiverVars, faults >>

Without(s, i) == SubSeq(s, 1, i - 1) \o SubSeq(s, i + 1, Len(s))

\* What troll makes of the datagrams under way when it drops, repeats, damages or
\* brings forward the i-th.
Drop(s, i)      == Without(s, i)
Repeat(s, i)    == Append(s, s[i])
Damage(s, i, d) == [s EXCEPT ![i].damage = d]
Overtake(s, i)  == << s[i] >> \o Without(s, i)

Fault(e) ==
  /\ faults < MaxFaults
  /\ faults' = faults + 1
  /\ \E i \in 1 .. Len(network[e]) :
       \/ /\ network' = [network EXCEPT ![e] = Drop(@, i)]
          /\ Lose(e, network[e][i].packet, "dropped")
       \/ /\ \/ network' = [network EXCEPT ![e] = Repeat(@, i)]
             \/ i > 1 /\ network' = [network EXCEPT ![e] = Overtake(@, i)]
             \/ /\ network[e][i].damage = "none"
                /\ \E d \in Damages \ {"none"} :
                     network' = [network EXCEPT ![e] = Damage(@, i, d)]
          /\ UNCHANGED lost
  /\ UNCHANGED << status, setUp, peer, senderVars, receiverVars, socket >>

-----------------------------------------------------------------------------
(* The chat *)

\* Nothing is under way any more.
Quiet ==
  /\ \A e \in Endpoints :
       /\ status[e] # "off" /\ network[e] = << >>
       /\ Running(e) => /\ window[e] = << >> /\ socket[e] = << >>
                        /\ hand[e] = << >> /\ queue[e] = << >>
                        /\ \/ made[e] = MaxPackets[e]
                           \/ ServerWaits /\ e = Server /\ printed[e] = << >>
  /\ UNCHANGED vars

Next ==
  \/ \E e \in Endpoints : \/ Start(e) \/ Make(e) \/ Sender(e)
                          \/ Receiver(e) \/ Enqueue(e) \/ PrintMessage(e)
                          \/ Deliver(e) \/ Fault(e)
  \/ Quiet

\* The threads of both endpoints and the network make progress, as the live runs
\* of LdpSendPath and LdpReceivePath show of the threads.  Nothing is promised of
\* the users, who may not start a program and stop typing when they like.
Fairness ==
  \A e \in Endpoints : /\ WF_vars(Sender(e)) /\ WF_vars(Receiver(e))
                       /\ WF_vars(Enqueue(e)) /\ WF_vars(PrintMessage(e))
                       /\ WF_vars(Deliver(e))

Spec == Init /\ [][Next]_vars /\ Fairness

-----------------------------------------------------------------------------
(* Properties *)

\* The variables have their types; the window, the queue and the hand of the
\* receiver hold no more than they may.
TypeOK ==
  /\ status \in [Endpoints -> {"off", "running", "exited"}]
  /\ setUp \in [Endpoints -> Outcomes] /\ peer \in [Endpoints -> {"set", "unset"}]
  /\ faults \in 0 .. MaxFaults
  /\ \A e \in Endpoints :
       /\ made[e] \in 0 .. MaxPackets[e]
       /\ window[e] \in Seq(1 .. MaxPackets[e]) /\ Len(window[e]) <= WindowCapacity
       /\ \A s \in {network[e], socket[Other(e)], hand[Other(e)], queue[Other(e)],
                    printed[Other(e)]} : s \in Seq(Datagrams(e))
       /\ Len(hand[e]) <= 1 /\ Len(queue[e]) <= QueueCapacity /\ Len(socket[e]) <= SocketSize
       /\ lost[e] \subseteq [packet : 1 .. MaxPackets[e],
                             why : {"astray", "unreceived", "dropped", "corrupted"}]

\* The copies of packets of e on the far side of its sendto, in no order.
Copies(e) == LET o == Other(e)
             IN  network[e] \o socket[o] \o hand[o] \o queue[o] \o printed[o]

PacketsOf(s) == { s[i].packet : i \in 1 .. Len(s) }
InWindow(e)  == { window[e][i] : i \in 1 .. Len(window[e]) }
LostOf(e)    == { l.packet : l \in lost[e] }

\* Neither program repeats a packet or loses one on its own: every packet made
\* is in the window, under way, printed, or of those whose loss has a reason
\* outside the two programs or is writing before there is an address to write to;
\* and there are no more copies than packets and repetitions of the network.
Accounted ==
  \A e \in Endpoints :
    /\ 1 .. made[e] = InWindow(e) \cup PacketsOf(Copies(e)) \cup LostOf(e)
    /\ Len(window[e]) + Len(Copies(e)) <= made[e] + faults
    /\ \A l \in lost[e] : /\ l.why = "astray" => setUp[e] = "unknown"
                          /\ l.why \in {"dropped", "corrupted"} => faults > 0

\* On a network that does no harm, packets may be lost (the other program does
\* not run yet, its socket overflows, there was no address to write to), but those
\* that are printed are printed once, in order and undamaged.
InOrder ==
  faults = 0 =>
    \A e \in Endpoints : \A i, j \in 1 .. Len(printed[e]) :
      /\ i < j => printed[e][i].packet < printed[e][j].packet
      /\ printed[e][i].damage = "none"

\* Of damaged packets only those are printed that are wrong in the last byte.
OnlyLastByteSlips ==
  \A e \in Endpoints : \A i \in 1 .. Len(printed[e]) : printed[e][i].damage # "caught"

\* sendto and recvfrom make a program exit only if its set-up left it without an
\* address or a socket, and never once it has printed anything: receiving a packet,
\* even a damaged one, gives it an address.
KeepsUp == \A e \in Endpoints :
             status[e] = "exited" => setUp[e] # "known" /\ printed[e] = << >>

\* Neither direction can hold up the other or itself: every packet made is
\* printed or lost in the end, unless one of the programs is not started or exits.
Settles ==
  \A e \in Endpoints : \A n \in 1 .. MaxPackets[e] :
    made[e] >= n ~> \/ n \in PacketsOf(printed[Other(e)]) \cup LostOf(e)
                    \/ \E o \in Endpoints : ~Running(o)

\* Where the network does no harm, both programs are started and set up well, and
\* the user at the server waits to be written to, each direction of the chat is a pipe from
\* LDP::send to the other screen.
Numbers(n)         == [k \in 1 .. n |-> k]
PrintedNumbers(e)  == [k \in 1 .. Len(printed[e]) |-> printed[e][k].packet]
BothRun            == Running(Client) /\ Running(Server)

ClientToServer == INSTANCE PacketPipe WITH
  Items <- 1 .. MaxPackets[Client], Capacity <- MaxPackets[Client], running <- BothRun,
  entered <- Numbers(made[Client]), left <- PrintedNumbers(Server)

ServerToClient == INSTANCE PacketPipe WITH
  Items <- 1 .. MaxPackets[Server], Capacity <- MaxPackets[Server], running <- BothRun,
  entered <- Numbers(made[Server]), left <- PrintedNumbers(Client)

ClientPipe == ClientToServer!Spec
ServerPipe == ServerToClient!Spec

\* "The best reliable data transmission protocol": what the client sends to a
\* server that runs is printed there.
Reliable == \A n \in 1 .. MaxPackets[Client] :
              made[Client] >= n ~> n \in PacketsOf(printed[Server])
=============================================================================
