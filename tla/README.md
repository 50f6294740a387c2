# Three chat programs, modelled and checked

A verification project for this repository: above all the chat program it is
about, `client` and `server`, two endpoints that exchange lines of text over LDP,
the "Lutfullah Data Protocol", on top of UDP (`ldp.cpp`, `ldp.h`, `client.cpp`,
`server.cpp`); and the two chat servers for many clients kept beside it,
Chatapp-Terminal ("kod 2") and Multithreaded-Chat ("kod 3").
Everything below is translated from the source; where a comment says something
else than the code, the models follow the code and a run shows the difference.

## 1. Inventory

| Component | State | Operations | Interacts by |
|---|---|---|---|
| `LDPPacket` | checksum, flags, two numbers, 8 bytes of payload | constructor, `encode`, `decode`, `calculateChecksum` | called by both halves of `LDP` |
| `LDP`, sending half | `senderWindow` and its mutex and two semaphores, `chateeSockaddr`, `sockfd` | constructors, `createAndBindSocket`, `initializeThreadMhreadEtcMtc`, `send`, `ldpPacketSender`, `udpSend` | the main thread produces, two sender threads consume; `exit(1)` when `sendto` fails |
| `LDP`, receiving half | `receivedMessageQueue` and its mutex and two semaphores, `isListening`, `onMessage` | `listen`, `ldpPacketReceiver`, `udpReceive`, `messageConsumer`, `deliverData` | the receiver thread produces, the consumer thread calls back into `Chatter`; writes `chateeSockaddr`, which the senders read |
| `Chatter` | the buffer of `fgets` | constructors (which never return), `sendMessage`, `printMessage` | main thread of both programs |
| the network and `troll` (external) | datagrams under way | loses, repeats, damages, reorders | `sendto`, `recvfrom` |
| Chatapp-Terminal server (kod 2) | `private.json`, `groups.json`, `messages.json`, one mutex, `clientMap` | a thread per connection serves AUTHENTICATE, REGISTER, ADD, CHAT, SEND, GROUP, MAP, PENDING, EXIT and the look-ups, SENDFILE | TCP; threads meet in the files, the mutex and `clientMap` |
| Chatapp-Terminal client (kod 2) | its id, the chat it is in, two connections | log-in, registration, the menu, the chat; a second thread prints what comes | TCP; the next answer is taken for the answer to the last request |
| jsoncpp (kod 2) | vendored library | | |
| Multithreaded-Chat (kod 3) | `clientSockets`, `serverReadFds` and `numClients` under a mutex; a ring buffer of pointers under another, with two condition variables | `newClientHandler`, `clientHandler`, `removeClient`, `messageHandler`, `queuePush`, `queuePop` | a connection thread, a thread per client (producers), a message thread (consumer) |
| TCP example | none that is shared | fork per connection | TCP |
| `totroll`, `fromtroll` | a counter | send, print | UDP |

The directories named "internetten caldigim" ("stolen from the internet") hold
downloaded examples that are neither built nor called by the two programs. Two of
them are servers with threads and shared state of their own, and are modelled as
systems apart; nothing connects them to LDP.

What is hard, and what makes each part correct:

* *Packet.* The checksum is a one's complement sum over an odd number of bytes,
  with carries, computed in the byte order of the machine. Correct: decoding
  undoes encoding, a wrong byte is noticed, a line is cut so that its pieces
  spell it and only the last one holds the NUL.
* *Sending half.* `initializeThreadMhreadEtcMtc` runs **twice**, in the
  constructor of `LDP` and at the end of `createAndBindSocket`. Two sender
  threads exist, and the second run initialises mutex and semaphores while the
  first thread may already wait on them. Correct: the deque has one user at a
  time, no permit is lost or made up, packets reach `sendto` once and in order,
  `send` returns, every packet is sent.
* *Receiving half.* Set-up races with the new threads; a full queue stops the
  receiver and the socket overflows behind it. Correct: the receiver does not
  end, what passes the checksum is printed once and in order.
* *The whole chat.* Programs start in any order, datagrams are lost, repeated,
  damaged, overtaken; the server does not know whom to write to until it has
  been written to. Correct: the programs themselves lose and repeat nothing,
  neither direction can block the other, nothing damaged but in its last byte is
  printed, and a program exits only if its set-up left it without an address or a
  socket.
* *Chatapp-Terminal.* Every thread parses a whole file under the mutex, works on
  its copy with the mutex free, and writes the whole copy back under the mutex, so
  that copies go stale; a parse that fails returns with the mutex locked; answers
  carry no request number; `clientMap` keeps descriptors of clients that are gone;
  the process may die with a file half written. Correct: friendships and requests
  fit together in every version of the accounts, a request is answered once, a text
  reaches whom it was sent to, the server is not wedged while it lives.
* *Multithreaded-Chat.* Client threads look at `full` with no lock and wait with a
  mutex they do not hold; the list of clients is used before it is written to, and
  read with no lock; descriptors are reused. Correct: messages come out of the ring
  in order, the message thread misses no wake-up, the list names open descriptors,
  every descriptor that stays listed is written to, messages do not pile up.

The full list of hazards, each at its line and with the properties that watch
it, is in `PROJECT.json`.

## 2. Modules

```
LdpPacket ------ MCLdpPacket        PacketPipe  (abstract: a bounded, lossless FIFO)
    \--- LdpPacketProofs               ^    ^    ^
LdpSendPath ---- MCLdpSendPath --------'    |    |   refines
    \--- LdpSendPathProofs                  |    |
LdpReceivePath - MCLdpReceivePath ----------'    |
    \--- LdpReceivePathProofs                    |
LdpChat -------- MCLdpChat ----------------------'
    \--- LdpChatProofs

ChatappStore --- ChatappServer --- MCChatappServer
                     \--- ChatappProofs --- ChatappTalkProofs --- ChatappTruthProofs
MtChat --------- MCMtChat
    \--- MtChatProofs
```

**`LdpPacket`** follows one line of text through the loop of `LDP::send`:
`Build` is the constructor `LDPPacket(message, n)`, `Encode` is `encode` in
`udpSend`, `Garble` (external) replaces one byte on the wire, `Decode` is
`decode` in `udpReceive`. Bytes, words and the checksum are modelled
arithmetically: 16 bit little-endian words as on the x86-64 of the committed
binaries, the loop that folds the carries as two folds (a sum of six words and a
byte never needs more). The bytes of a payload after its NUL are never
written by the constructor; they are any of `StaleBytes`. Every packet has
the constant flags and numbers of the constructor (`seqNumber` 123, `ackNumber`
789).

**`LdpSendPath`** is one endpoint from the constructor to `sendto`: the main
thread steps through `Ctor`, `BindSucceeds`/`BindFails`, `InitMutex`,
`InitEmpty`, `InitFull` (the second initialisation, one step per call),
`CreateSender`, `Listen`, then reads lines (`Read`) and sends them (`WaitEmpty`,
`Lock`, `Push`, `Unlock`, `PostFull`). Each of the two sender threads steps
through `SenderWait`, `SenderLock`, `SenderSend`/`SenderFails`, `SenderPop`,
`SenderUnlock`, `SenderPost`. A semaphore is its counter, a mutex its holder.
`peer` is `chateeSockaddr`, "unset" while it is uninitialised; `sendto` with such
an address either fails (and the process exits) or happens to go through.
At the end of the input `fgets` leaves the buffer as it is and the code, which
ignores its result, sends it again: `Read` has that alternative. Before the first
line the buffer holds whatever was there (`text` 0).

**`LdpReceivePath`** is one endpoint from `recvfrom` to the screen: set-up, the
receiver thread (`CheckListening`, `UdpReceive`, `ReceiverWait` .. `ReceiverPost`),
the consumer thread (`ConsumerWait` .. `ConsumerPost`, `OnMessage`). The socket is
an external queue that drops what it has no room for. A datagram has a payload
and is corrupted or not; which bytes that takes is the subject of `LdpPacket`. A
datagram shorter than 15 bytes is decoded with whatever the buffer held: any
payload, corrupted or not, which is what `Arrive` allows.

**`PacketPipe`** is the abstract specification of both: items go in (`Put`), come
out in the same order (`Get`), at most `Capacity` are inside, each of them comes
out as long as the process runs.

**`LdpChat`** composes two endpoints and the network at the grain of one packet.
An endpoint is what the two path modules show: a FIFO window emptied by `UdpSend`,
a receiver that holds one packet and a FIFO queue. `Fault` is troll: `Drop`, `Repeat`,
`Damage`, `Overtake`. A datagram is damaged where the checksum looks or in its last
byte, and in one byte at most. `setUp` is what `createAndBindSocket` comes to: "known",
the client has looked its peer up; "unknown", the socket is bound and `chateeSockaddr`
uninitialised, at every server and at a client whose `getaddrinfo` failed (its result is
ignored); "unbound", no socket could be bound, and no look-up is tried. The program
goes on in each case. Without a socket the first call of `sendto` or `recvfrom`
ends it; without an address a packet may make `sendto` fail or go to nobody.

**`ChatappStore`** is what the Chatapp-Terminal server computes: one operator for
each thing a request does to a parsed document (`SignedIn`, `Registered`,
`Befriended`, `Members`, `Left`, `Cleared`) or answers from it (`Authenticated`,
`AddAnswers`, `FriendNamed`, `LastPending`). `private.json` is a function from ids to
accounts, `groups.json` one from names to sets of ids, `messages.json` one from
pairs of receiver and sender to sequences of texts. What the code does by accident is
kept: `users[id]` makes a null account for an unknown id, which is written back;
REGISTER compares where it means to assign (`id == "0"`) and refuses nobody; ADD
goes by the last account with a name and asks its own list whether the other's is
null; SEND asks whether texts wait for the *sender* before it appends to those of
the receiver; PENDING sends only the last text and clears all.

**`ChatappServer`** is the threads, the files and the clients. A thread is a
connection. In `Authenticate`, `Register`, `Add`, `Chat`, `TakeGroups`, `Send`, `Map`,
`Exit` and `Look` it takes its next request and parses `private.json` under the
mutex, which is one step, as everybody else who opens that file needs the mutex;
what it goes on with is its copy (`job`). `ListGroups`, `ChatGroup`, `MakeGroup`,
`SendGroup` and `Leave` parse a second file the same way, `Pending` parses
`messages.json` with no lock. `BeginSave` locks and truncates, `EndSave` completes
and unlocks, and another thread's step may come between any two of these. A text for
somebody online goes to `clientMap[id]`, which makes an entry with descriptor 0 (`Stdin`)
when there is none (`LookedUp`): somebody can be online in the file, after a crash or
before his MAP has come, and not be in the map.
`ParseFails` returns with the mutex locked, as the code does. `Crash` ends the process
anywhere and starts it again with the files as they are: it stands for a stop by
hand, the SIGPIPE of a write to a client that is gone, the unlocked `clientMap` and the
end of the accept loop. The client's steps are `LogIn`, `SignUp`, `Command`, `Misuse` (a
chat or add with the wrong words: the client sends nothing and waits all the same),
`ReadAnswer`, `Say`, `LeaveChat`, `Quit` and `Killed`.

**`MtChat`** is the Multithreaded-Chat server: the main thread (`Prepare`), the
connection thread (`Accept`, `List`, `TurnAway`, `Create`, `Count`), the thread of a client
(`Start`, `Read`, `Unlist`, `Close`, `Wait`, `Woken`, `Push`, `Flags`, `Signal`) and the
message thread (`Sleep`, `Take`, `TakeFlags`, `SignalRoom`, `Look`, `Write`). A push and
a pop are two steps each, the entry and the flags, since `full` and the list are read
with no lock; so are the creation of a thread, which runs at once, and the counting of
its client. `FirstData` is what the stack held where `clientSockets` and
`serverReadFds` are: any descriptors, zero or junk. `strewn` keeps which descriptor
numbers `clientSockets` held by chance, `due` which of the slots that were listed when a
broadcast began, and still are, it has not written to. A `Write` to somebody who is there
may block for as long as he does not read (`Blocked`). `chv` is the one variable through
which descriptors are handed to
threads; descriptors are reused, lowest first. `caller` is the client the connection
was accepted from: by the time `Create` starts its thread, another thread that got
the same number from `chv` may have closed the descriptor, so that it no longer says
who is meant.

Each specification module holds *variants* of some of its definitions
(`..._Missing`, `..._Newest` and so on): the definition as a slip in the code
would make it. They are not part of the specification; each of them makes a
property fail, which is how we know that the property watches that line.

## 3. What the runs check

| Run | Instance | Shows |
|---|---|---|
| `LdpPacket_wire` | 13 lines, lengths around 8, 16 and 24; two values of an unwritten byte; one wrong byte out of eight values at each of 15 positions | `RoundTrip`, `SingleGarbleCaught`, `TextArrives` |
| `LdpPacket_leftover` | the same | **violated**: `LeftOverByteCaught` |
| `LdpSendPath_all` | window of 2, lines of 1, 2 and 3 packets, 2 reads | `DequeSafe`, `PermitsAccounted`, `InOrder`, `SendReturns`, refinement of `PacketPipe` |
| `LdpSendPath_astray` | one read | **violated**: `NoPacketAstray` |
| `LdpReceivePath_all` | queue of 2, socket of 2, 5 arrivals, 2 payloads | `QueueSafe`, `PermitsAccounted`, `InOrder`, `ReceiverStaysUp`, `ReceiverReturns`, refinement of `PacketPipe` |
| `LdpChat_faults` | window 2, queue 1, socket 1, 3 packets one way and 1 the other, 2 faults, programs started in any order, set-up with any outcome | `Accounted`, `InOrder`, `OnlyLastByteSlips`, `KeepsUp`, `Settles` |
| `LdpChat_pipes` | no faults, both programs set up and started, the server waits to be written to, 3 and 2 packets | each direction refines `PacketPipe` |
| `LdpChat_reliable` | one fault, only the client writes | **violated**: `Reliable` |

| `Chatapp_all` | 2 clients, 5 ids, accounts of three users (two of one name, one open request, one group) or of two friends of one name with a gap between their ids, 4 inputs, 1 crash | `FriendshipsSound`, `Aligned`, `Owed`, `Genuine`, `MapOpen`, `WedgedOnlyByCrash`, `TornStays` |
| `Chatapp_register` | one account, no crash | **violated**: `OwnAccount` |
| `MtChat_all` | ring and list of 2, 3 clients, 3 inputs; `clientSockets` all zero, with junk in the first slot, or with the number of the first descriptor in the last | `RingSound`, `WakerAtHand`, `SlotsOpen`, `AllHear`, `Drains` |
| `MtChat_gap` | 2 clients, 3 inputs, storage that is zero | **violated**: `AllReached` |

Every module has one type invariant, `TypeOK`, checked with the rest.

### Bounds

`MaxReads`, `MaxArrivals`, `MaxPackets` and `MaxFaults` bound counters the
program does not bound; each is large enough for the window or the queue to fill,
to wrap around and to empty again (three packets through a window of two, five
arrivals through a queue of two with a socket of two behind it), which is where
producers, consumers and the overflow meet. The capacities stand for 1024 and
13; the protocols of the semaphores do not depend on them, which the proofs
below confirm. Two faults are the least that can damage a
repeated packet or drop one that has been overtaken. In `LdpPacket_wire` the
wrong byte takes the values around 0, the sign bit and 255, which are those that
change carries; the proofs below cover all of them.

`Chatapp_all`: `MaxTyped` counts everything that comes from outside, log-ins,
commands, lines, closed clients and the crash alike, and an input after which no
file changes counts twice; with 4 of them two clients log in and each send one request
that writes, or one logs in and adds, chats and leaves, or a crash meets a write. Ids
start at 1 and an id stays below 10, so that keys come in the order of the numbers.
`MtChat_all`: `MaxTyped` counts lines, reads at the end of a stream, clients that are
killed and, twice, a third client, which finds the list full or takes the place of one
that left. A ring of 2 is full after two messages and wraps at the third.

### Fairness

Threads are scheduled and locks are granted: weak fairness of the steps of each
thread. One exception: a thread that waits on a semaphore while `sem_init` runs
on it is, in glibc, no longer counted as a waiter. A later `sem_post` then need
not wake *it*. What remains true is that *some* sender takes a permit, so the
fairness of `SenderWait` is stated for the two senders together and not for
each. That is enough for `SendReturns` and `PipeSpec`. The receiving half needs
no such exception: its second initialisation is over before its threads exist.
The user is never forced to type (`Read`, `Make`, `Start` have no fairness), nor
the network to deliver what it has dropped.

`MtChat` has weak fairness of each thread of the server while the process lives, and
none of the clients, who need not read: a write to somebody who is there is not fair, it
may block for ever, and then nothing is taken any more. `Drains` makes that exception
(`<>[]Blocked`), and ends with the first client thread that finds no room (`rough`). A
mutex is taken by weakly fair threads, which suffices because only finitely many things
are typed. `ChatappServer` states safety
only: a wedged mutex stops everybody, so that nothing need ever happen.

## 4. What the runs found

* `LdpPacket_leftover`: `calculateChecksum` adds `data[n - 1]` with `n` already 1,
  which is the first byte of the body for the second time, and never the last
  one (`ldp.cpp:208-211`, "Add left-over byte, if any"). The last byte of every
  payload is unprotected.
* `LdpSendPath_astray`: the server's senders use `chateeSockaddr` before anything
  was received, against `ldp.h:145` ("The connection starts when the server
  receives a message") and the open point in `ldp.cpp:17`.
* `LdpChat_reliable`: nothing is retransmitted (`ldp.h:4`, "The best reliable data
  transmission protocol").

* `Chatapp_register`: a login that parsed `private.json` before a registration and writes
  after it removes the new account, whose owner goes on with an id that belongs to
  nobody, or to whoever registers next (against `Client/utils.h:94`).

* `MtChat_gap`: the broadcast looks at the first `numClients` slots and `removeClient` leaves
  gaps, so that a client behind a gap is written to no more, against `server.c:343`
  ("Broadcast message to all connected clients").

In Chatapp-Terminal, on the other hand, stale copies turn out to keep friendships
mutual: each request leaves the accounts of the copy it parsed fitting together,
and the whole copy is written. That ends when REGISTER gives out an id that is taken,
which the properties name (`reused`). The shipped `private.json` has friendships on
one side only, so the starting files are assumed sound instead (`Sound`).

In Multithreaded-Chat the ring is sound and drains until the first client thread finds it
full (`rough`): then it waits with a mutex it does not hold, or, because it looked at `full`
before it locked the mutex (`server.c:309-315`), pushes over a message that was not taken,
and no promise is left to check. The list is never
set up. A number that lies in it by chance, and is later that of a client, stays in it
when that client has left, and whoever gets the number next is written to through two
slots; a thread that cannot be created leaves its closed descriptor behind. `SlotsOpen`
says that there are no closed descriptors in the list but these (`strewn`, `failed`).
`AllHear` makes no such exception: whatever is in one of the first `numClients` slots
for the whole of a broadcast is written to.

The second initialisation and the accidental second sender thread, on the other
hand, turn out to be harmless for safety: no permit exists yet that could be
lost, and the mutex covers `sendto` and `pop_front` together, so that order is
kept.

## 5. What is proved

All proofs are checked by TLAPS for every value of the constants that satisfies
the named assumption of the module (capacities and sizes are positive, line
lengths are at most what `fgets` can return, bytes are bytes).

`LdpSendPathProofs`, about `LdpSendPath`:

* `TypeCorrect`, `DequeIsSafe`, `PermitsAreAccounted`, `SentInOrder`:
  `Spec => []P` for the four invariants of the run.
* `WindowIsAPipe`: the sending half implements the safety part of `PacketPipe`.

None of them is inductive by itself. The inductive invariant `IInv` adds: who
holds the mutex is inside the critical section and conversely (`MutexInv`); until
the second initialisation is over nothing has been produced, no sender has
passed its semaphore and every counter is at its initial value (`BootInv`: this is
why that initialisation loses nothing); where the loop of `send` stands
(`LoopInv`); and that what was sent followed by the deque, less the packet being
popped, *is* what was produced (`FifoInv`). The permits are needed to show that
the deque is not empty when a sender takes its first packet, and its size is
bounded because both semaphores are never negative.

`LdpReceivePathProofs`, about `LdpReceivePath`:

* `TypeCorrect`, `QueueIsSafe`, `PermitsAreAccounted`, `PrintedInOrder`,
  `ReceiverIsUp`: `Spec => []P` for the five invariants of the run.
* `QueueIsAPipe`: the receiving half implements the safety part of `PacketPipe`.

The inductive invariant is the same in kind: the holder of the mutex is in the
critical section (`MutexInv`); nothing is used before it is set up, and
`isListening` is set before the receiver exists (`BootInv`, which is all
`ReceiverStaysUp` needs); a thread with a packet or a message in its local variable
has set it (`LocalInv`); and the consumer's message, the queue and the receiver's
packet are, in this order, what was accepted and is not printed yet (`FifoInv`).
The receiver that is back at `recvfrom` holds nothing, so that the queue and the
consumer hold at most `Capacity + 1`: there is room for what it accepts next.

`LdpPacketProofs`, about `LdpPacket`:

* `OneByteChangesTheChecksum`, `LastByteIsNotCovered`: for *any* body and any
  other byte. The argument: a folded sum is the sum modulo 2^16 - 1 and 0 is not
  confused with 2^16 - 1 (`FoldIsModulo`); replacing a byte moves the sum by its
  weight times the difference, which is not 0 and less than 2^16 - 1
  (`OneByteMoves`, `SmallStep`), and two sums that close to each other fold differently
  (`CloseSumsDiffer`). The weight of the last byte is 0.
* `DecodeUndoesEncode`: for every packet.
* `UndisturbedPacketsArrive`, `OneWrongByteIsCaught`: `Spec => []RoundTrip` and
  `Spec => []SingleGarbleCaught`, from an inductive invariant that says which bytes
  on the wire differ from those of the packet (`OnTheWire`).
* `LineArrives`: `Spec => []TextArrives`. The invariant `Cut` says that the payload of the
  packet at hand spells the line from where the loop of `LDP::send` stands, or stood when the
  packet was built, and its NUL if the line ends there; since no character of the line is the
  NUL, the loop goes on exactly when the payload has none.
* `TypeCorrect`: the type invariant of the module.

`LdpChatProofs`, about `LdpChat`, for any window, queue and socket, any number of packets and
any number of faults:

* `TypeCorrect`, `PrintedInOrder`, `NothingCaughtIsPrinted`, `ExitsOnlyUnaddressed`,
  `PacketsAreAccounted`: `Spec => []P` for the five invariants of `LdpChat_faults`.
* `CalmChatIsTwoPipes`: in a calm chat both directions implement the safety part of
  `PacketPipe`.

`ExitsOnlyUnaddressed` says that only a program which set-up left without an address or a
socket ever exits, and that it has printed nothing.

The two directions of a chat share programs but no packets, and the proof treats them one
at a time. A direction is the record `Way(e)`: how many packets were made, the window, what
was lost, and five *lanes*, the places a packet passes through: the network, the
socket, the hand of the receiver, the queue and the screen. Each step of `Next` is, for each
direction, one of a few moves of a record (`WaySteps`): a packet is made, sent,
moved on by one lane, lost with a reason, or harmed by the network; or the direction is
left alone. What has to be kept is then a fact about records (`WayKept`), in which no
action of the model occurs: the window holds the last packets made (`Windowed`); the packets
that left it are those in the lanes and those lost (`Traced`); there is one copy of
each, and one more for each fault at most (`Counted`); losses have reasons (`Reasoned`); what is
beyond `udpReceive` has passed the checksum and, without a fault, the lanes laid end to end
are in order and undamaged (`Checked`). `Accounted` by itself says nothing of order, and
`InOrder` nothing of the packets that are not printed yet: neither is inductive without the
other lanes. `KeepsUp` rests on `Addressed`: whoever holds, queues or has printed anything
has an address.

A chat is *calm* (`Calm`) as in the run `LdpChat_pipes`, but with any sizes: no faults, both
programs are set up and run from the beginning, the user at the server waits to be written to, and a socket
holds all the packets of one user. None of the four can be left out: a packet for a program that does
not run or whose socket is full is gone, and a server that writes first may exit. Then
`Calmly` is inductive as well: nothing is lost, and the lanes laid end to end are the packets
1, 2, 3, ... up to the last one that left the window (`Straight`), so that the next one
printed is the next one made (`PipeSteps`).

`MtChatProofs`, about `MtChat`, for any `MAX_BUFFER`, any number of clients and lines, and
any content of the storage that is used before it is written:

* `TypeCorrect`, `RingIsSound`, `WakerIsAtHand`, `ListedAreOpen`, `EverybodyHears`: `Spec => []P`
  for the five invariants of `MtChat_all`.

The inductive invariant has six parts. `Fit`: types; `numClients` is at least the number
of clients with a thread, but for one whose thread runs and is still to be counted, so that
it never goes below 0: that needs `ListLocked`, who has `clientListMutex`, as that thread
could otherwise end before it was counted; a client is let in once. `ListSound`: but for
`failed` and `strewn`, a descriptor is listed once, and one that a thread has taken off the
list is not on it again before it is closed. `RingHeld`: between a push or
a pop and the setting of its flags the ring holds one message more or less than the
flags say, and the thread in between has the mutex. The ring itself is treated as a list
with a head (`Place`, `RingHolds`): a push appends to it (`PushHolds`), a pop takes its
head (`PopHolds`), and head meets tail when it is empty or full (`HeadMeetsTail`), whatever
the number of slots. `Awake`: whoever clears `empty` goes on to `signal`. `CastSound`: what a
broadcast owes is listed in slots below `numClients`, and but for the descriptor the loop
has just read it has still to come to them, so that nothing is owed when it ends.

`ChatappProofs`, about `ChatappServer`, for any number of clients, accounts, inputs and
restarts:

* `StructureHolds`: the inductive invariant of the mutex and the files. A thread in
  `saving` has the mutex and is the only one; the holder otherwise is a thread that is
  gone, and then a file was torn; a file is torn while its writer is in `saving`, or
  there was a crash (`Locks`). A client that has not connected has no thread (`Fresh`), and
  jobs are records with a draft of a known file (`Jobs`).
* `WedgedOnlyByCrashHolds`, `TornStaysHolds`: the two properties, from `Structure`.
* `FitFilesHolds`, `FriendshipsSoundHolds`: the argument is that of the code taken
  request by request. `Fit` adds to `Sound` that accounts are records with sequences of
  ids for friends; each operator of `ChatappStore` that makes a new document makes a fit
  one from a fit one (`TouchFits`, `RequestFits`, `AcceptFits`, `RegisterFits`,
  `BefriendFits`); a document that is parsed or written is one of those. How old a copy
  is plays no part, and neither does the mutex.

`ChatappTalkProofs` goes on with the conversation of a client and its thread:

* `TalkHolds`: the inductive invariant. `Served` and `Disks` are types that say what fits
  together: a job has the draft, the receivers and the replies of its request, and those of
  the step its thread is at. `Queued`: requests come on the first connection of a
  client, MAP alone on the second. `Guests`: whoever has no id yet has asked
  only to log in or to register, and so only such a request or answer is on its way. `Answerings`: the
  answer that a client waits for is on its way once at most, as a request nobody has
  read, as the request its thread works on, or as a letter.
* `AlignedHolds`: an answer is about the latest request, from `Answerings`. That part has to
  make the exception of `Aligned`: once an id was given to two clients (`reused`), one is
  sent the answers of the other; but those without an id are still served properly, and
  without that the second log-in could not be followed.
* `OwedHolds`: whoever waits is being served. `Parting` adds to `Talk` that the thread
  of a client that is there has not been told to end, so that it is gone only if the mutex
  went with a thread before it (`Wedged`).

An action of `ChatappServer` touches a few of its variables. The proof first reduces each to a
kind of step: the server's thread reads on, answers or dies (`Turn`); the client asks,
waits in vain, is told, chats or leaves (`Spoken`). `Talk` and `Parting` are
then proved for kinds of steps.

`ChatappTruthProofs` is about where `clientMap` leads and where texts come from:

* `MapOpenHolds`: a user's entry in `clientMap` is descriptor 0, made by a look-up, or the
  second connection of a client that was given that id, and is open (`Maps`), because EXIT, which alone closes a descriptor,
  closes the first connection of its client and no other.
* `GenuineHolds`: a text is shown, stored and waiting for a user only if somebody sent it to him
  or to a group he was in. The argument is that of stale copies: texts lie in
  `messages.json`, in the drafts of threads that will write it, in requests and
  among the receivers a thread has left. What vouches for them, what was sent and who was ever a
  member of a group, only grows (`GrownStaysTrue`), so an old copy that overwrites
  a newer file loses texts but invents none (`Truth`).
* `TypeCorrect`: the type invariant, from `Talk`, `Truth`, `Structure` and the types
  of the other variables (`Rest`).

All three modules rest on `ChatappServerAssumption`: the starting files are of the right form, the
accounts are sound, no message waits.

Only model-checked: liveness (`SendReturns`, `ReceiverReturns`, `Settles`, `Drains` and
the fairness part of the refinements), which is outside the prover's reach; and what the
runs with a violation find, which are instances.

## 6. Not modelled

* `initiateChat`, `endChat`, `receiveMessage`, `isListening` and the mutexes of
  `Chatter`; `receiverWindow`; the 32 bit and single byte serialisers: no caller.
  `WINDOW_SIZE` (`ldp.h:46-61`) as a bound on the packets in the network: it is used
  for the size of `receivedMessageQueue` only (`ldp.h:73`).
* Failures of `pthread_create`, `sem_init` and of `sendto` for want of kernel
  memory: the code ignores the former, and the latter is an `exit` at any time.
* The data race on `chateeSockaddr` between receiver and senders beyond "unset or
  set", and a second correspondent who takes over the address.
* What the terminal shows of the bytes after the NUL of a payload, which
  `printMessage` writes as well.
* Chatapp-Terminal: SENDFILE and the `cache` directory, which nothing reads; dates,
  e-mail addresses and wording; a group whose name is a number; a text with the word
  TO in it; a frame that arrives in pieces, which the client's `readXBytes`
  (`Client/utils.cpp:94`) stores at the wrong offset; the buffer into which a log-in reads
  its id and which nothing terminates (`Client/utils.cpp:134-137`): `ReadAnswer` takes the id
  to be what was sent; what an answer that belongs to another request would do as a chat partner;
  more than one process on the same files.
* Multithreaded-Chat: what a message says. The ring holds pointers into the stack of
  the client threads, so that a message may have changed, or its memory may be gone, by
  the time it is broadcast. A partial read of the 1023 bytes a client writes. The
  terminal side of the client.
* The TCP example: its processes share nothing.
* jsoncpp, two copies of 7803 vendored lines, which are four fifths of the lines of C
  and C++ in the repository; what the server relies on is stated where it is used.
  Also `totroll` and `fromtroll` (test drivers of troll), the PDF and
  archive files.

## 7. Plan

1. Done: `LdpPacket`, `LdpSendPath`, `LdpReceivePath`, `PacketPipe`, `LdpChat`;
   proofs about the first three.
2. Done: the example servers, `ChatappStore` and `ChatappServer` with proofs, `MtChat`.
3. Done: every safety invariant that a passing run checks is a theorem, for each of the
   modules `LdpPacket`, `LdpSendPath`, `LdpReceivePath`, `LdpChat`, `MtChat` and `ChatappServer`.
4. Done: so is the safety part of each refinement of `PacketPipe` that a run checks.
5. What is left is what the prover cannot state: liveness, and with it the fairness part of
   these refinements.
