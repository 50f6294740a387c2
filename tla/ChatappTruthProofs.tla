------------------------- MODULE ChatappTruthProofs -------------------------
(***************************************************************************)
(* Proofs about ChatappServer, for every value of the constants: where     *)
(* clientMap leads, who is shown what, and the types of all variables.     *)
(***************************************************************************)
EXTENDS ChatappTalkProofs

-----------------------------------------------------------------------------
(* clientMap. *)

\* A user's entry is descriptor 0, or the second connection of a client that was given
\* his id, and the server has not closed it.
Mapped ==
  \A id \in DOMAIN clientMap :
    /\ id \in Ids
    /\ \/ clientMap[id] = Stdin
       \/ \E s \in Sessions : clientMap[id] = Inbox(s) /\ Inbox(s) \in open /\ me[s] = id

Opened == \A s \in Sessions : pc[Inbox(s)] \notin {"none", "gone"} => Inbox(s) \in open

Maps == open \subseteq Threads /\ Mapped /\ Opened

\* A look-up may insert descriptor 0 in clientMap, and MAP alone sets an entry; EXIT alone
\* closes a descriptor.
LEMMA ServeMaps ==
  ASSUME NEW c \in Threads, Serve(c)
  PROVE  \/ UNCHANGED << clientMap, open >>
         \/ /\ pc[c] = "reading" /\ inbound[c] # << >> /\ Hand(c).cmd = "MAP"
            /\ clientMap' = Put(clientMap, Hand(c).id, c) /\ open' = open
         \/ /\ pc[c] = "sending" /\ open' = open
            /\ \E to \in job[c].todo : clientMap' = Put(clientMap, to, Stdin)
         \/ /\ pc[c] = "saving" /\ job[c].req.cmd = "EXIT"
            /\ open' = open \ {c} /\ clientMap' = clientMap
<1>1. CASE Map(c)
  BY <1>1 DEF Map, Takes, Taken, Hand
<1>2. CASE Requests(c) /\ ~ Map(c)
  BY <1>2 DEF Requests, Authenticate, Ignore, Register, Look, Add, Chat, TakeGroups, Send, Exit,
              serverVars, sharedVars
<1>3. CASE EndSave(c)
  BY <1>3 DEF EndSave
<1>4. CASE ParseFails(c) \/ BeginSave(c) \/ EndOfStream(c)
  BY <1>4 DEF ParseFails, BeginSave, EndOfStream
<1>5. CASE ListGroups(c) \/ ChatGroup(c) \/ MakeGroup(c) \/ SendGroup(c) \/ Leave(c)
           \/ Pending(c) \/ PendingFails(c)
  BY <1>5 DEF ListGroups, ChatGroup, MakeGroup, SendGroup, Leave, Pending, PendingFails, sharedVars
<1>6. CASE Deliver(c)
  BY <1>6 DEF Deliver, LookedUp
<1> QED BY <1>1, <1>2, <1>3, <1>4, <1>5, <1>6 DEF Serve

\* A step of the server keeps Maps.
LEMMA MapsServe ==
  ASSUME Talk, Maps, NEW c \in Threads, Serve(c), TurnOf(c), Others(c)
  PROVE  Maps'
<1>0. /\ Served /\ Queued /\ UNCHANGED << user, me, asked, chat, inbox >> /\ pc[c] \notin {"none", "gone"}
  BY ServeLeaves DEF Talk
<1>1. ASSUME \A s \in Sessions : Inbox(s) \in open => Inbox(s) \in open' PROVE Opened'
  <2> SUFFICES ASSUME NEW s \in Sessions, pc'[Inbox(s)] \notin {"none", "gone"} PROVE Inbox(s) \in open'
    BY DEF Opened
  <2>1. pc[Inbox(s)] \notin {"none", "gone"}
    <3>1. CASE c = Inbox(s)
      BY <1>0, <3>1
    <3>2. CASE c # Inbox(s)
      BY <3>2, Ends DEF Others
    <3> QED BY <3>1, <3>2
  <2> QED BY <1>1, <2>1 DEF Maps, Opened
<1>2. CASE UNCHANGED << clientMap, open >>
  BY <1>0, <1>1, <1>2 DEF Maps, Mapped
<1>3. CASE pc[c] = "reading" /\ inbound[c] # << >> /\ Hand(c).cmd = "MAP"
           /\ clientMap' = Put(clientMap, Hand(c).id, c) /\ open' = open
  <2>1. ~ Idle(c)
    BY <1>3 DEF Idle
  <2>2. PICK s \in Sessions : c = Main(s) \/ c = Inbox(s)
    BY ThreadIsEnd
  <2>3. c = Inbox(s) /\ Hand(c) \in Requested /\ Hand(c).id = me[s]
    BY <1>0, <1>3, <2>1, <2>2, HandOf
  <2>4. Hand(c).id \in Ids
    BY <1>3, <2>3, RequestHolds
  <2>5. PICK i : i = Hand(c).id
    OBVIOUS
  <2>6. /\ DOMAIN clientMap' = DOMAIN clientMap \cup {i} /\ clientMap'[i] = c
        /\ \A id \in DOMAIN clientMap : id # i => clientMap'[id] = clientMap[id]
    BY <1>3, <2>5 DEF Put
  <2>7. Inbox(s) \in open
    BY <1>0, <2>3 DEF Maps, Opened
  <2>8. Mapped'
    BY <1>0, <1>3, <2>3, <2>4, <2>5, <2>6, <2>7 DEF Maps, Mapped
  <2> QED BY <1>1, <1>3, <2>8 DEF Maps
<1>4. CASE pc[c] = "saving" /\ job[c].req.cmd = "EXIT" /\ open' = open \ {c} /\ clientMap' = clientMap
  <2>1. \A s \in Sessions : c # Inbox(s)
    BY <1>0, <1>4 DEF Queued
  <2>2. \A s \in Sessions : Inbox(s) \in open => Inbox(s) \in open'
    BY <1>4, <2>1
  <2> QED BY <1>0, <1>1, <1>4, <2>2 DEF Maps, Mapped
<1>5. ASSUME NEW to \in job[c].todo, pc[c] = "sending", open' = open,
             clientMap' = Put(clientMap, to, Stdin)
      PROVE  Maps'
  <2>1. to \in Ids
    BY <1>0 DEF Served, JobTyped
  <2>2. /\ DOMAIN clientMap' = DOMAIN clientMap \cup {to} /\ clientMap'[to] = Stdin
        /\ \A id \in DOMAIN clientMap : id # to => clientMap'[id] = clientMap[id]
    BY <1>5 DEF Put
  <2>3. Mapped'
    BY <1>0, <1>5, <2>1, <2>2 DEF Maps, Mapped
  <2> QED BY <1>1, <1>5, <2>3 DEF Maps
<1> QED BY <1>2, <1>3, <1>4, <1>5, ServeMaps

\* A step of a client keeps Maps: an id, once given, stays.
LEMMA MapsClient ==
  ASSUME Talk, Maps, NEW s \in Sessions, Client(s)
  PROVE  Maps'
<1>0. Shapes /\ Guests /\ Guests' /\ Spoken(s) /\ Elsewhere(s) /\ Main(s) \in Threads /\ Inbox(s) \in Threads /\ Main(s) # Inbox(s)
  BY ClientSpeaks, GuestsClient, ShapesOfTalk, Ends DEF Talk
<1>1. /\ clientMap' = clientMap
      /\ open' = open \/ open' = open \cup {Main(s)} \/ open' = open \cup {Inbox(s)}
      /\ pc'[Inbox(s)] = pc[Inbox(s)] \/ Inbox(s) \in open'
  <2>1. CASE LogIn(s) \/ SignUp(s)
    BY <1>0, <2>1 DEF LogIn, SignUp, Connects, Goto, Shapes, serverVars, sharedVars
  <2>2. CASE Command(s) \/ Misuse(s) \/ Say(s) \/ LeaveChat(s) \/ Quit(s) \/ Killed(s)
    BY <2>2 DEF Command, Misuse, Say, LeaveChat, Quit, Killed, Leaves, serverVars, sharedVars
  <2>3. CASE ReadAnswer(s)
    BY <1>0, <2>3 DEF ReadAnswer, LoggedIn, Stays
  <2> QED BY <2>1, <2>2, <2>3 DEF Client
<1>2. \A t \in Sessions : me[t] \in Ids => me'[t] = me[t]
  <2>1. \A t \in Sessions \ {s} : me'[t] = me[t]
    BY <1>0 DEF Elsewhere
  <2>2. Newcomer(s) => me[s] \notin Ids
    BY <1>0 DEF Guests, Guest, Ids, Nobody
  <2>3. me'[s] = me[s] \/ Newcomer(s)
    BY <1>0 DEF Spoken, Enquires, Stalls, IsTold, Chats, Parts, SameInbox, Newcomer, Asking
  <2> QED BY <2>1, <2>2, <2>3
<1>3. Mapped'
  BY <1>1, <1>2 DEF Maps, Mapped
<1>4. Opened'
  <2>1. \A t \in Sessions \ {s} : pc'[Inbox(t)] = pc[Inbox(t)]
    BY <1>0 DEF Elsewhere
  <2> QED BY <1>1, <2>1 DEF Maps, Opened
<1> QED BY <1>0, <1>1, <1>3, <1>4 DEF Maps

\* After a crash clientMap is empty and every thread is gone.
LEMMA MapsCrash ==
  ASSUME Talk, Crash
  PROVE  Maps'
<1>1. clientMap' = << >> /\ open' = {} /\ \A c \in Threads : pc'[c] \in {"none", "gone"}
  BY DEF Crash
<1>2. DOMAIN clientMap' = {}
  BY <1>1
<1> QED BY <1>1, <1>2, Ends DEF Maps, Mapped, Opened

\* At first clientMap is empty and there is no thread.
LEMMA InitMaps == Init => Maps
<1> SUFFICES ASSUME Init PROVE Maps
  OBVIOUS
<1>1. clientMap = << >> /\ open = {} /\ \A c \in Threads : pc[c] = "none"
  BY DEF Init
<1>2. DOMAIN clientMap = {}
  BY <1>1
<1> QED BY <1>1, <1>2, Ends DEF Maps, Mapped, Opened

\* Maps is about variables of the specification only.
LEMMA MapsStill ==
  ASSUME Maps, UNCHANGED vars
  PROVE  Maps'
BY DEF Maps, Mapped, Opened, vars, serverVars, sharedVars, clientVars

\* What a step of a thread is, by all that has been proved of it.
LEMMA ServeIs ==
  ASSUME Talk, FitFiles, NEW c \in Threads, Serve(c)
  PROVE  Turn(c) /\ TurnOf(c) /\ Others(c) /\ Talk'
<1>1. pc[c] \notin {"none", "gone"}
  BY ServeLeaves
<1>2. Turn(c)
  BY ServeTurns DEF Talk
<1>3. TurnOf(c) /\ Others(c)
  BY <1>1, <1>2, TurnIs DEF Talk
<1> QED BY <1>2, <1>3, TalkServe

\* clientMap leads to descriptor 0, or to the second connection of a client that was given
\* the id, and that connection is open: the descriptor a thread of a client reads from is
\* not closed under it.
THEOREM MapsHold == Spec => []Maps
<1>1. FitFiles /\ Talk /\ Maps /\ [Next]_vars => Maps'
  BY ServeIs, MapsServe, MapsClient, MapsCrash, MapsStill DEF Next
<1> QED BY InitMaps, FitFilesHolds, TalkHolds, <1>1, PTL DEF Spec

\* clientMap keeps the entries of clients that are gone, and the operating system gives a
\* closed descriptor to the next connection; and it gets descriptor 0 for a user who is
\* not there yet: still a text for a user goes to no client but one that was given his
\* id, since EXIT closes the other connection only.
THEOREM MapOpenHolds == Spec => []MapOpen
<1>1. ASSUME NEW s \in Sessions PROVE Inbox(s)[1] = s
  BY DEF Inbox
<1>2. Maps => MapOpen
  <2> SUFFICES ASSUME Maps, NEW id \in DOMAIN clientMap, clientMap[id] # Stdin
               PROVE  clientMap[id] \in open /\ me[clientMap[id][1]] = id
    BY DEF MapOpen
  <2>1. PICK s \in Sessions : clientMap[id] = Inbox(s) /\ Inbox(s) \in open /\ me[s] = id
    BY DEF Maps, Mapped
  <2> QED BY <1>1, <2>1
<1> QED BY MapsHold, <1>2, PTL
-----------------------------------------------------------------------------
(* What a step does to the texts: those shown, those left, those on the way. *)

\* The job a thread has after its step, when it is one of SEND, or has a copy of
\* messages.json.
Plain(c) == job'[c].todo = {} /\ job'[c].draft.file # "messages"

NextJob(c) ==
  \/ Plain(c) /\ (pc'[c] = "groups" /\ job'[c].req.cmd = "SEND" => job'[c].req.arg[1] \notin Ids)
  \/ /\ pc[c] = "reading" /\ pc'[c] # "groups" /\ job'[c].draft.file # "messages"
     /\ job'[c].todo = {job'[c].req.arg[1]} /\ job'[c].req.arg[1] \in Ids
  \/ /\ pc[c] = "groups" /\ pc'[c] # "groups" /\ job[c].req.cmd = "SEND"
     /\ job'[c].req = job[c].req /\ job'[c].draft = job[c].draft
     /\ job'[c].todo \subseteq MembersOf(disk["groups"], job[c].req.arg[1])
  \/ /\ pc[c] # "reading" /\ pc'[c] # "groups" /\ job'[c].req = job[c].req
     /\ job'[c].todo \subseteq job[c].todo
     /\ \/ job'[c].draft \in {job[c].draft, NoDraft}
        \/ /\ pc[c] = "sending"
           /\ \E to \in job[c].todo :
                job'[c].draft = Draft("messages",
                  Left(disk["messages"], job[c].req.id, to, job[c].req.arg[2]))
  \/ /\ job'[c].todo = {}
     /\ job'[c].draft = Draft("messages", Cleared(disk["messages"], job[c].req.id))
     /\ job'[c].req.cmd # "SEND"

\* Where a thread is after a step and what it works on.
LEMMA GotoNew ==
  ASSUME Served, NEW c \in Threads, NEW step, NEW j, Goto(c, step, j)
  PROVE  pc'[c] = step /\ job'[c] = j
BY DEF Goto, Served

\* A job without a draft has none of the files.
LEMMA NoDraftFile == NoDraft.file = "none"
BY DEF NoDraft

\* A thread that is done has nothing of this kind.
LEMMA PlainEnd ==
  ASSUME Served, NEW c \in Threads, NEW step, Goto(c, step, NoJob), step # "groups"
  PROVE  NextJob(c)
BY GotoNew, NoJobTyped, NoDraftFile DEF NextJob, Plain

\* A thread that goes to write.
LEMMA SavesNext ==
  ASSUME Served, NEW c \in Threads, NEW req, NEW f, NEW doc, NEW replies, Saves(c, req, f, doc, replies)
  PROVE  /\ pc'[c] = "save" /\ job'[c].todo = {} /\ job'[c].draft = Draft(f, doc) /\ job'[c].req = req
         /\ f # "messages" => NextJob(c)
<1> DEFINE d == Draft(f, doc)
<1>1. Goto(c, "save", [JobOf(req) EXCEPT !.draft = d, !.replies = replies])
  BY DEF Saves
<1>2. d.file = f
  BY DEF Draft
<1> HIDE DEF d
<1>3. [JobOf(req) EXCEPT !.draft = d, !.replies = replies] = TheJob(req, << >>, {}, d, replies)
  BY SavedJob, Zenon
<1>4. Goto(c, "save", TheJob(req, << >>, {}, d, replies))
  BY <1>1, <1>3, Zenon
<1>5. pc'[c] = "save" /\ job'[c].todo = {} /\ job'[c].draft = d /\ job'[c].req = req
  BY <1>4, GotoNew, TheJobHolds
<1>6. f # "messages" => NextJob(c)
  BY <1>2, <1>5 DEF NextJob, Plain
<1> QED BY <1>5, <1>6 DEF d

\* A thread with some receivers left.
LEMMA SendsNext ==
  ASSUME Served, NEW c \in Threads, NEW j, IsJob(j), NEW todo, Sends(c, j, todo)
  PROVE  \/ job'[c] = NoJob /\ pc'[c] = "reading"
         \/ pc'[c] = "sending" /\ job'[c].todo = todo /\ job'[c].draft = j.draft /\ job'[c].req = j.req
<1>1. CASE todo = {}
  BY <1>1, GotoNew DEF Sends
<1>2. CASE todo # {}
  <2>1. [j EXCEPT !.todo = todo] = TheJob(j.req, j.users, todo, j.draft, j.replies)
    BY ChangedJobs
  <2>2. Goto(c, "sending", TheJob(j.req, j.users, todo, j.draft, j.replies))
    BY <1>2, <2>1 DEF Sends
  <2> QED BY <2>2, GotoNew, TheJobHolds
<1> QED BY <1>1, <1>2

\* A thread that goes on with a copy of the accounts.
LEMMA CopyNext ==
  ASSUME NEW req, NEW v
  PROVE  LET j == [JobOf(req) EXCEPT !.users = v]
         IN  IsJob(j) /\ j.req = req /\ j.todo = {} /\ j.draft = NoDraft
<1>1. PICK j : j = [JobOf(req) EXCEPT !.users = v]
  OBVIOUS
<1>2. j = TheJob(req, v, {}, NoDraft, << >>)
  BY <1>1, CopiedJob, Zenon
<1>3. IsJob(j) /\ j.req = req /\ j.todo = {} /\ j.draft = NoDraft
  BY <1>2, TheJobHolds
<1> QED BY <1>1, <1>3, Zenon

\* A request that is taken.
LEMMA RequestsNext ==
  ASSUME Served, NEW c \in Threads, Requests(c)
  PROVE  NextJob(c)
<1>1. CASE Authenticate(c)
  <2>1. Answers(c, Taken(c), << Nobody >>)
        \/ \E id : Saves(c, Taken(c), "private", SignedIn(Accounts, id), << id >>)
    BY <1>1 DEF Authenticate
  <2> QED BY <2>1, SavesNext, PlainEnd DEF Answers
<1>2. CASE Ignore(c)
  <2>1. pc' = pc /\ job' = job /\ pc[c] = "reading"
    BY <1>2 DEF Ignore, Takes, serverVars
  <2>2. job[c] = NoJob
    BY <2>1 DEF Served, Placed
  <2> QED BY <2>1, <2>2, NoJobTyped, NoDraftFile DEF NextJob, Plain
<1>3. CASE Register(c)
  <2>1. PICK doc, all : Saves(c, Taken(c), "private", doc, all)
    BY <1>3 DEF Register
  <2> QED BY <2>1, SavesNext
<1>4. CASE Look(c)
  BY <1>4, PlainEnd DEF Look, Answers
<1>5. CASE Add(c)
  <2>1. \E doc, all : Saves(c, Taken(c), "private", doc, all) \/ Answers(c, Taken(c), all)
    BY <1>5 DEF Add
  <2> QED BY <2>1, SavesNext, PlainEnd DEF Answers
<1>6. CASE Chat(c)
  <2>1. \/ \E all : Answers(c, Taken(c), all)
        \/ Goto(c, "groups", JobOf(Taken(c))) /\ Taken(c).cmd = "CHAT"
    BY <1>6 DEF Chat, Takes, Taken
  <2>2. CASE Goto(c, "groups", JobOf(Taken(c))) /\ Taken(c).cmd = "CHAT"
    <3>1. JobOf(Taken(c)) = TheJob(Taken(c), << >>, {}, NoDraft, << >>)
      BY NewJobs
    <3>2. job'[c].todo = {} /\ job'[c].draft = NoDraft /\ job'[c].req = Taken(c)
      BY <2>2, <3>1, GotoNew, TheJobHolds
    <3> QED BY <2>2, <3>2, NoDraftFile DEF NextJob, Plain
  <2> QED BY <2>1, <2>2, PlainEnd DEF Answers
<1>7. CASE TakeGroups(c)
  <2> DEFINE j == [JobOf(Taken(c)) EXCEPT !.users = Accounts]
  <2>1. Goto(c, "groups", j) /\ Taken(c).cmd \in {"LISTGROUPS", "GROUP"}
    BY <1>7 DEF TakeGroups, Takes, Taken
  <2>0. j.req = Taken(c) /\ j.todo = {} /\ j.draft = NoDraft
    BY CopyNext
  <2> HIDE DEF j
  <2>2. job'[c].todo = {} /\ job'[c].draft = NoDraft /\ job'[c].req = Taken(c)
    BY <2>0, <2>1, GotoNew
  <2> QED BY <2>1, <2>2, NoDraftFile DEF NextJob, Plain
<1>8. CASE Send(c)
  <2> DEFINE j == [JobOf(Taken(c)) EXCEPT !.users = Accounts]
  <2>1. pc[c] = "reading" /\ IF Taken(c).arg[1] \in Ids THEN Sends(c, j, {Taken(c).arg[1]})
                                                        ELSE Goto(c, "groups", j)
    BY <1>8 DEF Send, Takes
  <2>2. IsJob(j) /\ j.req = Taken(c) /\ j.todo = {} /\ j.draft = NoDraft
    BY CopyNext
  <2> HIDE DEF j
  <2>3. CASE Taken(c).arg[1] \in Ids
    <3>1. \/ job'[c] = NoJob /\ pc'[c] = "reading"
          \/ pc'[c] = "sending" /\ job'[c].todo = {Taken(c).arg[1]} /\ job'[c].draft = NoDraft
             /\ job'[c].req = Taken(c)
      BY <2>1, <2>2, <2>3, SendsNext
    <3> QED BY <2>1, <2>3, <3>1, NoJobTyped, NoDraftFile DEF NextJob, Plain
  <2>4. CASE Taken(c).arg[1] \notin Ids
    BY <2>1, <2>2, <2>4, GotoNew, NoDraftFile DEF NextJob, Plain
  <2> QED BY <2>3, <2>4
<1>9. CASE Map(c)
  <2>1. \E req : Goto(c, "peek", JobOf(req))
    BY <1>9 DEF Map
  <2>2. PICK req : Goto(c, "peek", JobOf(req))
    BY <2>1
  <2>3. JobOf(req) = TheJob(req, << >>, {}, NoDraft, << >>)
    BY NewJobs
  <2>4. pc'[c] = "peek" /\ job'[c].todo = {} /\ job'[c].draft = NoDraft
    BY <2>2, <2>3, GotoNew, TheJobHolds
  <2> QED BY <2>4, NoDraftFile DEF NextJob, Plain
<1>10. CASE Exit(c)
  <2>1. \E doc, all : Saves(c, Taken(c), "private", doc, all)
    BY <1>10 DEF Exit
  <2> QED BY <2>1, SavesNext
<1> QED BY <1>1, <1>2, <1>3, <1>4, <1>5, <1>6, <1>7, <1>8, <1>9, <1>10 DEF Requests

\* Any step of the server.
LEMMA ServeNext ==
  ASSUME Served, NEW c \in Threads, Serve(c)
  PROVE  NextJob(c)
<1>0. IsJob(job[c])
  BY DEF Served, JobTyped
<1>1. CASE Requests(c)
  BY <1>1, RequestsNext
<1>2. CASE ParseFails(c) \/ PendingFails(c) \/ EndOfStream(c)
  <2>1. Goto(c, "gone", NoJob)
    BY <1>2 DEF ParseFails, PendingFails, EndOfStream
  <2> QED BY <2>1, PlainEnd
<1>3. CASE ListGroups(c) \/ ChatGroup(c)
  <2>1. \E req, all : Answers(c, req, all)
    BY <1>3 DEF ListGroups, ChatGroup
  <2> QED BY <2>1, PlainEnd DEF Answers
<1>4. CASE MakeGroup(c)
  <2>1. \E req, doc, all : Saves(c, req, "groups", doc, all) \/ Answers(c, req, all)
    BY <1>4 DEF MakeGroup
  <2> QED BY <2>1, SavesNext, PlainEnd DEF Answers
<1>5. CASE SendGroup(c)
  <2>1. /\ pc[c] = "groups" /\ job[c].req.cmd = "SEND"
        /\ Sends(c, job[c], MembersOf(disk["groups"], job[c].req.arg[1]) \ {job[c].req.id})
    BY <1>5 DEF SendGroup, Parses
  <2>2. \/ job'[c] = NoJob /\ pc'[c] = "reading"
        \/ /\ pc'[c] = "sending" /\ job'[c].draft = job[c].draft /\ job'[c].req = job[c].req
           /\ job'[c].todo = MembersOf(disk["groups"], job[c].req.arg[1]) \ {job[c].req.id}
    BY <1>0, <2>1, SendsNext
  <2> QED BY <2>1, <2>2, NoJobTyped, NoDraftFile DEF NextJob, Plain
<1>6. CASE Leave(c)
  <2>1. PICK to \in job[c].todo :
          Goto(c, "save", [job[c] EXCEPT !.todo = @ \ {to},
            !.draft = Draft("messages", Left(disk["messages"], job[c].req.id, to, job[c].req.arg[2]))])
    BY <1>6 DEF Leave
  <2>2. PICK d : d = Draft("messages", Left(disk["messages"], job[c].req.id, to, job[c].req.arg[2]))
    OBVIOUS
  <2>3. PICK j : j = job[c]
    OBVIOUS
  <2>4. Goto(c, "save", [j EXCEPT !.todo = j.todo \ {to}, !.draft = d])
    BY <2>1, <2>2, <2>3
  <2>5. PICK t : t = j.todo \ {to}
    OBVIOUS
  <2>0. IsJob(j)
    BY <1>0, <2>3
  <2>6. [j EXCEPT !.todo = t, !.draft = d] = TheJob(j.req, j.users, t, d, j.replies)
    BY <2>0, ChangedJobs, Zenon
  <2>7. Goto(c, "save", TheJob(j.req, j.users, t, d, j.replies))
    BY <2>4, <2>5, <2>6, Zenon
  <2>8. pc'[c] = "save" /\ job'[c].todo = t /\ job'[c].draft = d /\ job'[c].req = j.req
    BY <2>7, GotoNew, TheJobHolds
  <2>9. pc[c] = "sending"
    BY <1>6 DEF Leave, Parses
  <2> QED BY <2>2, <2>3, <2>5, <2>8, <2>9 DEF NextJob
<1>7. CASE Deliver(c)
  <2>1. PICK to \in job[c].todo : Sends(c, job[c], job[c].todo \ {to})
    BY <1>7 DEF Deliver
  <2>2. pc[c] = "sending"
    BY <1>7 DEF Deliver
  <2>3. \/ job'[c] = NoJob /\ pc'[c] = "reading"
        \/ /\ pc'[c] = "sending" /\ job'[c].draft = job[c].draft /\ job'[c].req = job[c].req
           /\ job'[c].todo = job[c].todo \ {to}
    BY <1>0, <2>1, SendsNext
  <2> QED BY <2>2, <2>3, NoJobTyped, NoDraftFile DEF NextJob, Plain
<1>8. CASE Pending(c)
  <2>1. pc[c] = "peek" /\ Saves(c, job[c].req, "messages", Cleared(disk["messages"], job[c].req.id), << >>)
    BY <1>8 DEF Pending
  <2>2. job[c].req.cmd # "SEND"
    BY <2>1 DEF Served, Placed
  <2>3. /\ job'[c].todo = {} /\ job'[c].req = job[c].req
        /\ job'[c].draft = Draft("messages", Cleared(disk["messages"], job[c].req.id))
    BY <2>1, SavesNext
  <2> QED BY <2>2, <2>3 DEF NextJob
<1>9. CASE BeginSave(c)
  <2>1. pc[c] = "save" /\ pc'[c] = "saving" /\ job' = job
    BY <1>9 DEF BeginSave, Served
  <2> QED BY <2>1 DEF NextJob
<1>10. CASE EndSave(c)
  <2>1. pc[c] = "saving"
    BY <1>10 DEF EndSave
  <2>2. CASE job[c].req.cmd = "SEND"
    <3>1. PICK j : j = [job[c] EXCEPT !.draft = NoDraft]
      OBVIOUS
    <3>2. j = TheJob(job[c].req, job[c].users, job[c].todo, NoDraft, job[c].replies)
      BY <1>0, <3>1, ChangedJobs
    <3>3. IsJob(j) /\ j.req = job[c].req /\ j.draft = NoDraft
      BY <3>2, TheJobHolds
    <3>4. Sends(c, j, job[c].todo)
      BY <1>10, <2>2, <3>1 DEF EndSave
    <3>5. \/ job'[c] = NoJob /\ pc'[c] = "reading"
          \/ pc'[c] = "sending" /\ job'[c].draft = NoDraft /\ job'[c].req = job[c].req /\ job'[c].todo = job[c].todo
      BY <3>3, <3>4, SendsNext
    <3> QED BY <2>1, <3>5, NoJobTyped, NoDraftFile DEF NextJob, Plain
  <2>3. CASE job[c].req.cmd # "SEND"
    <3>1. Goto(c, "reading", NoJob) \/ Goto(c, "gone", NoJob)
      BY <1>10, <2>3 DEF EndSave, Answers
    <3> QED BY <3>1, PlainEnd
  <2> QED BY <2>2, <2>3
<1> QED BY <1>1, <1>2, <1>3, <1>4, <1>5, <1>6, <1>7, <1>8, <1>9, <1>10 DEF Serve
-----------------------------------------------------------------------------
(* Texts: where each of them comes from.  S stands for what has been sent and R   *)
(* for who was ever a member of each group, before a step or after it.            *)

Posts == [from : Ids, to : Ids \cup Groups, text : Texts]

\* What a SEND sends.
Posted(req) == [from |-> req.id, to |-> req.arg[1], text |-> req.arg[2]]

Reached(R, m, id) == IF m.to \in Ids THEN m.to = id ELSE id \in R[m.to]

Vouched(S, R, from, id, text) == \E m \in S : m.from = from /\ m.text = text /\ Reached(R, m, id)

TrueDoc(S, R, doc) ==
  \A key \in DOMAIN doc : \A k \in DOMAIN doc[key] : Vouched(S, R, key[2], key[1], doc[key][k])

InGroups(R, doc) == \A g \in DOMAIN doc : doc[g] \subseteq R[g]

HonestOnes(S) == {r \in Requested : r.cmd = "SEND" => Posted(r) \in S}

\* A thread that works on a SEND has it from a client, and the receivers left are
\* among those the text is for.
TrueJob(S, R, step, j) ==
  /\ j.req \in HonestOnes(S)
  /\ j.req.cmd = "SEND" => \A to \in j.todo : Reached(R, Posted(j.req), to)
  /\ j.req.cmd = "SEND" /\ step = "groups" => j.req.arg[1] \notin Ids
  /\ j.draft.file = "messages" => TrueDoc(S, R, j.draft.doc)

Truth ==
  /\ sent \subseteq Posts /\ roster \in [Groups -> SUBSET Ids]
  /\ received \subseteq [session : Sessions, from : Ids, text : Texts]
  /\ \A r \in received :
       me[r.session] \in Ids /\ Vouched(sent, roster, r.from, me[r.session], r.text)
  /\ TrueDoc(sent, roster, disk["messages"]) /\ InGroups(roster, disk["groups"])
  /\ \A s \in Sessions : inbound[Main(s)] \in Seq(HonestOnes(sent))
  /\ \A c \in Threads : TrueJob(sent, roster, pc[c], job[c])

\* More is sent, and there are more members.
Grew(S, R, T, Q) == S \subseteq T /\ \A g \in Groups : R[g] \subseteq Q[g]

\* What was true of a text stays true when more is sent and groups grow.
LEMMA GrownStaysTrue ==
  ASSUME NEW S, NEW R, NEW T, NEW Q, S \subseteq Posts, Grew(S, R, T, Q)
  PROVE  /\ \A m \in Posts : \A id : Reached(R, m, id) => Reached(Q, m, id)
         /\ \A from, id, text : Vouched(S, R, from, id, text) => Vouched(T, Q, from, id, text)
         /\ \A doc : TrueDoc(S, R, doc) => TrueDoc(T, Q, doc)
         /\ HonestOnes(S) \subseteq HonestOnes(T)
         /\ \A step, j : TrueJob(S, R, step, j) => TrueJob(T, Q, step, j)
<1>1. ASSUME NEW m \in Posts, NEW id, Reached(R, m, id) PROVE Reached(Q, m, id)
  BY <1>1 DEF Reached, Posts, Grew
<1>2. ASSUME NEW from, NEW id, NEW text, Vouched(S, R, from, id, text)
      PROVE  Vouched(T, Q, from, id, text)
  <2>1. PICK m \in S : m.from = from /\ m.text = text /\ Reached(R, m, id)
    BY <1>2 DEF Vouched
  <2>2. m \in T /\ m \in Posts
    BY DEF Grew
  <2> QED BY <1>1, <2>1, <2>2 DEF Vouched
<1>3. ASSUME NEW doc, TrueDoc(S, R, doc) PROVE TrueDoc(T, Q, doc)
  BY <1>2, <1>3 DEF TrueDoc
<1>4. HonestOnes(S) \subseteq HonestOnes(T)
  BY DEF HonestOnes, Grew
<1>5. ASSUME NEW step, NEW j, TrueJob(S, R, step, j) PROVE TrueJob(T, Q, step, j)
  <2>1. j.req \in HonestOnes(T)
    BY <1>4, <1>5 DEF TrueJob
  <2>2. ASSUME j.req.cmd = "SEND", NEW to \in j.todo PROVE Reached(Q, Posted(j.req), to)
    <3>1. Posted(j.req) \in S /\ Reached(R, Posted(j.req), to)
      BY <1>5, <2>2 DEF TrueJob, HonestOnes
    <3> QED BY <1>1, <3>1
  <2>3. j.draft.file = "messages" => TrueDoc(T, Q, j.draft.doc)
    BY <1>3, <1>5 DEF TrueJob
  <2>4. j.req.cmd = "SEND" /\ step = "groups" => j.req.arg[1] \notin Ids
    BY <1>5 DEF TrueJob
  <2> QED BY <2>1, <2>2, <2>3, <2>4 DEF TrueJob
<1> QED BY <1>1, <1>2, <1>3, <1>4, <1>5

\* A step that sends nothing and makes no group.
LEMMA NothingGrew == \A S, R : Grew(S, R, S, R)
BY DEF Grew

\* The fields of what is sent.
LEMMA PostedIs ==
  ASSUME NEW req
  PROVE  Posted(req).from = req.id /\ Posted(req).to = req.arg[1] /\ Posted(req).text = req.arg[2]
BY DEF Posted

\* A thread with nothing to do says nothing of anybody.
LEMMA NoJobIsTrue == \A S, R, step : TrueJob(S, R, step, NoJob)
<1>1. NoRequest \in Requested /\ NoRequest.cmd = "NONE"
  BY NoJobTyped DEF JobTyped, NoRequest
<1> QED BY <1>1, NoJobTyped, NoDraftFile DEF TrueJob, HonestOnes

\* A document without a member holds nothing that is not true.
LEMMA EmptyIsTrue == \A S, R : TrueDoc(S, R, << >>) /\ InGroups(R, << >>)
BY DEF TrueDoc, InGroups

-----------------------------------------------------------------------------
(* The histories, and the files of texts and groups. *)

StillFiles(c) == UNCHANGED << disk, roster, received >>

Delivered(c) ==
  /\ pc[c] = "sending" /\ UNCHANGED << disk, roster >>
  /\ \E to \in job[c].todo : received' = received \cup Printed(to, job[c].req.id, job[c].req.arg[2])

Fetched(c) ==
  /\ pc[c] = "peek" /\ UNCHANGED << disk, roster >>
  /\ SendersTo(disk["messages"], job[c].req.id) # {}
  /\ LET last == LastPending(disk["messages"], job[c].req.id)
     IN  received' = received \cup Printed(job[c].req.id, last.from, last.text)

Emptied(c) ==
  /\ pc[c] = "save" /\ UNCHANGED << roster, received >>
  /\ disk' = [disk EXCEPT ![job[c].draft.file] = << >>]

Written(c) ==
  /\ pc[c] = "saving" /\ UNCHANGED received
  /\ disk' = [disk EXCEPT ![job[c].draft.file] = job[c].draft.doc]
  /\ roster' = IF job[c].draft.file # "groups" THEN roster
               ELSE [g \in Groups |-> roster[g] \cup MembersOf(job[c].draft.doc, g)]

\* A step prints what it delivers, or changes a file, or neither.
LEMMA ServeHistory ==
  ASSUME NEW c \in Threads, Serve(c)
  PROVE  StillFiles(c) \/ Delivered(c) \/ Fetched(c) \/ Emptied(c) \/ Written(c)
<1>1. CASE Requests(c)
  BY <1>1 DEF Requests, Authenticate, Ignore, Register, Look, Add, Chat, TakeGroups, Send, Map, Exit,
              serverVars, sharedVars, historyVars, StillFiles
<1>2. CASE ParseFails(c) \/ ListGroups(c) \/ ChatGroup(c) \/ MakeGroup(c) \/ SendGroup(c) \/ Leave(c)
           \/ PendingFails(c) \/ EndOfStream(c)
  BY <1>2 DEF ParseFails, ListGroups, ChatGroup, MakeGroup, SendGroup, Leave, PendingFails, EndOfStream,
              sharedVars, historyVars, StillFiles
<1>3. CASE Deliver(c)
  BY <1>3 DEF Deliver, Delivered, sharedVars
<1>4. CASE Pending(c)
  BY <1>4 DEF Pending, Fetched, StillFiles, sharedVars
<1>5. CASE BeginSave(c)
  BY <1>5 DEF BeginSave, Emptied, historyVars
<1>6. CASE EndSave(c)
  BY <1>6 DEF EndSave, Written
<1> QED BY <1>1, <1>2, <1>3, <1>4, <1>5, <1>6 DEF Serve

\* What is printed for a user is printed by a client that was given his id.
LEMMA PrintedFor ==
  ASSUME Maps, NEW to, NEW from, NEW text, NEW r \in Printed(to, from, text)
  PROVE  r.session \in Sessions /\ me[r.session] = to /\ to \in Ids /\ r.from = from /\ r.text = text
         /\ r = [session |-> r.session, from |-> from, text |-> text]
<1>1. /\ to \in DOMAIN clientMap
      /\ r = [session |-> clientMap[to][1], from |-> from, text |-> text]
  <2>1. LookedUp(to)[to] # Stdin
    BY DEF Printed
  <2>2. to \in DOMAIN clientMap
    BY <2>1 DEF LookedUp, Put
  <2> QED BY <2>2 DEF Printed
<1>x. clientMap[to] # Stdin
  BY <1>1 DEF Printed, LookedUp
<1>2. PICK s \in Sessions : clientMap[to] = Inbox(s) /\ me[s] = to
  BY <1>1, <1>x DEF Maps, Mapped
<1>3. clientMap[to][1] = s
  BY <1>2 DEF Inbox
<1>4. me[s] \in Ids \/ to \in Ids
  BY <1>1 DEF Maps, Mapped
<1> QED BY <1>1, <1>2, <1>3, <1>4

\* What is delivered is true.
LEMMA ServeShows ==
  ASSUME Talk, Maps, Truth, NEW c \in Threads, Serve(c)
  PROVE  \A r \in received' \ received :
           /\ r \in [session : Sessions, from : Ids, text : Texts] /\ me[r.session] \in Ids
           /\ Vouched(sent, roster, r.from, me[r.session], r.text)
<1> SUFFICES ASSUME NEW r \in received', r \notin received
             PROVE  /\ r \in [session : Sessions, from : Ids, text : Texts] /\ me[r.session] \in Ids
                    /\ Vouched(sent, roster, r.from, me[r.session], r.text)
  OBVIOUS
<1>0. /\ JobTyped(job[c]) /\ Placed(pc[c], job[c]) /\ TrueJob(sent, roster, pc[c], job[c])
      /\ TrueDoc(sent, roster, disk["messages"]) /\ IsMessages(disk["messages"]) /\ Filled(disk["messages"])
  BY DocumentIs DEF Talk, Served, Truth, Disks, Files
<1> DEFINE req == job[c].req
<1>1. CASE Delivered(c)
  <2>1. PICK to \in job[c].todo : r \in Printed(to, req.id, req.arg[2])
    BY <1>1 DEF Delivered
  <2>2. req.cmd = "SEND" /\ req \in Requested
    BY <1>0, <1>1 DEF Placed, Delivered, JobTyped
  <2>3. req.id \in Ids /\ req.arg[2] \in Texts
    BY <2>2, RequestHolds
  <2>4. Posted(req) \in sent /\ Reached(roster, Posted(req), to)
    BY <1>0, <2>2 DEF TrueJob, HonestOnes
  <2>5. Vouched(sent, roster, req.id, to, req.arg[2])
    BY <2>4, PostedIs DEF Vouched
  <2>6. /\ r.session \in Sessions /\ me[r.session] = to /\ to \in Ids /\ r.from = req.id /\ r.text = req.arg[2]
        /\ r = [session |-> r.session, from |-> req.id, text |-> req.arg[2]]
    BY <2>1, PrintedFor
  <2> HIDE DEF req
  <2> QED BY <2>3, <2>5, <2>6
<1>2. CASE Fetched(c)
  <2> DEFINE last == LastPending(disk["messages"], req.id)
             key == << req.id, last.from >>
             doc == disk["messages"]
  <2>1. r \in Printed(req.id, last.from, last.text) /\ SendersTo(doc, req.id) # {}
    BY <1>2 DEF Fetched
  <2>2. req.cmd = "PENDING" /\ req \in Requested
    BY <1>0, <1>2 DEF Placed, Fetched, JobTyped
  <2>3. req.id \in Ids
    BY <2>2, RequestHolds
  <2> HIDE DEF req
  <2>4. /\ last.from \in Ids /\ last.text \in Texts /\ key \in DOMAIN doc
        /\ \E k \in DOMAIN doc[key] : doc[key][k] = last.text
    BY <1>0, <2>1, <2>3, LastPendingTyped
  <2>5. PICK k \in DOMAIN doc[key] : doc[key][k] = last.text
    BY <2>4
  <2>6. Vouched(sent, roster, last.from, req.id, last.text)
    <3>1. Vouched(sent, roster, key[2], key[1], doc[key][k])
      <4> HIDE DEF key
      <4> QED BY <1>0, <2>4, <2>5 DEF TrueDoc
    <3>2. key[2] = last.from /\ key[1] = req.id
      OBVIOUS
    <3> QED BY <2>5, <3>1, <3>2
  <2>7. /\ r.session \in Sessions /\ me[r.session] = req.id /\ r.from = last.from /\ r.text = last.text
        /\ r = [session |-> r.session, from |-> last.from, text |-> last.text]
    BY <2>1, PrintedFor
  <2> HIDE DEF last
  <2> QED BY <2>3, <2>4, <2>6, <2>7
<1>3. CASE StillFiles(c) \/ Emptied(c) \/ Written(c)
  BY <1>3 DEF StillFiles, Emptied, Written
<1> QED BY <1>1, <1>2, <1>3, ServeHistory

\* The members a group is written with are added to those it ever had.
LEMMA ServeGrows ==
  ASSUME Talk, Truth, NEW c \in Threads, Serve(c)
  PROVE  /\ Grew(sent, roster, sent', roster') /\ sent' = sent /\ roster' \in [Groups -> SUBSET Ids]
         /\ TrueDoc(sent', roster', disk'["messages"]) /\ InGroups(roster', disk'["groups"])
<1>0. /\ sent' = sent /\ sent \subseteq Posts /\ roster \in [Groups -> SUBSET Ids]
      /\ TrueDoc(sent, roster, disk["messages"]) /\ InGroups(roster, disk["groups"])
      /\ DOMAIN disk = Files
  BY ServeLeaves DEF Talk, Truth, Disks
<1>1. CASE UNCHANGED << disk, roster >>
  BY <1>0, <1>1, NothingGrew
<1>2. CASE Emptied(c)
  <2>1. PICK f : f = job[c].draft.file
    OBVIOUS
  <2>2. disk' = [disk EXCEPT ![f] = << >>] /\ roster' = roster
    BY <1>2, <2>1 DEF Emptied
  <2>3. \A g \in Files : disk'[g] = disk[g] \/ disk'[g] = << >>
    BY <1>0, <2>2
  <2> QED BY <1>0, <2>2, <2>3, NothingGrew, EmptyIsTrue DEF Files
<1>3. CASE Written(c)
  <2>1. PICK f, doc : f = job[c].draft.file /\ doc = job[c].draft.doc
    OBVIOUS
  <2>2. /\ disk' = [disk EXCEPT ![f] = doc]
        /\ roster' = IF f # "groups" THEN roster
                     ELSE [g \in Groups |-> roster[g] \cup MembersOf(doc, g)]
    BY <1>3, <2>1 DEF Written
  <2>3. f \in Files /\ Document(f, doc)
    <3>1. JobTyped(job[c]) /\ Placed("saving", job[c])
      BY <1>3 DEF Talk, Served, Written
    <3>2. f \in Files /\ (job[c].draft = NoDraft \/ Document(f, doc))
      BY <2>1, <3>1 DEF JobTyped, Placed
    <3>3. NoDraft.file \notin Files
      BY NoDraftFile DEF Files
    <3> QED BY <2>1, <3>2, <3>3
  <2>4. f = "messages" => TrueDoc(sent, roster, doc)
    BY <2>1 DEF Truth, TrueJob
  <2>5. disk'[f] = doc /\ \A g \in Files \ {f} : disk'[g] = disk[g]
    BY <1>0, <2>2, <2>3
  <2>6. CASE f # "groups"
    <3>1. roster' = roster /\ disk'["groups"] = disk["groups"]
      BY <2>2, <2>5, <2>6 DEF Files
    <3>2. TrueDoc(sent, roster, disk'["messages"])
      BY <1>0, <2>4, <2>5 DEF Files
    <3> QED BY <1>0, <3>1, <3>2, NothingGrew
  <2>7. CASE f = "groups"
    <3>1. IsGroups(doc)
      BY <2>3, <2>7, DocumentIs
    <3>2. \A g : MembersOf(doc, g) \subseteq Ids
      BY <3>1, GroupsTyped
    <3>3. roster' = [g \in Groups |-> roster[g] \cup MembersOf(doc, g)]
      BY <2>2, <2>7
    <3>4. roster' \in [Groups -> SUBSET Ids]
      BY <1>0, <3>2, <3>3
    <3>5. Grew(sent, roster, sent', roster')
      BY <1>0, <3>3 DEF Grew
    <3>6. InGroups(roster', doc)
      BY <3>1, <3>3 DEF InGroups, IsGroups, MembersOf
    <3>7. TrueDoc(sent', roster', disk'["messages"])
      <4>1. disk'["messages"] = disk["messages"]
        BY <2>5, <2>7 DEF Files
      <4> QED BY <1>0, <3>5, <4>1, GrownStaysTrue
    <3> QED BY <1>0, <2>5, <2>7, <3>4, <3>5, <3>6, <3>7
  <2> QED BY <2>6, <2>7
<1> QED BY <1>1, <1>2, <1>3, ServeHistory DEF StillFiles, Delivered, Fetched

\* The job of the thread that makes a step.
LEMMA ServeJobIsTrue ==
  ASSUME Talk, FitFiles, Truth, NEW c \in Threads, Serve(c)
  PROVE  TrueJob(sent, roster, pc'[c], job'[c])
<1>0. /\ Served /\ Queued /\ JobTyped(job[c]) /\ Placed(pc[c], job[c]) /\ TrueJob(sent, roster, pc[c], job[c])
      /\ TrueDoc(sent, roster, disk["messages"]) /\ IsMessages(disk["messages"]) /\ Filled(disk["messages"])
      /\ InGroups(roster, disk["groups"]) /\ IsGroups(disk["groups"])
  BY DocumentIs DEF Talk, Served, Truth, Disks, Files
<1>1. TurnOf(c) /\ Served' /\ NextJob(c) /\ pc[c] \notin {"none", "gone"}
  BY <1>0, ServeIs, ServeNext, ServeLeaves DEF Talk
<1>2. JobTyped(job'[c]) /\ job'[c].req \in Requested
  BY <1>1 DEF Served, JobTyped
<1>3. job'[c].req.cmd = "SEND" => Posted(job'[c].req) \in sent
  <2> SUFFICES ASSUME job'[c].req.cmd = "SEND" PROVE Posted(job'[c].req) \in sent
    OBVIOUS
  <2>1. job'[c].req # NoRequest /\ ~ Idle(c)
    BY <1>1 DEF TurnOf, NoRequest
  <2>2. PICK s \in Sessions : c = Main(s) \/ c = Inbox(s)
    BY ThreadIsEnd
  <2>3. Hand(c) \in Requested
    BY <1>0, <1>1, <2>1, <2>2, HandOf
  <2>4. job'[c].req = Hand(c)
    BY <1>1, <2>1, <2>3, MapBecomesPending DEF TurnOf
  <2>5. c = Main(s)
    BY <1>0, <1>1, <2>1, <2>2, <2>4, HandOf
  <2>6. inbound[Main(s)] \in Seq(HonestOnes(sent))
    BY DEF Truth
  <2>7. Hand(c) \in HonestOnes(sent) \/ Hand(c) = job[c].req
    BY <1>0, <1>1, <2>1, <2>5, <2>6, HandOf
  <2> QED BY <1>0, <2>4, <2>7 DEF TrueJob, HonestOnes
<1>4. job'[c].req \in HonestOnes(sent)
  BY <1>2, <1>3 DEF HonestOnes
<1>5. CASE Plain(c) /\ (pc'[c] = "groups" /\ job'[c].req.cmd = "SEND" => job'[c].req.arg[1] \notin Ids)
  BY <1>4, <1>5 DEF TrueJob, Plain
<1>6. CASE /\ pc[c] = "reading" /\ pc'[c] # "groups" /\ job'[c].draft.file # "messages"
           /\ job'[c].todo = {job'[c].req.arg[1]} /\ job'[c].req.arg[1] \in Ids
  <2>1. \A to \in job'[c].todo : Reached(roster, Posted(job'[c].req), to)
    BY <1>6, PostedIs DEF Reached
  <2> QED BY <1>4, <1>6, <2>1 DEF TrueJob
<1>7. CASE /\ pc[c] = "groups" /\ pc'[c] # "groups" /\ job[c].req.cmd = "SEND"
           /\ job'[c].req = job[c].req /\ job'[c].draft = job[c].draft
           /\ job'[c].todo \subseteq MembersOf(disk["groups"], job[c].req.arg[1])
  <2>1. job[c].req.arg[1] \notin Ids
    BY <1>0, <1>7 DEF TrueJob
  <2>2. MembersOf(disk["groups"], job[c].req.arg[1]) \subseteq roster[job[c].req.arg[1]]
    BY <1>0 DEF MembersOf, InGroups
  <2>3. \A to \in job'[c].todo : Reached(roster, Posted(job'[c].req), to)
    BY <1>7, <2>1, <2>2, PostedIs DEF Reached
  <2>4. job'[c].draft.file = "messages" => TrueDoc(sent, roster, job'[c].draft.doc)
    BY <1>0, <1>7 DEF TrueJob
  <2> QED BY <1>4, <1>7, <2>3, <2>4 DEF TrueJob
<1>8. CASE /\ pc[c] # "reading" /\ pc'[c] # "groups" /\ job'[c].req = job[c].req
           /\ job'[c].todo \subseteq job[c].todo
           /\ \/ job'[c].draft \in {job[c].draft, NoDraft}
              \/ /\ pc[c] = "sending"
                 /\ \E to \in job[c].todo :
                      job'[c].draft = Draft("messages",
                        Left(disk["messages"], job[c].req.id, to, job[c].req.arg[2]))
  <2>1. job'[c].req.cmd = "SEND" => \A to \in job'[c].todo : Reached(roster, Posted(job'[c].req), to)
    BY <1>0, <1>8 DEF TrueJob
  <2>2. CASE job'[c].draft \in {job[c].draft, NoDraft}
    <3>1. job'[c].draft.file = "messages" => TrueDoc(sent, roster, job'[c].draft.doc)
      BY <1>0, <2>2, NoDraftFile DEF TrueJob
    <3> QED BY <1>4, <1>8, <2>1, <3>1 DEF TrueJob
  <2>3. CASE /\ pc[c] = "sending"
             /\ \E to \in job[c].todo :
                  job'[c].draft = Draft("messages",
                    Left(disk["messages"], job[c].req.id, to, job[c].req.arg[2]))
    <3>1. PICK to \in job[c].todo :
            job'[c].draft = Draft("messages", Left(disk["messages"], job[c].req.id, to, job[c].req.arg[2]))
      BY <2>3
    <3>2. PICK from, text, old : from = job[c].req.id /\ text = job[c].req.arg[2] /\ old = disk["messages"]
      OBVIOUS
    <3>3. job[c].req.cmd = "SEND" /\ from \in Ids /\ text \in Texts /\ to \in Ids
      BY <1>0, <2>3, <3>1, <3>2, RequestHolds DEF Placed, JobTyped
    <3>4. Vouched(sent, roster, from, to, text)
      <4>1. Posted(job[c].req) \in sent /\ Reached(roster, Posted(job[c].req), to)
        BY <1>0, <3>1, <3>3 DEF TrueJob, HonestOnes
      <4> QED BY <3>2, <4>1, PostedIs DEF Vouched
    <3>5. PICK doc : doc = Left(old, from, to, text)
      OBVIOUS
    <3>6. \A key \in DOMAIN doc : \A k \in DOMAIN doc[key] :
            \/ key = << to, from >> /\ doc[key][k] = text
            \/ key \in DOMAIN old /\ k \in DOMAIN old[key] /\ doc[key][k] = old[key][k]
      BY <1>0, <3>2, <3>3, <3>5, LeftTyped
    <3>7. TrueDoc(sent, roster, doc)
      BY <1>0, <3>2, <3>4, <3>6 DEF TrueDoc
    <3>8. job'[c].draft.doc = doc
      BY <3>1, <3>2, <3>5 DEF Draft
    <3> QED BY <1>4, <1>8, <2>1, <3>7, <3>8 DEF TrueJob
  <2> QED BY <1>8, <2>2, <2>3
<1>9. CASE /\ job'[c].todo = {}
           /\ job'[c].draft = Draft("messages", Cleared(disk["messages"], job[c].req.id))
           /\ job'[c].req.cmd # "SEND"
  <2>1. PICK old, doc : old = disk["messages"] /\ doc = Cleared(old, job[c].req.id)
    OBVIOUS
  <2>2. \A key \in DOMAIN doc : key \in DOMAIN old /\ doc[key] = old[key]
    BY <1>0, <2>1, ClearedTyped
  <2>3. TrueDoc(sent, roster, doc)
    BY <1>0, <2>1, <2>2 DEF TrueDoc
  <2>4. job'[c].draft.doc = doc
    BY <1>9, <2>1 DEF Draft
  <2> QED BY <1>4, <1>9, <2>3, <2>4 DEF TrueJob
<1> QED BY <1>1, <1>5, <1>6, <1>7, <1>8, <1>9 DEF NextJob

\* A step of the server keeps Truth.
LEMMA TruthServe ==
  ASSUME Talk, FitFiles, Maps, Truth, NEW c \in Threads, Serve(c)
  PROVE  Truth'
<1>1. TurnOf(c) /\ Others(c) /\ UNCHANGED << sent, me >>
  BY ServeIs, ServeLeaves
<1>2. /\ Grew(sent, roster, sent', roster') /\ roster' \in [Groups -> SUBSET Ids]
      /\ TrueDoc(sent', roster', disk'["messages"]) /\ InGroups(roster', disk'["groups"])
      /\ sent \subseteq Posts
  BY ServeGrows DEF Truth
<1>3. ASSUME NEW r \in received'
      PROVE  /\ r \in [session : Sessions, from : Ids, text : Texts] /\ me'[r.session] \in Ids
             /\ Vouched(sent', roster', r.from, me'[r.session], r.text)
  <2>1. /\ r \in [session : Sessions, from : Ids, text : Texts] /\ me[r.session] \in Ids
        /\ Vouched(sent, roster, r.from, me[r.session], r.text)
    BY ServeShows DEF Truth
  <2> QED BY <1>1, <1>2, <2>1, GrownStaysTrue
<1>4. ASSUME NEW s \in Sessions PROVE inbound'[Main(s)] \in Seq(HonestOnes(sent'))
  <2>1. inbound[Main(s)] \in Seq(HonestOnes(sent)) /\ Main(s) \in Threads
    BY Ends DEF Truth
  <2> QED BY <1>1, <2>1, TurnQueue
<1>5. ASSUME NEW d \in Threads PROVE TrueJob(sent', roster', pc'[d], job'[d])
  <2>1. TrueJob(sent, roster, pc'[d], job'[d])
    <3>1. CASE d = c
      BY <3>1, ServeJobIsTrue
    <3>2. CASE d # c
      BY <1>1, <3>2 DEF Others, Truth
    <3> QED BY <3>1, <3>2
  <2> QED BY <1>2, <2>1, GrownStaysTrue
<1>6. received' \subseteq [session : Sessions, from : Ids, text : Texts]
  BY <1>3
<1>7. \A r \in received' : me'[r.session] \in Ids /\ Vouched(sent', roster', r.from, me'[r.session], r.text)
  BY <1>3
<1>8. sent' \subseteq Posts
  BY <1>1, <1>2
<1> QED BY <1>2, <1>4, <1>5, <1>6, <1>7, <1>8 DEF Truth

\* A client that has an id keeps it.
LEMMA IdsStay ==
  ASSUME Talk, NEW s \in Sessions, Client(s), NEW t \in Sessions, me[t] \in Ids
  PROVE  me'[t] = me[t]
<1>0. Guests /\ Spoken(s) /\ Elsewhere(s)
  BY ClientSpeaks DEF Talk
<1>1. t # s => me'[t] = me[t]
  BY <1>0 DEF Elsewhere
<1>2. Newcomer(s) => me[s] \notin Ids
  BY <1>0 DEF Guests, Guest, Ids, Nobody
<1>3. me'[s] = me[s] \/ Newcomer(s)
  BY <1>0 DEF Spoken, Enquires, Stalls, IsTold, Chats, Parts, SameInbox, Newcomer, Asking
<1> QED BY <1>1, <1>2, <1>3

\* What a client sends it has sent.
LEMMA ClientHistory ==
  ASSUME Talk, NEW s \in Sessions, Client(s)
  PROVE  /\ UNCHANGED << disk, roster, received >>
         /\ \/ sent' = sent /\ inbound'[Main(s)] = inbound[Main(s)]
            \/ \E req \in Requested :
                 /\ inbound'[Main(s)] = Append(inbound[Main(s)], req)
                 /\ \/ req.cmd # "SEND" /\ sent' = sent
                    \/ Posted(req) \in Posts /\ sent' = sent \cup {Posted(req)}
<1>1. CASE Say(s)
  <2>0. Shapes /\ Main(s) \in Threads
    BY ShapesOfTalk, Ends
  <2>1. PICK t \in Texts :
          /\ inbound' = [inbound EXCEPT ![Main(s)] = Append(@, Request(s, "SEND", << chat[s], t >>))]
          /\ sent' = sent \cup {[from |-> me[s], to |-> chat[s], text |-> t]}
    BY <1>1 DEF Say
  <2>2. user[s] = "chat" /\ chat[s] \in Ids \cup Groups /\ UNCHANGED << disk, roster, received >>
    BY <1>1 DEF Say, serverVars, sharedVars
  <2>3. me[s] \in Ids
    BY <2>2 DEF Talk, Guests, Newcomer, Asking
  <2>4. PICK req : req = Request(s, "SEND", << chat[s], t >>)
    OBVIOUS
  <2>5. /\ req \in Requested /\ req.cmd = "SEND" /\ req.id = me[s] /\ req.arg = << chat[s], t >>
    BY <2>2, <2>3, <2>4 DEF Request, Requested
  <2>6. Posted(req) = [from |-> me[s], to |-> chat[s], text |-> t]
    BY <2>5 DEF Posted
  <2>7. Posted(req) \in Posts
    BY <2>2, <2>3, <2>6 DEF Posts
  <2>8. inbound'[Main(s)] = Append(inbound[Main(s)], req)
    BY <2>0, <2>1, <2>4 DEF Shapes
  <2> QED BY <2>1, <2>2, <2>5, <2>6, <2>7, <2>8
<1>2. CASE ~ Say(s)
  <2>1. UNCHANGED << disk, roster, received, sent >>
    <3>1. CASE LogIn(s) \/ SignUp(s) \/ Command(s) \/ Misuse(s) \/ LeaveChat(s)
      BY <3>1 DEF LogIn, SignUp, Connects, Command, Misuse, LeaveChat, serverVars, sharedVars, historyVars
    <3>2. CASE ReadAnswer(s)
      BY <3>2 DEF ReadAnswer
    <3>3. CASE Quit(s) \/ Killed(s)
      BY <3>3 DEF Quit, Killed, Leaves, serverVars, sharedVars, historyVars
    <3> QED BY <1>2, <3>1, <3>2, <3>3 DEF Client
  <2>2. CASE LeaveChat(s)
    BY <2>1, <2>2 DEF LeaveChat
  <2>3. CASE ~ LeaveChat(s)
    <3>1. Enquires(s) \/ Stalls(s) \/ IsTold(s) \/ Parts(s)
      BY <1>2, <2>3, LogInSpeaks, MenuSpeaks, ReadAnswerSpeaks, EndSpeaks DEF Client
    <3>2. \/ inbound'[Main(s)] = inbound[Main(s)]
          \/ \E req \in Requested :
               req.cmd # "SEND" /\ inbound'[Main(s)] = Append(inbound[Main(s)], req)
      BY <3>1 DEF Enquires, Stalls, IsTold, Parts, Writes
    <3> QED BY <2>1, <3>2
  <2> QED BY <2>2, <2>3
<1> QED BY <1>1, <1>2

\* A step of a client keeps Truth.
LEMMA TruthClient ==
  ASSUME Talk, Truth, NEW s \in Sessions, Client(s)
  PROVE  Truth'
<1>0. Spoken(s) /\ Elsewhere(s) /\ Main(s) \in Threads /\ Inbox(s) \in Threads
  BY ClientSpeaks, Ends
<1>1. UNCHANGED << disk, roster, received >> /\ sent \subseteq Posts
  BY ClientHistory DEF Truth
<1>2. sent \subseteq sent' /\ sent' \subseteq Posts
  BY <1>1, ClientHistory
<1>3. Grew(sent, roster, sent', roster')
  BY <1>1, <1>2 DEF Grew
<1>4. ASSUME NEW r \in received'
      PROVE  me'[r.session] \in Ids /\ Vouched(sent', roster', r.from, me'[r.session], r.text)
  <2>1. r.session \in Sessions /\ me[r.session] \in Ids /\ Vouched(sent, roster, r.from, me[r.session], r.text)
    BY <1>1 DEF Truth
  <2>2. me'[r.session] = me[r.session]
    BY <2>1, IdsStay
  <2> QED BY <1>1, <1>3, <2>1, <2>2, GrownStaysTrue
<1>5. TrueDoc(sent', roster', disk'["messages"]) /\ InGroups(roster', disk'["groups"])
  BY <1>1, <1>3, GrownStaysTrue DEF Truth
<1>6. ASSUME NEW t \in Sessions PROVE inbound'[Main(t)] \in Seq(HonestOnes(sent'))
  <2>1. inbound[Main(t)] \in Seq(HonestOnes(sent'))
    <3>1. HonestOnes(sent) \subseteq HonestOnes(sent')
      BY <1>1, <1>3, GrownStaysTrue
    <3>2. inbound[Main(t)] \in Seq(HonestOnes(sent))
      BY DEF Truth
    <3> QED BY <3>1, <3>2, SeqLarger
  <2>2. CASE t # s
    BY <1>0, <2>1, <2>2 DEF Elsewhere
  <2>3. CASE t = s
    <3>1. \/ inbound'[Main(s)] = inbound[Main(s)]
          \/ \E req \in HonestOnes(sent') : inbound'[Main(s)] = Append(inbound[Main(s)], req)
      BY ClientHistory DEF HonestOnes
    <3> QED BY <2>1, <2>3, <3>1, Appended
  <2> QED BY <2>2, <2>3
<1>7. ASSUME NEW d \in Threads PROVE TrueJob(sent', roster', pc'[d], job'[d])
  <2>1. TrueJob(sent', roster', pc[d], job[d])
    BY <1>1, <1>3, GrownStaysTrue DEF Truth
  <2>2. SameThread(d) \/ job'[d] = NoJob
    <3>1. PICK t \in Sessions : d = Main(t) \/ d = Inbox(t)
      BY ThreadIsEnd
    <3>2. CASE t # s
      BY <1>0, <3>1, <3>2 DEF Elsewhere, SameThread
    <3>3. CASE t = s
      BY <1>0, <3>1, <3>3 DEF Spoken, Enquires, Stalls, IsTold, Chats, Parts, SameInbox
    <3> QED BY <3>2, <3>3
  <2> QED BY <2>1, <2>2, NoJobIsTrue DEF SameThread
<1>8. roster' \in [Groups -> SUBSET Ids] /\ received' \subseteq [session : Sessions, from : Ids, text : Texts]
  BY <1>1 DEF Truth
<1> QED BY <1>2, <1>4, <1>5, <1>6, <1>7, <1>8 DEF Truth

\* A crash keeps Truth: texts that are in work or on the way are lost, not changed.
LEMMA TruthCrash ==
  ASSUME Truth, Crash
  PROVE  Truth'
<1>1. /\ UNCHANGED << disk, me, sent, roster, received >>
      /\ \A c \in Threads : job'[c] = NoJob /\ inbound'[c] = << >>
  BY DEF Crash, historyVars
<1>2. \A s \in Sessions : inbound'[Main(s)] \in Seq(HonestOnes(sent'))
  BY <1>1, Ends, EmptySeq
<1> QED BY <1>1, <1>2, NoJobIsTrue DEF Truth

\* Truth holds at first: nothing is sent, and messages.json is empty.
LEMMA InitTruth == Init => Truth
<1> SUFFICES ASSUME Init PROVE Truth
  OBVIOUS
<1>1. /\ disk \in FirstFiles /\ roster = [g \in Groups |-> MembersOf(disk["groups"], g)]
      /\ sent = {} /\ received = {}
      /\ \A c \in Threads : job[c] = NoJob /\ inbound[c] = << >>
  BY DEF Init
<1>2. IsGroups(disk["groups"]) /\ disk["messages"] = << >>
  BY <1>1, ChatappServerAssumption DEF Files, Holds
<1>3. roster \in [Groups -> SUBSET Ids] /\ InGroups(roster, disk["groups"])
  <2>1. \A g : MembersOf(disk["groups"], g) \subseteq Ids
    BY <1>2, GroupsTyped
  <2> QED BY <1>1, <1>2, <2>1 DEF InGroups, IsGroups, MembersOf
<1>4. \A s \in Sessions : inbound[Main(s)] \in Seq(HonestOnes(sent))
  BY <1>1, Ends, EmptySeq
<1> QED BY <1>1, <1>2, <1>3, <1>4, NoJobIsTrue, EmptyIsTrue DEF Truth

\* Truth is about variables of the specification only.
LEMMA TruthStill ==
  ASSUME Truth, UNCHANGED vars
  PROVE  Truth'
BY DEF Truth, vars, serverVars, sharedVars, clientVars, historyVars

\* Every text that was shown, that is in messages.json, in a copy of it or in work, is
\* one that was sent, by the user it is said to be from, for the user it is shown to or
\* left for.
THEOREM TruthHolds == Spec => []Truth
<1>1. FitFiles /\ Talk /\ Maps /\ Truth /\ [Next]_vars => Truth'
  BY TruthServe, TruthClient, TruthCrash, TruthStill DEF Next
<1> QED BY InitTruth, FitFilesHolds, TalkHolds, MapsHold, <1>1, PTL DEF Spec

\* Whoever is shown a text was meant to see it, and so is every text that is left in
\* messages.json, in whatever order the threads write their stale copies of it.
THEOREM GenuineHolds == Spec => []Genuine
<1>1. ASSUME NEW from, NEW id, NEW text, Vouched(sent, roster, from, id, text)
      PROVE  Meant(from, id, text)
  BY <1>1 DEF Vouched, Reached, Meant, Reaches
<1>2. Truth => Genuine
  BY <1>1 DEF Truth, TrueDoc, Genuine
<1> QED BY TruthHolds, <1>2, PTL
-----------------------------------------------------------------------------
(* The types of what is left: counters, the mutex, the names. *)

Rest ==
  /\ mutex \in Threads \cup {Free} /\ restarts \in 0 .. MaxRestarts /\ typed \in 0 .. MaxTyped
  /\ joined \in [Sessions -> Names \cup {NoName}] /\ reused \in BOOLEAN

\* The types at first.
LEMMA InitRest == Init => Rest
<1> SUFFICES ASSUME Init PROVE Rest
  OBVIOUS
<1>1. mutex = Free /\ restarts = 0 /\ typed = 0 /\ reused = FALSE /\ joined = [s \in Sessions |-> NoName]
  BY DEF Init
<1>2. 0 \in 0 .. MaxRestarts /\ 0 \in 0 .. MaxTyped
  BY ChatappServerAssumption
<1>3. joined \in [Sessions -> Names \cup {NoName}]
  BY <1>1
<1> QED BY <1>1, <1>2, <1>3 DEF Rest

\* A step of the server keeps the types.
LEMMA RestServe ==
  ASSUME Rest, NEW c \in Threads, Serve(c)
  PROVE  Rest'
<1>1. UNCHANGED << typed, joined, restarts >>
  BY ServeLeaves
<1>2. mutex' \in {mutex, c, Free} /\ (reused' = reused \/ reused' \in BOOLEAN)
  <2>1. CASE Requests(c)
    BY <2>1 DEF Requests, Authenticate, Ignore, Register, Look, Add, Chat, TakeGroups, Send, Map, Exit,
                serverVars, sharedVars, historyVars
  <2>2. CASE ParseFails(c) \/ ListGroups(c) \/ ChatGroup(c) \/ MakeGroup(c) \/ SendGroup(c) \/ Leave(c)
             \/ PendingFails(c) \/ EndOfStream(c)
    BY <2>2 DEF ParseFails, ListGroups, ChatGroup, MakeGroup, SendGroup, Leave, PendingFails, EndOfStream,
                sharedVars, historyVars
  <2>3. CASE Deliver(c) \/ Pending(c) \/ BeginSave(c) \/ EndSave(c)
    BY <2>3 DEF Deliver, Pending, BeginSave, EndSave, sharedVars, historyVars
  <2> QED BY <2>1, <2>2, <2>3 DEF Serve
<1> QED BY <1>1, <1>2 DEF Rest

\* What is typed stays within its bound.
LEMMA RestTyped ==
  ASSUME Rest, NEW n \in Nat, Types(n)
  PROVE  typed' \in 0 .. MaxTyped
<1>1. MaxTyped \in Nat /\ typed \in 0 .. MaxTyped
  BY ChatappServerAssumption DEF Rest
<1> QED BY <1>1 DEF Types

\* A step of a client keeps the types.
LEMMA RestClient ==
  ASSUME Talk, Rest, NEW s \in Sessions, Client(s)
  PROVE  Rest'
<1>1. UNCHANGED << mutex, restarts, reused >>
  BY DEF Client, LogIn, SignUp, Connects, Command, Misuse, ReadAnswer, Say, LeaveChat, Quit, Killed,
         Leaves, serverVars, sharedVars, historyVars
<1>2. typed' \in 0 .. MaxTyped
  <2>1. Writing \in Nat /\ Quiet \in Nat
    BY DEF Writing, Quiet
  <2>2. typed' = typed \/ \E n \in {Writing, Quiet} : Types(n)
    BY DEF Client, LogIn, SignUp, Command, Misuse, ReadAnswer, Say, LeaveChat, Quit, Killed
  <2> QED BY <2>1, <2>2, RestTyped DEF Rest
<1>3. joined' \in [Sessions -> Names \cup {NoName}]
  <2>1. joined' = joined
        \/ (asked[s].cmd = "REGISTER" /\ joined' = [joined EXCEPT ![s] = asked[s].arg[1]])
    BY DEF Client, LogIn, SignUp, Command, Misuse, ReadAnswer, Say, LeaveChat, Quit, Killed,
           Leaves, historyVars
  <2>2. asked[s] \in Requested
    BY DEF Talk, Clients
  <2>3. asked[s].cmd = "REGISTER" => asked[s].arg[1] \in Names
    BY <2>2, RequestHolds
  <2> QED BY <2>1, <2>3 DEF Rest
<1> QED BY <1>1, <1>2, <1>3 DEF Rest

\* A crash keeps the types.
LEMMA RestCrash ==
  ASSUME Rest, Crash
  PROVE  Rest'
<1>1. Quiet \in Nat /\ Types(Quiet)
  BY DEF Quiet, Crash
<1>2. typed' \in 0 .. MaxTyped
  BY <1>1, RestTyped
<1>3. MaxRestarts \in Nat /\ restarts \in 0 .. MaxRestarts /\ restarts < MaxRestarts /\ restarts' = restarts + 1
  BY ChatappServerAssumption DEF Rest, Crash
<1>4. restarts' \in 0 .. MaxRestarts
  BY <1>3
<1>5. mutex' = Free /\ UNCHANGED << joined, reused >>
  BY DEF Crash, historyVars
<1> QED BY <1>2, <1>4, <1>5 DEF Rest

\* Answers are values.
LEMMA GivesValues == \A cmd : Gives(cmd) \subseteq Values
BY DEF Gives, Values

\* Types, put together from what each part says of them.
LEMMA TypesTogether ==
  ASSUME Talk, Maps, Truth, Rest
  PROVE  TypeOK
<1>1. DOMAIN disk = Files /\ torn \subseteq Files /\ \A f \in Files : Holds(f, disk[f])
  BY DEF Talk, Disks, Document
<1>2. DOMAIN clientMap \subseteq Ids /\ open \subseteq Threads
  BY DEF Maps, Mapped
<1>2a. \A id \in DOMAIN clientMap : clientMap[id] \in Threads \cup {Stdin}
  BY <1>2 DEF Maps, Mapped
<1>3. pc \in [Threads -> Steps]
  BY DEF Talk, Served
<1>4. ASSUME NEW c \in Threads
      PROVE  /\ job[c].req \in Requested /\ IsPrivate(job[c].users)
             /\ job[c].todo \subseteq Ids /\ job[c].replies \in Seq(Values)
             /\ job[c].draft = NoDraft \/ Holds(job[c].draft.file, job[c].draft.doc)
             /\ inbound[c] \in Seq(Requested)
  <2>1. JobTyped(job[c])
    BY DEF Talk, Served
  <2>2. job[c].replies \in Seq(Values)
    BY <2>1, GivesValues, SeqLarger DEF JobTyped
  <2>3. inbound[c] \in Seq(Requested)
    <3>1. PICK s \in Sessions : c = Main(s) \/ c = Inbox(s)
      BY ThreadIsEnd
    <3>2. inbound[Main(s)] \in Seq(MainOrders) /\ inbound[Inbox(s)] \in Seq(InboxOrders(s))
      BY DEF Talk, Queued
    <3>3. MainOrders \subseteq Requested /\ InboxOrders(s) \subseteq Requested
      BY DEF MainOrders, InboxOrders, Requested
    <3> QED BY <3>1, <3>2, <3>3, SeqLarger
  <2> QED BY <2>1, <2>2, <2>3 DEF JobTyped, Document
<1>5. ASSUME NEW s \in Sessions PROVE mail[s] \in Seq([cmd : Answered, value : Values])
  <2>1. mail[s] \in Seq(Letter)
    BY DEF Talk, Queued
  <2>3. Letter \subseteq [cmd : Answered, value : Values]
    BY DEF Letter
  <2> QED BY <2>1, <2>3, SeqLarger
<1>6. /\ user \in [Sessions -> {"off", "denied", "menu", "wait", "chat", "over"}]
      /\ me \in [Sessions -> Ids \cup {Nobody}] /\ asked \in [Sessions -> Requested]
      /\ chat \in [Sessions -> Values] /\ inbox \in [Sessions -> {"none", "up", "down"}]
  BY DEF Talk, Clients
<1>7. /\ received \subseteq [session : Sessions, from : Ids, text : Texts]
      /\ sent \subseteq [from : Ids, to : Ids \cup Groups, text : Texts]
      /\ roster \in [Groups -> SUBSET Ids]
  BY DEF Truth, Posts
<1> QED BY <1>1, <1>2, <1>2a, <1>3, <1>4, <1>5, <1>6, <1>7 DEF Rest, TypeOK

\* Every variable of the server, of its clients and of the histories keeps its type,
\* the documents in the files and in the threads' copies of them included.
THEOREM TypeCorrect == Spec => []TypeOK
<1>1. Talk /\ Rest /\ [Next]_vars => Rest'
  <2>1. Rest /\ UNCHANGED vars => Rest'
    BY DEF Rest, vars, serverVars, sharedVars, clientVars, historyVars
  <2> QED BY <2>1, RestServe, RestClient, RestCrash DEF Next
<1>2. Spec => []Rest
  BY InitRest, TalkHolds, <1>1, PTL DEF Spec
<1> QED BY <1>2, TalkHolds, MapsHold, TruthHolds, TypesTogether, PTL
=============================================================================
