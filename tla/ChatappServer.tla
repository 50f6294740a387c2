---------------------------- MODULE ChatappServer ----------------------------
(***************************************************************************)
(* The Chatapp-Terminal server and its clients (kod 2).  The server runs a *)
(* thread for every connection; the threads share three files, one mutex   *)
(* and clientMap, the connection on which each user listens.  A thread     *)
(* parses private.json under the mutex, works on its own copy with the     *)
(* mutex free, and writes the whole copy back under the mutex.             *)
(*                                                                         *)
(* A client (a session) has two connections.  On "main" it sends requests  *)
(* and waits for their answers, without a word in the answer that tells    *)
(* which request it is for; on "inbox" it sends MAP and PENDING and then   *)
(* prints whatever comes.                                                  *)
(*                                                                         *)
(* A file is torn from the moment its ofstream truncates it to the close   *)
(* that puts the last byte in it: a parser refuses it.  A parse under the  *)
(* mutex is one step, since whoever else opens the file does it under the  *)
(* mutex too; PENDING reads without it.                                    *)
(***************************************************************************)
EXTENDS ChatappStore

CONSTANTS MaxSessions,  \* bound: how many times a client is started
          MaxTyped,     \* bound: what all users type together
          MaxRestarts,  \* bound: how often the server dies and is started again
          FirstFiles,   \* what the files may hold when the server first starts
          NewNames,     \* the names users sign up under
          WordLists,    \* the sets of user names a GROUP may list
          Free          \* the mutex has no holder

Files == {"private", "groups", "messages"}

Holds(f, doc) ==
  CASE f = "private"  -> IsPrivate(doc)
    [] f = "groups"   -> IsGroups(doc)
    [] f = "messages" -> IsMessages(doc)

ASSUME ChatappServerAssumption ==
  /\ MaxSessions \in Nat /\ MaxTyped \in Nat /\ MaxRestarts \in Nat
  /\ NewNames \subseteq Names
  /\ \A first \in FirstFiles :
       /\ DOMAIN first = Files /\ \A f \in Files : Holds(f, first[f])
       /\ Sound(first["private"]) /\ first["messages"] = << >>
  /\ Free \notin (1 .. MaxSessions) \X {"main", "inbox"}

Sessions == 1 .. MaxSessions
Threads  == Sessions \X {"main", "inbox"}

VARIABLES
  disk,      \* the document in each file, none while it is torn
  torn,      \* the files that do not parse
  mutex,     \* mymutex: the thread that holds it, or Free
  clientMap, \* clientMap: the connection each id listens on
  open,      \* connections whose descriptor the server has open
  pc,        \* where each thread of the server is
  job,       \* the request a thread works on and what it has found
  restarts,  \* how often the server has died and was started again
  inbound,   \* requests sent on each connection and not read yet
  mail,      \* answers sent on the main connection and not read yet
  user,      \* where the main thread of each client is
  me,        \* the id the client was given
  asked,     \* the request the client waits for
  chat,      \* whom the client is chatting with
  inbox,     \* the client's second connection
  typed,     \* how much has been typed
  received,  \* history: what was printed on an inbox
  sent,      \* history: what was sent, from whom and to whom
  roster,    \* history: who was ever a member of each group
  joined,    \* history: the name under which a client was registered
  reused     \* history: REGISTER took an id that was in the file

sharedVars  == << disk, torn, mutex, clientMap, open, restarts >>
serverVars  == << sharedVars, pc, job >>
clientVars  == << user, me, asked, chat, inbox, typed >>
historyVars == << received, sent, roster, joined, reused >>
vars == << serverVars, inbound, mail, clientVars, historyVars >>

NoRequest == [cmd |-> "NONE", id |-> Nobody, arg |-> NoName]
NoDraft   == [file |-> "none", doc |-> << >>]
NoJob     == [req |-> NoRequest, users |-> << >>, todo |-> {},
              draft |-> NoDraft, replies |-> << >>]

Init ==
  /\ disk \in FirstFiles
  /\ roster = [g \in Groups |-> MembersOf(disk["groups"], g)]
  /\ torn = {} /\ mutex = Free /\ clientMap = << >> /\ open = {} /\ restarts = 0
  /\ pc = [c \in Threads |-> "none"] /\ job = [c \in Threads |-> NoJob]
  /\ inbound = [c \in Threads |-> << >>] /\ mail = [s \in Sessions |-> << >>]
  /\ user = [s \in Sessions |-> "off"] /\ me = [s \in Sessions |-> Nobody]
  /\ asked = [s \in Sessions |-> NoRequest] /\ chat = [s \in Sessions |-> Nobody]
  /\ inbox = [s \in Sessions |-> "none"] /\ typed = 0
  /\ received = {} /\ sent = {} /\ reused = FALSE
  /\ joined = [s \in Sessions |-> NoName]

Goto(c, step, j) == pc' = [pc EXCEPT ![c] = step] /\ job' = [job EXCEPT ![c] = j]

\* A thread that takes a request has read it, has the mutex for the parse, and has
\* parsed private.json.
Takes(c, cmd) ==
  /\ pc[c] = "reading" /\ inbound[c] # << >> /\ Head(inbound[c]).cmd = cmd
  /\ mutex = Free /\ "private" \notin torn
  /\ inbound' = [inbound EXCEPT ![c] = Tail(@)]

Taken(c)      == Head(inbound[c])
Accounts      == disk["private"]
JobOf(req)    == [NoJob EXCEPT !.req = req]
Draft(f, doc) == [file |-> f, doc |-> doc]

Mails(c, cmd, replies) ==
  mail' = [mail EXCEPT ![c[1]] =
    IF user[c[1]] = "over" THEN @
    ELSE @ \o [k \in DOMAIN replies |-> [cmd |-> cmd, value |-> replies[k]]]]

\* What a thread does with its request once it has the answer: it goes to write a
\* file first, or answers at once.  An answer is part of the step it follows: only
\* the client can tell when it came.
Saves(c, req, f, doc, replies) ==
  /\ Goto(c, "save", [JobOf(req) EXCEPT !.draft = Draft(f, doc), !.replies = replies])
  /\ UNCHANGED mail
Answers(c, req, replies) == Mails(c, req.cmd, replies) /\ Goto(c, "reading", NoJob)

\* The receivers that are left of a SEND.
Sends(c, j, todo) ==
  IF todo = {} THEN Goto(c, "reading", NoJob)
               ELSE Goto(c, "sending", [j EXCEPT !.todo = todo])

\* Looking up an id that is not in clientMap puts it there, with descriptor 0: the
\* standard input of the server, which no send goes through.
Stdin        == << 0, "stdin" >>
LookedUp(id) == IF id \in DOMAIN clientMap THEN clientMap ELSE Put(clientMap, id, Stdin)

\* Nothing on a connection whose client is gone is ever printed.
Printed(to, from, text) ==
  IF LookedUp(to)[to] # Stdin /\ inbox[clientMap[to][1]] = "up"
  THEN {[session |-> clientMap[to][1], from |-> from, text |-> text]}
  ELSE {}

-----------------------------------------------------------------------------
(* Variants of steps below, as a slip in the code would make them. *)

\* A login that fails is written back as well.
Authenticate_Unchecked(c) ==
  /\ Takes(c, "AUTHENTICATE")
  /\ LET req == Taken(c)
         id  == Authenticated(Accounts, req.arg[1], req.arg[2])
     IN  Saves(c, req, "private", SignedIn(Accounts, id), << id >>)
  /\ UNCHANGED << sharedVars, clientVars, historyVars >>

\* PENDING takes a file that does not parse for an empty one.
PendingFails_Ignored(c) ==
  /\ pc[c] = "peek" /\ "messages" \in torn
  /\ Saves(c, job[c].req, "messages", << >>, << >>)
  /\ UNCHANGED << sharedVars, inbound, clientVars, historyVars >>

\* A file is written with the mutex free.
BeginSave_Unlocked(c) ==
  /\ pc[c] = "save" /\ mutex = Free
  /\ torn' = torn \cup {job[c].draft.file}
  /\ disk' = [disk EXCEPT ![job[c].draft.file] = << >>]
  /\ pc' = [pc EXCEPT ![c] = "saving"]
  /\ UNCHANGED << mutex, clientMap, open, job, restarts, inbound, mail, clientVars, historyVars >>

PeerGone(c) == IF c[2] = "main" THEN user[c[1]] = "over" ELSE inbox[c[1]] = "down"

\* A thread closes its descriptor when it finds the end of the stream.
EndOfStream_Closes(c) ==
  /\ pc[c] = "reading" /\ inbound[c] = << >> /\ PeerGone(c)
  /\ Goto(c, "gone", NoJob)
  /\ open' = open \ {c}
  /\ UNCHANGED << disk, torn, mutex, clientMap, restarts, inbound, mail, clientVars, historyVars >>

-----------------------------------------------------------------------------
(* Requests: the parse of private.json and the work on the copy. *)

Authenticate(c) ==
  /\ Takes(c, "AUTHENTICATE")
  /\ LET req == Taken(c)
         id  == Authenticated(Accounts, req.arg[1], req.arg[2])
     IN  IF id = Nobody
         THEN Answers(c, req, << Nobody >>)
         ELSE Saves(c, req, "private", SignedIn(Accounts, id), << id >>)
  /\ UNCHANGED << sharedVars, clientVars, historyVars >>

\* AUTHENTICATE with more than two words after it (a name or a password with a
\* space) gets no answer.
Ignore(c) ==
  /\ Takes(c, "AUTHENTICATE_WORDS")
  /\ UNCHANGED << serverVars, mail, clientVars, historyVars >>

Register(c) ==
  /\ Takes(c, "REGISTER")
  /\ NewId(Accounts) <= MaxId
  /\ LET req == Taken(c)
     IN  Saves(c, req, "private", Registered(Accounts, req.arg[1], req.arg[2]),
               << NewId(Accounts) >>)
  /\ reused' = (reused \/ NewId(Accounts) \in DOMAIN Accounts)
  /\ UNCHANGED << sharedVars, clientVars,
                  received, sent, roster, joined >>

\* ONLINE, FRIENDS, LIST, REQUESTS, LAST_SEEN and LAST_SEEN_ALL: a text made from
\* the copy, which is not written back.
Look(c) ==
  /\ Takes(c, "LOOK")
  /\ Answers(c, Taken(c), << Nobody >>)
  /\ UNCHANGED << sharedVars, clientVars, historyVars >>

Add(c) ==
  /\ Takes(c, "ADD")
  /\ LET req   == Taken(c)
         other == Named(Accounts, req.arg, req.id)
         all   == AddAnswers(Accounts, req.id, other)
     IN  IF AddWrites(Accounts, req.id, other)
         THEN Saves(c, req, "private", Befriended(Accounts, req.id, other), all)
         ELSE Answers(c, req, all)
  /\ UNCHANGED << sharedVars, clientVars, historyVars >>

Chat(c) ==
  /\ Takes(c, "CHAT")
  /\ LET req    == Taken(c)
         friend == FriendNamed(Accounts, req.id, req.arg)
     IN  IF friend # Nobody THEN Answers(c, req, << friend >>)
                            ELSE Goto(c, "groups", JobOf(req)) /\ UNCHANGED mail
  /\ UNCHANGED << sharedVars, clientVars, historyVars >>

\* LISTGROUPS and GROUP go on to groups.json, with the copy.
TakeGroups(c) ==
  /\ \/ Takes(c, "LISTGROUPS")
     \/ Takes(c, "GROUP")
  /\ Goto(c, "groups", [JobOf(Taken(c)) EXCEPT !.users = Accounts])
  /\ UNCHANGED << sharedVars, mail, clientVars, historyVars >>

\* SEND to a number is for a user, to any other word for a group.
Send(c) ==
  /\ Takes(c, "SEND")
  /\ LET req == Taken(c)
         j   == [JobOf(req) EXCEPT !.users = Accounts]
     IN  IF req.arg[1] \in Ids THEN Sends(c, j, {req.arg[1]})
                               ELSE Goto(c, "groups", j)
  /\ UNCHANGED << sharedVars, mail, clientVars, historyVars >>

\* MAP writes clientMap with no lock.  The step goes on to the parse PENDING starts
\* with, which finds the mutex free as well and changes nothing anybody sees.
Map(c) ==
  /\ Takes(c, "MAP")
  /\ clientMap' = Put(clientMap, Taken(c).id, c)
  /\ Goto(c, "peek", JobOf([Taken(c) EXCEPT !.cmd = "PENDING"]))
  /\ UNCHANGED << disk, torn, mutex, open, restarts, mail, clientVars, historyVars >>

Exit(c) ==
  /\ Takes(c, "EXIT")
  /\ LET req == Taken(c)
     IN  Saves(c, req, "private", SignedOut(Accounts, req.id), << >>)
  /\ UNCHANGED << sharedVars, clientVars, historyVars >>

Requests(c) ==
  \/ Authenticate(c) \/ Ignore(c) \/ Register(c) \/ Look(c) \/ Add(c) \/ Chat(c)
  \/ TakeGroups(c) \/ Send(c) \/ Map(c) \/ Exit(c)

-----------------------------------------------------------------------------
(* The other files. *)

Parses(c, step, f) == pc[c] = step /\ mutex = Free /\ f \notin torn

Offline(c, to) == ~ At(job[c].users, to).online

\* A parse that fails returns from the thread, which never gives the mutex back.
ParseFails(c) ==
  /\ mutex = Free
  /\ \/ pc[c] = "reading" /\ inbound[c] # << >> /\ "private" \in torn
     \/ pc[c] = "groups" /\ "groups" \in torn
     \/ /\ pc[c] = "sending" /\ "messages" \in torn
        /\ \E to \in job[c].todo : Offline(c, to)
  /\ mutex' = c
  /\ Goto(c, "gone", NoJob)
  /\ UNCHANGED << disk, torn, clientMap, open, restarts, inbound, mail, clientVars, historyVars >>

ListGroups(c) ==
  /\ Parses(c, "groups", "groups") /\ job[c].req.cmd = "LISTGROUPS"
  /\ Answers(c, job[c].req, << Nobody >>)
  /\ UNCHANGED << sharedVars, inbound, clientVars, historyVars >>

ChatGroup(c) ==
  /\ Parses(c, "groups", "groups") /\ job[c].req.cmd = "CHAT"
  /\ LET word == job[c].req.arg
     IN  Answers(c, job[c].req,
                 << IF word \in DOMAIN disk["groups"] THEN word ELSE Nobody >>)
  /\ UNCHANGED << sharedVars, inbound, clientVars, historyVars >>

MakeGroup(c) ==
  /\ Parses(c, "groups", "groups") /\ job[c].req.cmd = "GROUP"
  /\ LET req    == job[c].req
         group  == req.arg[1]
         listed == Members(job[c].users, req.id, req.arg[2])
     IN  IF group \in DOMAIN disk["groups"]
         THEN Answers(c, req, << Nobody >>)
         ELSE Saves(c, req, "groups", Put(disk["groups"], group, listed), << 1 >>)
  /\ UNCHANGED << sharedVars, inbound, clientVars, historyVars >>

\* Everybody in the group but the sender.
SendGroup(c) ==
  /\ Parses(c, "groups", "groups") /\ job[c].req.cmd = "SEND"
  /\ LET req == job[c].req
     IN  Sends(c, job[c], MembersOf(disk["groups"], req.arg[1]) \ {req.id})
  /\ UNCHANGED << sharedVars, mail, inbound, clientVars, historyVars >>

\* A receiver who is not online in the copy: the text is added to a copy of
\* messages.json, which goes to be written.
Leave(c) ==
  /\ Parses(c, "sending", "messages")
  /\ \E to \in job[c].todo :
       LET req == job[c].req
           doc == Left(disk["messages"], req.id, to, req.arg[2])
       IN  /\ Offline(c, to)
           /\ Goto(c, "save", [job[c] EXCEPT !.todo = @ \ {to}, !.draft = Draft("messages", doc)])
  /\ UNCHANGED << sharedVars, inbound, mail, clientVars, historyVars >>

\* A receiver who is online in the copy: the text goes to the connection clientMap
\* has for him, or is lost; an id that is not there is put there.
Deliver(c) ==
  /\ pc[c] = "sending"
  /\ \E to \in job[c].todo :
       /\ ~ Offline(c, to)
       /\ received' = received \cup Printed(to, job[c].req.id, job[c].req.arg[2])
       /\ clientMap' = LookedUp(to)
       /\ Sends(c, job[c], job[c].todo \ {to})
  /\ UNCHANGED << disk, torn, mutex, open, restarts, inbound, mail, clientVars,
                  sent, roster, joined, reused >>

\* PENDING reads messages.json with no lock, sends, and goes to write the rest.  A
\* torn file ends the thread.
Pending(c) ==
  /\ pc[c] = "peek" /\ "messages" \notin torn
  /\ LET id   == job[c].req.id
         last == LastPending(disk["messages"], id)
     IN  /\ received' = IF SendersTo(disk["messages"], id) = {} THEN received
                        ELSE received \cup Printed(id, last.from, last.text)
         /\ Saves(c, job[c].req, "messages", Cleared(disk["messages"], id), << >>)
  /\ UNCHANGED << sharedVars, inbound, clientVars,
                  sent, roster, joined, reused >>

PendingFails(c) ==
  /\ pc[c] = "peek" /\ "messages" \in torn
  /\ Goto(c, "gone", NoJob)
  /\ UNCHANGED << sharedVars, mail, inbound, clientVars, historyVars >>

-----------------------------------------------------------------------------
(* Writing a copy back, and what follows. *)

BeginSave(c) ==
  /\ pc[c] = "save" /\ mutex = Free
  /\ mutex' = c
  /\ torn' = torn \cup {job[c].draft.file}
  /\ disk' = [disk EXCEPT ![job[c].draft.file] = << >>]
  /\ pc' = [pc EXCEPT ![c] = "saving"]
  /\ UNCHANGED << clientMap, open, job, restarts, inbound, mail, clientVars, historyVars >>

EndSave(c) ==
  LET draft == job[c].draft
      cmd   == job[c].req.cmd
  IN
  /\ pc[c] = "saving"
  /\ torn' = torn \ {draft.file}
  /\ disk' = [disk EXCEPT ![draft.file] = draft.doc]
  /\ mutex' = Free
  /\ \/ /\ cmd = "SEND"
        /\ Sends(c, [job[c] EXCEPT !.draft = NoDraft], job[c].todo)
        /\ UNCHANGED << open, mail >>
     \/ /\ cmd = "EXIT"       \* the one request that closes a descriptor, that of main
        /\ Goto(c, "gone", NoJob)
        /\ open' = open \ {c}
        /\ UNCHANGED mail
     \/ /\ cmd \notin {"SEND", "EXIT"}
        /\ Answers(c, job[c].req, job[c].replies)
        /\ UNCHANGED open
  /\ roster' = IF draft.file # "groups" THEN roster
               ELSE [g \in Groups |-> roster[g] \cup MembersOf(draft.doc, g)]
  /\ UNCHANGED << clientMap, restarts, inbound, clientVars, received, sent, joined, reused >>

\* readXBytes finds the end of the stream: the thread ends, the descriptor stays.
EndOfStream(c) ==
  /\ pc[c] = "reading" /\ inbound[c] = << >> /\ PeerGone(c)
  /\ Goto(c, "gone", NoJob)
  /\ UNCHANGED << disk, torn, mutex, clientMap, open, restarts, inbound, mail, clientVars, historyVars >>

\* The process dies, and is started again.  It is stopped by hand, there being no
\* other way; by SIGPIPE, when it writes to a client that is gone; by two threads
\* in clientMap at once, one of them inserting; or because accept fails when all
\* descriptors are in use.  Whichever it was, it may come at any point, and only
\* the files survive.
\* An input after which no file changes counts double.
Types(n) == typed + n <= MaxTyped /\ typed' = typed + n
Writing == 1
Quiet   == 2

Crash ==
  /\ restarts < MaxRestarts /\ Types(Quiet)
  /\ restarts' = restarts + 1
  /\ mutex' = Free /\ clientMap' = << >> /\ open' = {}
  /\ pc' = [c \in Threads |-> IF pc[c] = "none" THEN "none" ELSE "gone"]
  /\ job' = [c \in Threads |-> NoJob]
  /\ inbound' = [c \in Threads |-> << >>] /\ mail' = [s \in Sessions |-> << >>]
  /\ user' = [s \in Sessions |-> IF user[s] = "off" THEN "off" ELSE "over"]
  /\ inbox' = [s \in Sessions |-> IF inbox[s] = "up" THEN "down" ELSE inbox[s]]
  /\ asked' = [s \in Sessions |-> NoRequest] /\ chat' = [s \in Sessions |-> Nobody]
  /\ UNCHANGED << disk, torn, me, historyVars >>

Serve(c) ==
  \/ Requests(c) \/ ParseFails(c)
  \/ ListGroups(c) \/ ChatGroup(c) \/ MakeGroup(c) \/ SendGroup(c)
  \/ Leave(c) \/ Deliver(c) \/ Pending(c) \/ PendingFails(c)
  \/ BeginSave(c) \/ EndSave(c) \/ EndOfStream(c)

-----------------------------------------------------------------------------
(* The clients. *)

Main(s)  == << s, "main" >>
Inbox(s) == << s, "inbox" >>

Asks(s, req) ==
  /\ user' = [user EXCEPT ![s] = "wait"]
  /\ asked' = [asked EXCEPT ![s] = req]
  /\ inbound' = [inbound EXCEPT ![Main(s)] = Append(@, req)]

Request(s, cmd, arg) == [cmd |-> cmd, id |-> me[s], arg |-> arg]

\* A client connects and asks its first question.  Sessions are numbered in the
\* order they connect.
Connects(s, req) ==
  /\ user[s] = "off" /\ (s > 1 => user[s - 1] # "off")
  /\ open' = open \cup {Main(s)}
  /\ Goto(Main(s), "reading", NoJob)
  /\ Asks(s, req)
  /\ UNCHANGED << disk, torn, mutex, clientMap, restarts >>

Credentials(s, cmd, names) ==
  {Request(s, cmd, << n, p >>) : n \in names, p \in Passwords}

\* A login is tried again until it succeeds.
LogIn(s) ==
  /\ \E req \in Credentials(s, "AUTHENTICATE", Names) \cup {Request(s, "AUTHENTICATE_WORDS", NoName)} :
       /\ Types(IF req.cmd = "AUTHENTICATE" THEN Writing ELSE Quiet)
       /\ \/ Connects(s, req)
          \/ user[s] = "denied" /\ Asks(s, req) /\ UNCHANGED serverVars
  /\ UNCHANGED << mail, me, chat, inbox, historyVars >>

SignUp(s) ==
  /\ Types(Writing)
  /\ \E req \in Credentials(s, "REGISTER", NewNames) : Connects(s, req)
  /\ UNCHANGED << mail, me, chat, inbox, historyVars >>

Commands(s) ==
  [cmd : {"LOOK", "LISTGROUPS"}, id : {me[s]}, arg : {NoName}]
  \cup [cmd : {"ADD"}, id : {me[s]}, arg : Names]
  \cup [cmd : {"CHAT"}, id : {me[s]}, arg : Names \cup Groups]
  \cup [cmd : {"GROUP"}, id : {me[s]}, arg : Groups \X WordLists]

Command(s) ==
  /\ user[s] = "menu"
  /\ \E req \in Commands(s) :
       /\ Types(IF req.cmd \in {"LOOK", "LISTGROUPS"} THEN Quiet ELSE Writing)
       /\ Asks(s, req)
  /\ UNCHANGED << serverVars, mail, me, chat, inbox, historyVars >>

\* chat or add with the wrong number of words: the client says so, sends nothing
\* and waits for the answer.
Misuse(s) ==
  /\ user[s] = "menu" /\ Types(Quiet)
  /\ user' = [user EXCEPT ![s] = "wait"]
  /\ asked' = [asked EXCEPT ![s] = NoRequest]
  /\ UNCHANGED << serverVars, inbound, mail, me, chat, inbox, historyVars >>

\* Once it has its id a client opens its second connection and sends MAP, and
\* PENDING right behind it.
LoggedIn(s, id) ==
  /\ user' = [user EXCEPT ![s] = "menu"]
  /\ me' = [me EXCEPT ![s] = id]
  /\ inbox' = [inbox EXCEPT ![s] = "up"]
  /\ open' = open \cup {Inbox(s)}
  /\ Goto(Inbox(s), "reading", NoJob)
  /\ inbound' = [inbound EXCEPT ![Inbox(s)] = << [cmd |-> "MAP", id |-> id, arg |-> NoName] >>]

Stays == UNCHANGED << me, inbox, open, pc, job, inbound >>

\* The id that log-in is answered is read into a buffer nothing terminates; it is taken
\* to be what was sent.
ReadAnswer(s) ==
  LET answer == Head(mail[s]).value
      cmd    == asked[s].cmd
  IN
  /\ user[s] = "wait" /\ mail[s] # << >>
  /\ mail' = [mail EXCEPT ![s] = Tail(@)]
  /\ asked' = [asked EXCEPT ![s] = NoRequest]
  /\ \/ /\ cmd = "AUTHENTICATE" /\ answer = Nobody
        /\ user' = [user EXCEPT ![s] = "denied"]
        /\ Stays /\ UNCHANGED << chat, joined >>
     \/ /\ cmd = "AUTHENTICATE" /\ answer # Nobody
        /\ LoggedIn(s, answer)
        /\ UNCHANGED << chat, joined >>
     \/ /\ cmd = "REGISTER"
        /\ LoggedIn(s, answer)
        /\ joined' = [joined EXCEPT ![s] = asked[s].arg[1]]
        /\ UNCHANGED chat
     \/ /\ cmd = "CHAT" /\ answer # Nobody
        /\ user' = [user EXCEPT ![s] = "chat"]
        /\ chat' = [chat EXCEPT ![s] = answer]
        /\ Stays /\ UNCHANGED joined
     \/ /\ cmd \notin {"AUTHENTICATE", "REGISTER"} /\ ~ (cmd = "CHAT" /\ answer # Nobody)
        /\ user' = [user EXCEPT ![s] = "menu"]
        /\ Stays /\ UNCHANGED << chat, joined >>
  /\ UNCHANGED << disk, torn, mutex, clientMap, restarts, typed, received, sent, roster, reused >>

\* A line typed in a chat; no answer comes.  Bound: an answer to CHAT that is no id
\* and no group, which only a client out of step gets, is not followed.
Say(s) ==
  /\ user[s] = "chat" /\ chat[s] \in Ids \cup Groups
  /\ Types(Writing)
  /\ \E t \in Texts :
       /\ inbound' = [inbound EXCEPT ![Main(s)] = Append(@, Request(s, "SEND", << chat[s], t >>))]
       /\ sent' = sent \cup {[from |-> me[s], to |-> chat[s], text |-> t]}
  /\ UNCHANGED << serverVars, mail, user, me, asked, chat, inbox,
                  received, roster, joined, reused >>

LeaveChat(s) ==
  /\ user[s] = "chat"
  /\ user' = [user EXCEPT ![s] = "menu"] /\ chat' = [chat EXCEPT ![s] = Nobody]
  /\ UNCHANGED << serverVars, inbound, mail, me, asked, inbox, typed, historyVars >>

Leaves(s) ==
  /\ user' = [user EXCEPT ![s] = "over"]
  /\ inbox' = [inbox EXCEPT ![s] = "down"]
  /\ mail' = [mail EXCEPT ![s] = << >>]
  /\ asked' = [asked EXCEPT ![s] = NoRequest] /\ chat' = [chat EXCEPT ![s] = Nobody]
  /\ UNCHANGED << serverVars, me, historyVars >>

Quit(s) ==
  /\ user[s] = "menu" /\ Types(Writing)
  /\ inbound' = [inbound EXCEPT ![Main(s)] = Append(@, Request(s, "EXIT", NoName))]
  /\ Leaves(s)

\* The client is closed with no EXIT.
Killed(s) ==
  /\ user[s] \notin {"off", "over"}
  /\ Types(Quiet)
  /\ UNCHANGED inbound
  /\ Leaves(s)

Client(s) ==
  \/ LogIn(s) \/ SignUp(s) \/ Command(s) \/ Misuse(s) \/ ReadAnswer(s)
  \/ Say(s) \/ LeaveChat(s) \/ Quit(s) \/ Killed(s)

-----------------------------------------------------------------------------

Next == (\E c \in Threads : Serve(c)) \/ (\E s \in Sessions : Client(s)) \/ Crash

Spec == Init /\ [][Next]_vars

-----------------------------------------------------------------------------
(* Properties. *)

Requested == [cmd : {"NONE"}, id : {Nobody}, arg : {NoName}]
  \cup [cmd : {"AUTHENTICATE", "REGISTER"}, id : {Nobody}, arg : Names \X Passwords]
  \cup [cmd : {"AUTHENTICATE_WORDS"}, id : {Nobody}, arg : {NoName}]
  \cup [cmd : {"LOOK", "LISTGROUPS", "MAP", "PENDING", "EXIT"}, id : Ids, arg : {NoName}]
  \cup [cmd : {"ADD", "CHAT"}, id : Ids, arg : Names \cup Groups]
  \cup [cmd : {"GROUP"}, id : Ids, arg : Groups \X WordLists]
  \cup [cmd : {"SEND"}, id : Ids, arg : (Ids \cup Groups) \X Texts]

\* The requests that are answered.
Answered == {"AUTHENTICATE", "REGISTER", "LOOK", "LISTGROUPS", "ADD", "CHAT", "GROUP"}

Values == Ids \cup Groups \cup {Nobody, Accepts, Already}

Steps == {"none", "reading", "groups", "sending", "peek", "save", "saving", "gone"}

\* Every variable is of its type.
TypeOK ==
  /\ DOMAIN disk = Files /\ torn \subseteq Files /\ \A f \in Files : Holds(f, disk[f])
  /\ mutex \in Threads \cup {Free}
  /\ DOMAIN clientMap \subseteq Ids
  /\ \A id \in DOMAIN clientMap : clientMap[id] \in Threads \cup {Stdin}
  /\ open \subseteq Threads
  /\ pc \in [Threads -> Steps]
  /\ \A c \in Threads :
       /\ job[c].req \in Requested /\ IsPrivate(job[c].users)
       /\ job[c].todo \subseteq Ids /\ job[c].replies \in Seq(Values)
       /\ job[c].draft = NoDraft \/ Holds(job[c].draft.file, job[c].draft.doc)
       /\ inbound[c] \in Seq(Requested)
  /\ restarts \in 0 .. MaxRestarts
  /\ \A s \in Sessions : mail[s] \in Seq([cmd : Answered, value : Values])
  /\ user \in [Sessions -> {"off", "denied", "menu", "wait", "chat", "over"}]
  /\ me \in [Sessions -> Ids \cup {Nobody}]
  /\ asked \in [Sessions -> Requested]
  /\ chat \in [Sessions -> Values]
  /\ inbox \in [Sessions -> {"none", "up", "down"}]
  /\ typed \in 0 .. MaxTyped
  /\ received \subseteq [session : Sessions, from : Ids, text : Texts]
  /\ sent \subseteq [from : Ids, to : Ids \cup Groups, text : Texts]
  /\ roster \in [Groups -> SUBSET Ids]
  /\ joined \in [Sessions -> Names \cup {NoName}]
  /\ reused \in BOOLEAN

\* Threads write back whole copies that may be stale, and a user without an account
\* gets one with no name by sending any request; yet each version of private.json
\* that is written keeps friendships mutual, lists no friend twice and leaves no
\* request between friends, until REGISTER gives an account away: its id is one
\* more than the number of accounts, which may belong to somebody.
FriendshipsSound ==
  reused \/ /\ Sound(disk["private"])
            /\ \A c \in Threads :
                 job[c].draft.file = "private" => Sound(job[c].draft.doc)

\* No answer names its request: a client takes the next one that comes for the one
\* it waits for.  It is right to, until REGISTER gives an account away: SEND, MAP
\* and EXIT are answered by nobody, every other request by one answer.
Aligned ==
  reused \/ \A s \in Sessions :
    /\ Len(mail[s]) <= 1
    /\ mail[s] # << >> => user[s] = "wait" /\ mail[s][1].cmd = asked[s].cmd
    /\ Len(job[Main(s)].replies) <= 1

\* Whoever is shown a text was meant to see it: it was sent, by the user it is said
\* to be from, to the id of whoever sees it or to a group with that id in it; and
\* so was every text left in messages.json, whichever of its stale copies was
\* written last.
Reaches(m, id) == IF m.to \in Ids THEN m.to = id ELSE id \in roster[m.to]
Meant(from, id, text) == \E m \in sent : m.from = from /\ m.text = text /\ Reaches(m, id)
Genuine ==
  /\ \A r \in received : Meant(r.from, me[r.session], r.text)
  /\ \A key \in DOMAIN disk["messages"] : \A k \in DOMAIN disk["messages"][key] :
       Meant(key[2], key[1], disk["messages"][key][k])

\* clientMap is never cleared of a client that is gone, and a descriptor that is
\* closed is given to the next connection; and a user who is online in the file may
\* not have sent MAP, or not since the server was started again.  But clientMap names
\* only descriptors of his that are still open, or one that is no connection: a text
\* for a user who is gone, or not there yet, goes to nobody else.
MapOpen == \A id \in DOMAIN clientMap :
             \/ clientMap[id] = Stdin
             \/ clientMap[id] \in open /\ me[clientMap[id][1]] = id

\* A parse that fails leaves the mutex locked for ever.  That takes a crash: while
\* the process lives no parse under the mutex meets a half-written file.
Wedged == mutex \in Threads /\ pc[mutex] = "gone"
WedgedOnlyByCrash == Wedged => restarts > 0

\* What a crash tears stays torn: no thread writes a file, or goes to write one,
\* that it could not have parsed since the crash.
Saving(f) == \E c \in Threads : pc[c] = "saving" /\ job[c].draft.file = f
TornStays ==
  [][\A f \in torn : ~ Saving(f) => f \in torn' /\ ~ Saving(f)']_vars

\* No request is forgotten: while a client waits for an answer, its request has not
\* been read yet, or its thread is at work on it with an answer to give, or an
\* answer has been sent; or a thread that is gone has the mutex.
Waits(s) == user[s] = "wait" /\ asked[s].cmd \notin {"NONE", "AUTHENTICATE_WORDS"}
AtWork(c, req) ==
  /\ pc[c] \in {"groups", "save", "saving"} /\ job[c].req = req
  /\ pc[c] # "groups" => job[c].replies # << >>
NotRead(c, req) ==
  /\ pc[c] \notin {"none", "gone"}
  /\ inbound[c] # << >> /\ inbound[c][Len(inbound[c])] = req
Owed ==
  \A s \in Sessions : Waits(s) =>
    \/ mail[s] # << >>
    \/ NotRead(Main(s), asked[s]) \/ AtWork(Main(s), asked[s])
    \/ Wedged

\* From the comment on regist in Client/utils.h: the client is given the id of the
\* user it has registered, or "0" when it was not registered.
OwnAccount ==
  \A s \in Sessions :
    joined[s] # NoName /\ "private" \notin torn =>
      /\ me[s] \in DOMAIN disk["private"]
      /\ disk["private"][me[s]].name = joined[s]
=============================================================================
