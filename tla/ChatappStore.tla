---------------------------- MODULE ChatappStore ----------------------------
(***************************************************************************)
(* What the Chatapp-Terminal server (kod 2) computes on its three files:   *)
(* private.json (the accounts), groups.json and messages.json.  Each       *)
(* operator takes the document a thread has parsed, and returns the one it *)
(* is going to write back or the value it is going to answer.  The threads,*)
(* the mutex and the files themselves are in ChatappServer.                *)
(*                                                                         *)
(* private.json is a partial function from ids to accounts; groups.json one*)
(* from group names to sets of ids, as it makes no difference where a      *)
(* member is listed or how often; messages.json one from pairs             *)
(* <<receiver, sender>> to sequences of texts.  A member that is null and a*)
(* member that is absent are the same to every reader, so neither is in the*)
(* domain.  Dates, e-mail addresses and colours are left out.              *)
(***************************************************************************)
EXTENDS Integers, Sequences, FiniteSets

CONSTANTS Names,      \* user names
          Passwords,
          Groups,     \* group names, none of them a number
          Texts,      \* messages, none of them with the word TO in it
          MaxId,      \* bound: the largest id an account gets
          NoName      \* the name and the password of an account that has none

\* Ids are strings of digits in the code and the keys of an object come in
\* string order, which is the order of the numbers up to 9.
ASSUME ChatappStoreAssumption ==
  /\ MaxId \in Nat /\ MaxId <= 9
  /\ NoName \notin Names

Ids    == 1 .. MaxId
Nobody == 0         \* the string "0", which no account has for its id

\* requests is an array, or null before the first request: asked tells which.
\* An array may list an id more than once, which nothing depends on.
Account == [name : Names \cup {NoName}, password : Passwords \cup {NoName},
            online : BOOLEAN, friends : Seq(Ids),
            asked : BOOLEAN, requests : SUBSET Ids]

IsPrivate(doc)  == DOMAIN doc \subseteq Ids /\ doc \in [DOMAIN doc -> Account]
IsGroups(doc)   == DOMAIN doc \subseteq Groups /\ doc \in [DOMAIN doc -> SUBSET Ids]
IsMessages(doc) == DOMAIN doc \subseteq Ids \X Ids /\ doc \in [DOMAIN doc -> Seq(Texts)]

\* users[id] creates a null member when there is none, and the member stays in
\* the document that is written back.
Missing == [name |-> NoName, password |-> NoName, online |-> FALSE,
            friends |-> << >>, asked |-> FALSE, requests |-> {}]

At(users, id) == IF id \in DOMAIN users THEN users[id] ELSE Missing

Put(doc, key, value) ==
  [k \in DOMAIN doc \cup {key} |-> IF k = key THEN value ELSE doc[k]]

\* An iterator that stops at the first member that fits, and one that goes through
\* all of them and keeps the last.
FirstOf(hits) == {i \in hits : \A j \in hits : i <= j}
LastOf(hits)  == {i \in hits : \A j \in hits : j <= i}
OneOf(S, none) == IF S = {} THEN none ELSE CHOOSE x \in S : TRUE

FriendsOf(account) == {account.friends[j] : j \in DOMAIN account.friends}

-----------------------------------------------------------------------------
(* Accounts. *)

\* AUTHENTICATE: the first account with this name and this password.
Authenticated(users, name, password) ==
  OneOf(FirstOf({i \in DOMAIN users : users[i].name = name /\ users[i].password = password}),
        Nobody)

SignedIn(users, id)  == Put(users, id, [At(users, id) EXCEPT !.online = TRUE])
SignedOut(users, id) == Put(users, id, [At(users, id) EXCEPT !.online = FALSE])

\* REGISTER: the test for a name already taken compares where it means to
\* assign, so no name is refused; the id is one more than the number of members.
NewId(users) == Cardinality(DOMAIN users) + 1

NewAccount(name, password) ==
  [Missing EXCEPT !.name = name, !.password = password, !.online = TRUE]

Registered(users, name, password) ==
  Put(users, NewId(users), NewAccount(name, password))

-----------------------------------------------------------------------------
(* Friends. *)

Already  == -2
Accepts  == -1

Entries(users, id, other) ==
  {j \in DOMAIN At(users, id).friends : At(users, id).friends[j] = other}

\* Variants of operators below, as a slip in the code would make them.

\* A user may ask himself.
Named_Self(users, name, id) ==
  OneOf(LastOf({i \in DOMAIN users : users[i].name = name}), Nobody)

\* ADD goes on after it has answered for a friend.
AddAnswers_Both(users, id, other) ==
  IF other # Nobody /\ Entries(users, id, other) # {} THEN << Already, other >> ELSE << other >>

\* ADD has no answer for a name nobody has.
AddAnswers_Silent(users, id, other) ==
  IF other = Nobody THEN << >> ELSE << other >>

\* The text is left for the sender.
Left_Swapped(messages, from, to, text) ==
  LET key == << from, to >>
      all == IF key \in DOMAIN messages THEN messages[key] ELSE << >>
  IN  Put(messages, key, Append(all, text))

\* ADD goes by the last account with the name, unless that is the user's own.
Named(users, name, id) ==
  OneOf(LastOf({i \in DOMAIN users : users[i].name = name}) \ {id}, Nobody)

\* The other has asked before: both become friends.
Accepted(users, id, other) ==
  LET me == At(users, id)
      it == [me EXCEPT !.asked = TRUE, !.requests = @ \ {other},
                       !.friends = Append(@, other)]
      you == At(users, other)
  IN  Put(Put(users, id, it), other, [you EXCEPT !.friends = Append(@, id)])

\* A request is left with the other.  Whether the list is null is asked of the
\* user's own list, so the other's list may be replaced by a list of one.
Asked(users, id, other) ==
  LET me  == At(users, id)
      you == At(users, other)
      all == IF me.asked THEN you.requests \cup {id} ELSE {id}
  IN  Put(Put(users, id, me), other, [you EXCEPT !.asked = TRUE, !.requests = all])

\* What ADD writes, and what it answers.  One answer goes out for each entry of
\* the friend list that matches.
AddAnswers(users, id, other) ==
  CASE other = Nobody -> << Nobody >>
    [] other # Nobody /\ Entries(users, id, other) # {} ->
         [j \in 1 .. Cardinality(Entries(users, id, other)) |-> Already]
    [] other # Nobody /\ Entries(users, id, other) = {} ->
         IF other \in At(users, id).requests THEN << Accepts >> ELSE << other >>

AddWrites(users, id, other) == other # Nobody /\ Entries(users, id, other) = {}

Befriended(users, id, other) ==
  IF other \in At(users, id).requests THEN Accepted(users, id, other)
                                      ELSE Asked(users, id, other)

\* CHAT goes by the last friend with the name.
FriendNamed(users, id, name) ==
  LET friends == At(users, id).friends
      hits    == {k \in DOMAIN friends : At(users, friends[k]).name = name}
  IN  OneOf({friends[k] : k \in LastOf(hits)}, Nobody)

-----------------------------------------------------------------------------
(* Groups and messages. *)

\* GROUP: the friends whose names are listed, and the creator beside each name; a
\* group for which no name is listed is empty.
Members(users, id, words) ==
  IF words = {} THEN {}
  ELSE {id} \cup {f \in FriendsOf(At(users, id)) : At(users, f).name \in words}

MembersOf(groups, group) == IF group \in DOMAIN groups THEN groups[group] ELSE {}

\* SEND leaves a text for a receiver who is not online.  Whether there is a list
\* to append to is asked of the texts that wait for the sender, not of those that
\* wait for the receiver.
Left(messages, from, to, text) ==
  LET mine    == << to, from >>
      waiting == IF mine \in DOMAIN messages THEN messages[mine] ELSE << >>
  IN  Put(messages, mine, IF << from, to >> \in DOMAIN messages
                          THEN Append(waiting, text) ELSE << text >>)

\* PENDING: every text replaces the one before it in the buffer, so that only the
\* last of the last sender is sent; all of them are cleared.
SendersTo(messages, id) == {from \in Ids : << id, from >> \in DOMAIN messages}

LastPending(messages, id) ==
  LET from == CHOOSE i \in LastOf(SendersTo(messages, id)) : TRUE
      all  == messages[<< id, from >>]
  IN  [from |-> from, text |-> all[Len(all)]]

Cleared(messages, id) ==
  [k \in {key \in DOMAIN messages : key[1] # id} |-> messages[k]]

-----------------------------------------------------------------------------
(* A document of accounts whose friendships and requests fit together: nobody *)
(* refers to an account that is not there, or to himself, or twice to a friend;*)
(* friendship is mutual; a request waits between two accounts that are not     *)
(* friends, and in one direction only.                                        *)

Closed(users)   == \A i \in DOMAIN users :
                     /\ FriendsOf(users[i]) \subseteq DOMAIN users \ {i}
                     /\ users[i].requests \subseteq DOMAIN users \ {i}
Once(users)     == \A i \in DOMAIN users : \A j, k \in DOMAIN users[i].friends :
                     users[i].friends[j] = users[i].friends[k] => j = k
Mutual(users)   == \A i \in DOMAIN users : \A j \in FriendsOf(users[i]) :
                     i \in FriendsOf(users[j])
OneWay(users)   == \A i \in DOMAIN users : \A j \in users[i].requests :
                     j \notin FriendsOf(users[i]) /\ i \notin users[j].requests
Listed(users)   == \A i \in DOMAIN users : users[i].requests # {} => users[i].asked

Sound(users) == Closed(users) /\ Once(users) /\ Mutual(users) /\ OneWay(users) /\ Listed(users)
=============================================================================
