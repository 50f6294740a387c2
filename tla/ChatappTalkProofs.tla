-------------------------- MODULE ChatappTalkProofs --------------------------
(***************************************************************************)
(* Proofs about ChatappServer, for every value of the constants: what the  *)
(* threads, the connections and the clients hold, and the conversation of  *)
(* a client with its thread.                                               *)
(***************************************************************************)
EXTENDS ChatappProofs, FiniteSetTheorems

-----------------------------------------------------------------------------
(* Documents stay of their type. *)

\* A lookup gives an account, that of a missing id included.
LEMMA AtIsAccount ==
  ASSUME NEW users, IsPrivate(users), NEW id
  PROVE  At(users, id) \in Account
<1>1. Missing \in Account
  BY DEF Missing, Account
<1>2. \A i \in DOMAIN users : users[i] \in Account
  BY DEF IsPrivate
<1> QED BY <1>1, <1>2 DEF At

\* A document with one account put in.
LEMMA PutAccount ==
  ASSUME NEW users, IsPrivate(users), NEW id \in Ids, NEW a \in Account
  PROVE  IsPrivate(Put(users, id, a))
<1> DEFINE new == Put(users, id, a)
<1>1. new = [k \in DOMAIN users \cup {id} |-> IF k = id THEN a ELSE users[k]]
  BY DEF Put
<1>2. DOMAIN new = DOMAIN users \cup {id}
  BY <1>1
<1>3. \A k \in DOMAIN users : users[k] \in Account
  BY DEF IsPrivate
<1>4. new \in [DOMAIN users \cup {id} -> Account]
  BY <1>1, <1>3
<1>5. DOMAIN new \subseteq Ids
  BY <1>2 DEF IsPrivate
<1> QED BY <1>2, <1>4, <1>5 DEF IsPrivate

\* Accounts with a field changed.
LEMMA AccountFields ==
  ASSUME NEW a \in Account
  PROVE  /\ a.name \in Names \cup {NoName} /\ a.password \in Passwords \cup {NoName}
         /\ a.online \in BOOLEAN /\ a.friends \in Seq(Ids) /\ a.asked \in BOOLEAN
         /\ a.requests \in SUBSET Ids /\ Fields(a)
BY DEF Account, Fields

\* A record with these seven fields is an account.
LEMMA AccountOf ==
  ASSUME NEW a, NEW n \in Names \cup {NoName}, NEW p \in Passwords \cup {NoName}, NEW o \in BOOLEAN,
         NEW g \in Seq(Ids), NEW k \in BOOLEAN, NEW q \in SUBSET Ids,
         a = [name |-> n, password |-> p, online |-> o, friends |-> g, asked |-> k, requests |-> q]
  PROVE  a \in Account
BY DEF Account

\* One field of an account is changed: it is an account still.
LEMMA AccountChanged ==
  ASSUME NEW a \in Account
  PROVE  /\ \A v \in BOOLEAN : [a EXCEPT !.online = v] \in Account
         /\ \A v \in BOOLEAN : [a EXCEPT !.asked = v] \in Account
         /\ \A v \in SUBSET Ids : [a EXCEPT !.requests = v] \in Account
         /\ \A v \in Seq(Ids) : [a EXCEPT !.friends = v] \in Account
BY DEF Account

\* AUTHENTICATE and EXIT write the accounts with one of them touched.
LEMMA SignTyped ==
  ASSUME NEW users, IsPrivate(users), NEW id \in Ids
  PROVE  IsPrivate(SignedIn(users, id)) /\ IsPrivate(SignedOut(users, id))
<1>1. At(users, id) \in Account
  BY AtIsAccount
<1>2. /\ [At(users, id) EXCEPT !.online = TRUE] \in Account
      /\ [At(users, id) EXCEPT !.online = FALSE] \in Account
  BY <1>1, AccountChanged
<1> QED BY <1>2, PutAccount DEF SignedIn, SignedOut

\* Who is authenticated is one of the accounts.
LEMMA AuthenticatedTyped ==
  ASSUME NEW users, IsPrivate(users), NEW n, NEW p
  PROVE  Authenticated(users, n, p) \in Ids \cup {Nobody}
BY DEF Authenticated, OneOf, FirstOf, IsPrivate

\* The number REGISTER gives out.
LEMMA NewIdTyped ==
  ASSUME NEW users, IsPrivate(users), NewId(users) <= MaxId
  PROVE  NewId(users) \in Ids
<1>1. MaxId \in Nat
  BY ChatappStoreAssumption
<1>2. IsFiniteSet(Ids)
  BY <1>1, FS_Interval DEF Ids
<1>3. Cardinality(DOMAIN users) \in Nat
  BY <1>2, FS_Subset, FS_CardinalityType DEF IsPrivate
<1> QED BY <1>1, <1>3 DEF NewId, Ids

\* REGISTER writes the accounts with one more, or over one of them.
LEMMA RegisteredTyped ==
  ASSUME NEW users, IsPrivate(users), NewId(users) <= MaxId, NEW n \in Names, NEW p \in Passwords
  PROVE  IsPrivate(Registered(users, n, p))
<1>1. NewId(users) \in Ids
  BY NewIdTyped
<1>2. NewAccount(n, p) =
           [name |-> n, password |-> p, online |-> TRUE,
            friends |-> << >>, asked |-> FALSE, requests |-> {}]
  BY NewAccountIs
<1>3. NewAccount(n, p) \in Account
  BY <1>2 DEF Account
<1> QED BY <1>1, <1>3, PutAccount DEF Registered

\* ADD finds an account or nobody.
LEMMA NamedTyped ==
  ASSUME NEW users, IsPrivate(users), NEW n, NEW id
  PROVE  Named(users, n, id) \in Ids \cup {Nobody}
BY NamedIsAnother DEF IsPrivate

\* ADD writes the accounts with two of them changed.
LEMMA BefriendedTyped ==
  ASSUME NEW users, IsPrivate(users), NEW id \in Ids, NEW other \in Ids
  PROVE  IsPrivate(Befriended(users, id, other))
<1> DEFINE mine == At(users, id)
           you  == At(users, other)
<1>1. mine \in Account /\ you \in Account
  BY AtIsAccount
<1>2. CASE other \in mine.requests
  <2> DEFINE asked1 == [mine EXCEPT !.asked = TRUE]
             left1  == mine.requests \ {other}
             fewer  == [asked1 EXCEPT !.requests = left1]
             longer == Append(mine.friends, other)
             it     == [fewer EXCEPT !.friends = longer]
             yours  == Append(you.friends, id)
             them   == [you EXCEPT !.friends = yours]
  <2>1. longer \in Seq(Ids) /\ yours \in Seq(Ids) /\ left1 \in SUBSET Ids
    BY <1>1, AccountFields, AppendProperties
  <2>2. asked1 \in Account
    BY <1>1, AccountChanged
  <2>3. them \in Account
    <3> HIDE DEF yours
    <3> QED BY <1>1, <2>1, AccountChanged
  <2>4. fewer \in Account
    <3> HIDE DEF asked1, left1
    <3> QED BY <2>1, <2>2, AccountChanged
  <2>5. it \in Account
    <3> HIDE DEF fewer, longer
    <3> QED BY <2>1, <2>4, AccountChanged
  <2>6. it = [mine EXCEPT !.asked = TRUE, !.requests = left1, !.friends = longer]
    <3>1. Fields(mine)
      BY <1>1, AccountFields
    <3> HIDE DEF mine, left1, longer
    <3> QED BY <3>1 DEF it, fewer, asked1, Fields
  <2>7. Accepted(users, id, other) = Put(Put(users, id, it), other, them)
    <3>1. Accepted(users, id, other) =
            Put(Put(users, id, [mine EXCEPT !.asked = TRUE, !.requests = left1, !.friends = longer]),
                other, them)
      BY <1>1 DEF Accepted, Account
    <3> HIDE DEF mine, left1, longer, it, them
    <3> QED BY <3>1, <2>6
  <2> HIDE DEF it, them
  <2>8. IsPrivate(Put(users, id, it))
    BY <2>5, PutAccount
  <2>9. IsPrivate(Put(Put(users, id, it), other, them))
    BY <2>3, <2>8, PutAccount
  <2> QED BY <1>2, <2>7, <2>9 DEF Befriended
<1>3. CASE other \notin mine.requests
  <2> DEFINE all   == IF mine.asked THEN you.requests \cup {id} ELSE {id}
             more  == [you EXCEPT !.asked = TRUE]
             them  == [more EXCEPT !.requests = all]
  <2>1. all \in SUBSET Ids
    BY <1>1, AccountFields
  <2>2. more \in Account
    BY <1>1, AccountChanged
  <2>3. them \in Account
    <3> HIDE DEF more, all
    <3> QED BY <2>1, <2>2, AccountChanged
  <2>4. Asked(users, id, other) = Put(Put(users, id, mine), other, them)
    <3>1. Asked(users, id, other) =
            Put(Put(users, id, mine), other, [you EXCEPT !.asked = TRUE, !.requests = all])
      BY DEF Asked
    <3>2. Fields(you)
      BY <1>1, AccountFields
    <3>3. them = [you EXCEPT !.asked = TRUE, !.requests = all]
      <4> HIDE DEF you, all
      <4> QED BY <3>2 DEF them, more, Fields
    <3> HIDE DEF them, mine, you, all
    <3> QED BY <3>1, <3>3
  <2> HIDE DEF them
  <2>5. IsPrivate(Put(users, id, mine))
    BY <1>1, PutAccount
  <2>6. IsPrivate(Put(Put(users, id, mine), other, them))
    BY <2>3, <2>5, PutAccount
  <2> QED BY <1>3, <2>4, <2>6 DEF Befriended
<1> QED BY <1>2, <1>3

\* CHAT finds a friend or nobody.
LEMMA FriendNamedTyped ==
  ASSUME NEW users, IsPrivate(users), NEW id, NEW name
  PROVE  FriendNamed(users, id, name) \in Ids \cup {Nobody}
<1> DEFINE friends == At(users, id).friends
           hits    == {k \in DOMAIN friends : At(users, friends[k]).name = name}
           found   == {friends[k] : k \in LastOf(hits)}
<1>1. friends \in Seq(Ids)
  BY AtIsAccount, AccountFields
<1>2. \A k \in DOMAIN friends : friends[k] \in Ids
  BY <1>1
<1>3. found \subseteq Ids
  BY <1>2 DEF LastOf
<1>4. FriendNamed(users, id, name) = OneOf(found, Nobody)
  BY DEF FriendNamed
<1> HIDE DEF found
<1> QED BY <1>3, <1>4 DEF OneOf

\* Values are those of a request's answer.
Gives(cmd) ==
  CASE cmd = "REGISTER" -> Ids
    [] cmd = "AUTHENTICATE" -> Ids \cup {Nobody}
    [] OTHER -> Values

\* An ADD is answered, and once for each time the other is in the list of friends.
LEMMA AddAnswersTyped ==
  ASSUME NEW users, IsPrivate(users), NEW id, NEW other \in Ids \cup {Nobody}
  PROVE  LET all == AddAnswers(users, id, other)
         IN  /\ all \in Seq(Values) /\ Len(all) > 0
             /\ Once(users) \/ AddWrites(users, id, other) => Len(all) = 1
<1> DEFINE all  == AddAnswers(users, id, other)
           hits == Entries(users, id, other)
           friends == At(users, id).friends
<1>1. friends \in Seq(Ids)
  BY AtIsAccount, AccountFields
<1>2. DOMAIN friends = 1 .. Len(friends) /\ Len(friends) \in Nat
  BY <1>1
<1>3. hits \subseteq 1 .. Len(friends)
  BY <1>2 DEF Entries
<1>4. IsFiniteSet(1 .. Len(friends))
  BY <1>2, FS_Interval
<1>5. IsFiniteSet(hits)
  <2> HIDE DEF hits, friends
  <2> QED BY <1>3, <1>4, FS_Subset
<1>6. {Nobody, Accepts, Already} \cup Ids \subseteq Values
  BY DEF Values
<1>7. CASE other = Nobody
  <2>1. all = << Nobody >>
    BY <1>7 DEF AddAnswers
  <2>2. Nobody \in Values
    BY <1>6
  <2> HIDE DEF all
  <2>3. all \in Seq(Values) /\ Len(all) = 1
    BY <2>1, <2>2
  <2> QED BY <2>3 DEF all
<1>8. CASE other # Nobody /\ hits # {}
  <2> DEFINE n == Cardinality(hits)
  <2>1. all = [j \in 1 .. n |-> Already]
    BY <1>8 DEF AddAnswers
  <2>2. n \in Nat /\ n # 0
    BY <1>5, <1>8, FS_CardinalityType, FS_EmptySet
  <2>3. ~ AddWrites(users, id, other)
    BY <1>8 DEF AddWrites
  <2>4. ASSUME Once(users) PROVE n = 1
    <3>1. PICK j : j \in hits
      BY <1>8
    <3>2. id \in DOMAIN users /\ friends = users[id].friends
      <4>1. CASE id \in DOMAIN users
        BY <4>1 DEF At
      <4>2. CASE id \notin DOMAIN users
        BY <3>1, <4>2 DEF Entries, At, Missing
      <4> QED BY <4>1, <4>2
    <3>3. \A k \in hits : k = j
      BY <2>4, <3>1, <3>2 DEF Once, Entries
    <3>4. hits = {j}
      BY <3>1, <3>3
    <3> HIDE DEF hits
    <3> QED BY <3>4, FS_Singleton
  <2> HIDE DEF n, all
  <2>5. Already \in Values
    BY <1>6
  <2>6. all \in Seq(Values) /\ Len(all) = n
    BY <2>1, <2>2, <2>5
  <2>7. n > 0
    BY <2>2
  <2> HIDE DEF hits, friends
  <2> QED BY <2>3, <2>4, <2>6, <2>7 DEF all
<1>9. CASE other # Nobody /\ hits = {}
  <2>1. all = << Accepts >> \/ all = << other >>
    BY <1>9 DEF AddAnswers
  <2>2. Accepts \in Values /\ other \in Values
    BY <1>6
  <2> HIDE DEF all
  <2>3. all \in Seq(Values) /\ Len(all) = 1
    BY <2>1, <2>2
  <2> QED BY <2>3 DEF all
<1> QED BY <1>7, <1>8, <1>9

\* A group is made of ids.
LEMMA MembersTyped ==
  ASSUME NEW users, IsPrivate(users), NEW id \in Ids, NEW words
  PROVE  Members(users, id, words) \subseteq Ids
<1>1. At(users, id).friends \in Seq(Ids)
  BY AtIsAccount, AccountFields
<1>2. FriendsOf(At(users, id)) \subseteq Ids
  BY <1>1 DEF FriendsOf
<1> QED BY <1>2 DEF Members

\* The members of a group are ids, and a document with a group put in is one of groups.
LEMMA GroupsTyped ==
  ASSUME NEW doc, IsGroups(doc)
  PROVE  /\ \A g : MembersOf(doc, g) \subseteq Ids
         /\ \A g \in Groups, ids \in SUBSET Ids : IsGroups(Put(doc, g, ids))
<1>1. \A g \in DOMAIN doc : doc[g] \subseteq Ids
  BY DEF IsGroups
<1>2. \A g : MembersOf(doc, g) \subseteq Ids
  BY <1>1 DEF MembersOf
<1>3. ASSUME NEW g \in Groups, NEW ids \in SUBSET Ids
      PROVE  IsGroups(Put(doc, g, ids))
  <2> DEFINE new == Put(doc, g, ids)
  <2>1. new = [k \in DOMAIN doc \cup {g} |-> IF k = g THEN ids ELSE doc[k]]
    BY DEF Put
  <2>2. DOMAIN new = DOMAIN doc \cup {g} /\ new \in [DOMAIN doc \cup {g} -> SUBSET Ids]
    BY <1>1, <2>1
  <2> HIDE DEF new
  <2>3. IsGroups(new)
    BY <2>2 DEF IsGroups
  <2> QED BY <2>3 DEF new
<1> QED BY <1>2, <1>3

-----------------------------------------------------------------------------
(* Messages: for each key there is one at least. *)

Filled(doc) == \A key \in DOMAIN doc : doc[key] # << >>

\* The largest of some ids.
LEMMA LastExists ==
  ASSUME NEW S \in SUBSET Ids, S # {}
  PROVE  LastOf(S) # {}
<1>1. \A i \in S : i \in 1 .. 9
  BY ChatappStoreAssumption DEF Ids
<1>2. \E i \in S : \A j \in S : j <= i
  BY <1>1, SMTT(60)
<1> QED BY <1>2 DEF LastOf

\* SEND leaves a text: what waits for the receiver, if there is reason to think that
\* anything does, with the text at the end.
LEMMA LeftTyped ==
  ASSUME NEW doc, IsMessages(doc), Filled(doc), NEW from \in Ids, NEW to \in Ids, NEW text \in Texts
  PROVE  LET new == Left(doc, from, to, text) IN
         /\ IsMessages(new) /\ Filled(new)
         /\ \A key \in DOMAIN new : \A k \in DOMAIN new[key] :
              \/ key = << to, from >> /\ new[key][k] = text
              \/ key \in DOMAIN doc /\ k \in DOMAIN doc[key] /\ new[key][k] = doc[key][k]
<1> DEFINE mine == << to, from >>
           waiting == IF mine \in DOMAIN doc THEN doc[mine] ELSE << >>
           here == IF << from, to >> \in DOMAIN doc THEN Append(waiting, text) ELSE << text >>
           new  == Put(doc, mine, here)
<1>1. Left(doc, from, to, text) = new
  BY DEF Left
<1>2. mine \in Ids \X Ids /\ \A key \in DOMAIN doc : doc[key] \in Seq(Texts)
  BY DEF IsMessages
<1>3. waiting \in Seq(Texts)
  <2>1. << >> \in Seq(Texts)
    OBVIOUS
  <2> QED BY <1>2, <2>1
<1>4. /\ new = [k \in DOMAIN doc \cup {mine} |-> IF k = mine THEN here ELSE doc[k]]
  BY DEF Put
<1>5. /\ here \in Seq(Texts) /\ here # << >>
      /\ \A k \in DOMAIN here : here[k] = text \/ (k \in DOMAIN waiting /\ here[k] = waiting[k])
  <2> DEFINE one == << text >>
             all == Append(waiting, text)
  <2>1. /\ one \in Seq(Texts) /\ one # << >> /\ \A k \in DOMAIN one : one[k] = text
    OBVIOUS
  <2>2. /\ all \in Seq(Texts) /\ all # << >>
        /\ \A k \in DOMAIN all : all[k] = text \/ (k \in DOMAIN waiting /\ all[k] = waiting[k])
    <3> HIDE DEF waiting
    <3>1. /\ all \in Seq(Texts) /\ Len(all) = Len(waiting) + 1 /\ Len(waiting) \in Nat
          /\ \A k \in 1 .. Len(waiting) : all[k] = waiting[k]
          /\ all[Len(waiting) + 1] = text
      BY <1>3, AppendProperties
    <3>2. DOMAIN all = 1 .. Len(waiting) + 1 /\ DOMAIN waiting = 1 .. Len(waiting)
      BY <1>3, <3>1
    <3> HIDE DEF all
    <3>3. all # << >>
      BY <3>1
    <3> QED BY <3>1, <3>2, <3>3
  <2>3. here = one \/ here = all
    OBVIOUS
  <2> HIDE DEF one, all, here, waiting
  <2> QED BY <2>1, <2>2, <2>3
<1> HIDE DEF here
<1>6. /\ DOMAIN new = DOMAIN doc \cup {mine} /\ new[mine] = here
      /\ \A key \in DOMAIN doc \ {mine} : new[key] = doc[key]
  BY <1>4
<1>7. IsMessages(new)
  <2>1. new \in [DOMAIN doc \cup {mine} -> Seq(Texts)]
    BY <1>2, <1>4, <1>5
  <2> HIDE DEF new
  <2> QED BY <1>2, <1>6, <2>1 DEF IsMessages
<1> HIDE DEF new
<1>8. Filled(new)
  BY <1>5, <1>6 DEF Filled
<1>9. ASSUME NEW key \in DOMAIN new, NEW k \in DOMAIN new[key]
      PROVE  \/ key = << to, from >> /\ new[key][k] = text
             \/ key \in DOMAIN doc /\ k \in DOMAIN doc[key] /\ new[key][k] = doc[key][k]
  <2>1. CASE key # mine
    BY <1>6, <2>1
  <2>2. CASE key = mine
    <3>1. new[key] = here /\ k \in DOMAIN here
      BY <1>6, <2>2
    <3>2. CASE here[k] = text
      BY <2>2, <3>1, <3>2
    <3>3. CASE k \in DOMAIN waiting /\ here[k] = waiting[k]
      <4>1. mine \in DOMAIN doc
        BY <3>3
      <4> QED BY <2>2, <3>1, <3>3, <4>1
    <3> QED BY <1>5, <3>1, <3>2, <3>3
  <2> QED BY <2>1, <2>2
<1> QED BY <1>1, <1>7, <1>8, <1>9

\* PENDING clears what waits for a user.
LEMMA ClearedTyped ==
  ASSUME NEW doc, IsMessages(doc), Filled(doc), NEW id
  PROVE  LET new == Cleared(doc, id) IN
         /\ IsMessages(new) /\ Filled(new)
         /\ \A key \in DOMAIN new : key \in DOMAIN doc /\ new[key] = doc[key]
<1> DEFINE new == Cleared(doc, id)
<1>1. new = [k \in {key \in DOMAIN doc : key[1] # id} |-> doc[k]]
  BY DEF Cleared
<1>2. \A key \in DOMAIN new : key \in DOMAIN doc /\ new[key] = doc[key]
  BY <1>1
<1>3. \A key \in DOMAIN doc : doc[key] \in Seq(Texts) /\ key \in Ids \X Ids
  BY DEF IsMessages
<1>4. new \in [DOMAIN new -> Seq(Texts)]
  BY <1>1, <1>3
<1> HIDE DEF new
<1>5. IsMessages(new)
  BY <1>2, <1>3, <1>4 DEF IsMessages
<1>6. Filled(new)
  BY <1>2 DEF Filled
<1> QED BY <1>2, <1>5, <1>6 DEF new

\* The text PENDING sends is the last of those that wait.
LEMMA LastPendingTyped ==
  ASSUME NEW doc, IsMessages(doc), Filled(doc), NEW id \in Ids, SendersTo(doc, id) # {}
  PROVE  LET last == LastPending(doc, id)
             key  == << id, last.from >>
         IN  /\ last.from \in Ids /\ last.text \in Texts
             /\ key \in DOMAIN doc
             /\ \E k \in DOMAIN doc[key] : doc[key][k] = last.text
<1> DEFINE from == CHOOSE i \in LastOf(SendersTo(doc, id)) : TRUE
           all  == doc[<< id, from >>]
<1>1. SendersTo(doc, id) \in SUBSET Ids
  BY DEF SendersTo
<1>2. from \in LastOf(SendersTo(doc, id))
  BY <1>1, LastExists
<1>3. from \in Ids /\ << id, from >> \in DOMAIN doc
  BY <1>2 DEF LastOf, SendersTo
<1>4. LastPending(doc, id) = [from |-> from, text |-> all[Len(all)]]
  BY DEF LastPending
<1>5. all \in Seq(Texts) /\ all # << >>
  BY <1>3 DEF IsMessages, Filled
<1> HIDE DEF from, all
<1>6. Len(all) \in DOMAIN all /\ all[Len(all)] \in Texts
  BY <1>5
<1>7. LastPending(doc, id).from = from /\ LastPending(doc, id).text = all[Len(all)]
  BY <1>4
<1> QED BY <1>3, <1>6, <1>7 DEF all

-----------------------------------------------------------------------------
(* Requests and jobs. *)

Letter == {m \in [cmd : Answered, value : Values] : m.value \in Gives(m.cmd)}

\* What a request of each kind carries.
LEMMA RequestHolds ==
  ASSUME NEW req \in Requested
  PROVE  /\ req.cmd \in {"AUTHENTICATE", "REGISTER"} =>
              req.id = Nobody /\ req.arg[1] \in Names /\ req.arg[2] \in Passwords
         /\ req.cmd = "AUTHENTICATE_WORDS" => req.id = Nobody
         /\ req.cmd \in {"LOOK", "LISTGROUPS", "MAP", "PENDING", "EXIT", "ADD", "CHAT", "GROUP", "SEND"} =>
              req.id \in Ids
         /\ req.cmd = "CHAT" => req.arg \in Names \cup Groups
         /\ req.cmd = "GROUP" => req.arg[1] \in Groups
         /\ req.cmd = "SEND" => req.arg[1] \in Ids \cup Groups /\ req.arg[2] \in Texts
         /\ req.cmd = "NONE" \/ req.cmd \in Answered \/ req.cmd \in {"AUTHENTICATE_WORDS", "MAP", "PENDING", "EXIT", "SEND"}
BY DEF Requested, Answered

\* MAP becomes the PENDING that is behind it.
LEMMA MapBecomesPending ==
  ASSUME NEW req \in Requested, req.cmd = "MAP"
  PROVE  LET new == [req EXCEPT !.cmd = "PENDING"]
         IN  new \in Requested /\ new.cmd = "PENDING" /\ new.id = req.id
<1>1. req \in [cmd : {"LOOK", "LISTGROUPS", "MAP", "PENDING", "EXIT"}, id : Ids, arg : {NoName}]
  BY DEF Requested
<1>2. /\ [req EXCEPT !.cmd = "PENDING"] \in [cmd : {"LOOK", "LISTGROUPS", "MAP", "PENDING", "EXIT"}, id : Ids, arg : {NoName}]
      /\ [req EXCEPT !.cmd = "PENDING"].cmd = "PENDING" /\ [req EXCEPT !.cmd = "PENDING"].id = req.id
  BY <1>1
<1> QED BY <1>2 DEF Requested

Document(f, doc) == f \in Files /\ Holds(f, doc) /\ (f = "messages" => Filled(doc))

\* What a document is, for each of the three files.
LEMMA DocumentIs ==
  ASSUME NEW doc
  PROVE  /\ Document("private", doc) <=> IsPrivate(doc)
         /\ Document("groups", doc) <=> IsGroups(doc)
         /\ Document("messages", doc) <=> IsMessages(doc) /\ Filled(doc)
BY DEF Document, Files, Holds

\* A file that has been emptied holds a document of any kind.
LEMMA EmptyDocuments ==
  /\ IsPrivate(<< >>) /\ IsGroups(<< >>) /\ IsMessages(<< >>) /\ Filled(<< >>)
  /\ \A f \in Files : Document(f, << >>)
<1>1. /\ IsPrivate(<< >>) /\ IsGroups(<< >>) /\ IsMessages(<< >>) /\ Filled(<< >>)
  BY DEF IsPrivate, IsGroups, IsMessages, Filled
<1> QED BY <1>1, DocumentIs DEF Files

\* A job by its fields.
TheJob(req, users, todo, draft, replies) ==
  [req |-> req, users |-> users, todo |-> todo, draft |-> draft, replies |-> replies]

JobTyped(j) ==
  /\ IsJob(j)
  /\ j.req \in Requested /\ IsPrivate(j.users) /\ j.todo \subseteq Ids
  /\ j.replies \in Seq(Gives(j.req.cmd))
  /\ j.draft = NoDraft \/ Document(j.draft.file, j.draft.doc)

\* Where a thread can be with a job: which requests go where, and that the answer to be
\* given is there before the file is written, one for each request that has one.
Placed(step, j) ==
  /\ step \in {"none", "reading", "gone"} => j = NoJob
  /\ step = "groups" => j.req.cmd \in {"LISTGROUPS", "CHAT", "GROUP", "SEND"}
  /\ step = "sending" => j.req.cmd = "SEND"
  /\ step = "peek" => j.req.cmd = "PENDING"
  /\ step \in {"groups", "sending", "peek"} => j.replies = << >>
  /\ step \in {"save", "saving"} =>
       /\ j.req.cmd \in {"AUTHENTICATE", "REGISTER", "ADD", "GROUP", "SEND", "PENDING", "EXIT"}
       /\ j.draft.file \in Files
       /\ Len(j.replies) = IF j.req.cmd \in Answered THEN 1 ELSE 0

\* The fields of a job that is put together.
LEMMA TheJobHolds ==
  ASSUME NEW r, NEW u, NEW t, NEW d, NEW a
  PROVE  LET j == TheJob(r, u, t, d, a)
         IN  IsJob(j) /\ j.req = r /\ j.users = u /\ j.todo = t /\ j.draft = d /\ j.replies = a
BY DEF TheJob, IsJob

\* A job with a field changed, field by field.
LEMMA ChangedJobs ==
  ASSUME NEW j, IsJob(j), NEW v, NEW w
  PROVE  /\ [j EXCEPT !.users = v] = TheJob(j.req, v, j.todo, j.draft, j.replies)
         /\ [j EXCEPT !.todo = v] = TheJob(j.req, j.users, v, j.draft, j.replies)
         /\ [j EXCEPT !.draft = v] = TheJob(j.req, j.users, j.todo, v, j.replies)
         /\ [j EXCEPT !.replies = v] = TheJob(j.req, j.users, j.todo, j.draft, v)
         /\ [j EXCEPT !.todo = v, !.draft = w] = TheJob(j.req, j.users, v, w, j.replies)
<1>1. j = TheJob(j.req, j.users, j.todo, j.draft, j.replies)
  BY DEF IsJob, TheJob
<1>2. PICK r, u, t, d, a : /\ j = TheJob(r, u, t, d, a) /\ r = j.req /\ u = j.users
                           /\ t = j.todo /\ d = j.draft /\ a = j.replies
  BY <1>1
<1>3. /\ [j EXCEPT !.users = v] = TheJob(r, v, t, d, a)
      /\ [j EXCEPT !.todo = v] = TheJob(r, u, v, d, a)
      /\ [j EXCEPT !.draft = v] = TheJob(r, u, t, v, a)
      /\ [j EXCEPT !.replies = v] = TheJob(r, u, t, d, v)
  <2>1. /\ [TheJob(r, u, t, d, a) EXCEPT !.users = v] = TheJob(r, v, t, d, a)
        /\ [TheJob(r, u, t, d, a) EXCEPT !.todo = v] = TheJob(r, u, v, d, a)
        /\ [TheJob(r, u, t, d, a) EXCEPT !.draft = v] = TheJob(r, u, t, v, a)
        /\ [TheJob(r, u, t, d, a) EXCEPT !.replies = v] = TheJob(r, u, t, d, v)
    BY DEF TheJob
  <2> QED BY <1>2, <2>1, Zenon
<1>4. [j EXCEPT !.todo = v, !.draft = w] = [[j EXCEPT !.todo = v] EXCEPT !.draft = w]
  BY JobTwice
<1>5. [[j EXCEPT !.todo = v] EXCEPT !.draft = w] = TheJob(r, u, v, w, a)
  <2>1. [TheJob(r, u, v, d, a) EXCEPT !.draft = w] = TheJob(r, u, v, w, a)
    BY DEF TheJob
  <2> QED BY <1>3, <2>1, Zenon
<1> QED BY <1>2, <1>3, <1>4, <1>5, Zenon

\* The same for the request of a job.
LEMMA ChangedRequest ==
  ASSUME NEW j, IsJob(j), NEW v
  PROVE  [j EXCEPT !.req = v] = TheJob(v, j.users, j.todo, j.draft, j.replies)
<1>1. j = TheJob(j.req, j.users, j.todo, j.draft, j.replies)
  BY DEF IsJob, TheJob
<1>2. PICK r, u, t, d, a : /\ j = TheJob(r, u, t, d, a) /\ r = j.req /\ u = j.users
                           /\ t = j.todo /\ d = j.draft /\ a = j.replies
  BY <1>1
<1>3. [TheJob(r, u, t, d, a) EXCEPT !.req = v] = TheJob(v, u, t, d, a)
  BY DEF TheJob
<1> QED BY <1>2, <1>3, Zenon

\* The jobs the steps make.
LEMMA NewJobs ==
  ASSUME NEW req
  PROVE  /\ NoJob = TheJob(NoRequest, << >>, {}, NoDraft, << >>)
         /\ JobOf(req) = TheJob(req, << >>, {}, NoDraft, << >>)
<1>1. NoJob = TheJob(NoRequest, << >>, {}, NoDraft, << >>)
  BY DEF NoJob, TheJob
<1>2. PICK j : j = NoJob
  OBVIOUS
<1>3. /\ IsJob(j) /\ j.users = << >> /\ j.todo = {} /\ j.draft = NoDraft /\ j.replies = << >>
  BY <1>1, <1>2, TheJobHolds
<1>4. [j EXCEPT !.req = req] = TheJob(req, j.users, j.todo, j.draft, j.replies)
  BY <1>3, ChangedRequest
<1>5. JobOf(req) = [j EXCEPT !.req = req]
  BY <1>2 DEF JobOf
<1> QED BY <1>1, <1>3, <1>4, <1>5, Zenon

\* The job of a request that goes on with a copy of the accounts.
LEMMA CopiedJob ==
  ASSUME NEW req, NEW v
  PROVE  [JobOf(req) EXCEPT !.users = v] = TheJob(req, v, {}, NoDraft, << >>)
<1>1. PICK j : j = JobOf(req)
  OBVIOUS
<1>2. /\ IsJob(j) /\ j.req = req /\ j.users = << >> /\ j.todo = {}
      /\ j.draft = NoDraft /\ j.replies = << >>
  BY <1>1, NewJobs, TheJobHolds
<1>3. [j EXCEPT !.users = v] = TheJob(j.req, v, j.todo, j.draft, j.replies)
  BY <1>2, ChangedJobs
<1> QED BY <1>1, <1>2, <1>3, Zenon

\* The job of a request that goes to write a file.
LEMMA SavedJob ==
  ASSUME NEW req, NEW v, NEW w
  PROVE  [JobOf(req) EXCEPT !.draft = v, !.replies = w] = TheJob(req, << >>, {}, v, w)
<1>1. PICK j : j = JobOf(req)
  OBVIOUS
<1>2. /\ IsJob(j) /\ j.req = req /\ j.users = << >> /\ j.todo = {}
      /\ j.draft = NoDraft /\ j.replies = << >>
  BY <1>1, NewJobs, TheJobHolds
<1>3. [j EXCEPT !.draft = v, !.replies = w] = [[j EXCEPT !.draft = v] EXCEPT !.replies = w]
  BY <1>2, JobTwice
<1>4. [j EXCEPT !.draft = v] = TheJob(j.req, j.users, j.todo, v, j.replies)
  BY <1>2, ChangedJobs
<1>5. PICK k : k = [j EXCEPT !.draft = v]
  OBVIOUS
<1>6. IsJob(k) /\ k.req = j.req /\ k.users = j.users /\ k.todo = j.todo /\ k.draft = v
  BY <1>4, <1>5, TheJobHolds
<1>7. [k EXCEPT !.replies = w] = TheJob(k.req, k.users, k.todo, k.draft, w)
  BY <1>6, ChangedJobs
<1> QED BY <1>1, <1>2, <1>3, <1>5, <1>6, <1>7, Zenon

\* A job put together from typed fields is typed.
LEMMA TheJobTyped ==
  ASSUME NEW r \in Requested, NEW u, IsPrivate(u), NEW t, t \subseteq Ids,
         NEW d, d = NoDraft \/ Document(d.file, d.doc), NEW a \in Seq(Gives(r.cmd))
  PROVE  JobTyped(TheJob(r, u, t, d, a))
BY TheJobHolds DEF JobTyped

\* What a thread with nothing to do has.
LEMMA NoJobTyped == JobTyped(NoJob) /\ NoJob.req = NoRequest /\ NoJob.todo = {} /\ NoJob.replies = << >>
                    /\ NoJob.draft = NoDraft
<1>1. NoRequest \in Requested
  BY DEF NoRequest, Requested
<1>2. << >> \in Seq(Gives(NoRequest.cmd))
  OBVIOUS
<1>3. JobTyped(TheJob(NoRequest, << >>, {}, NoDraft, << >>))
  BY <1>1, <1>2, EmptyDocuments, TheJobTyped
<1>4. NoJob = TheJob(NoRequest, << >>, {}, NoDraft, << >>)
  BY NewJobs
<1> QED BY <1>3, <1>4, TheJobHolds
-----------------------------------------------------------------------------
(* The types of the server's state, and what is on the way. *)

Served ==
  /\ pc \in [Threads -> Steps] /\ DOMAIN job = Threads
  /\ \A c \in Threads : JobTyped(job[c]) /\ Placed(pc[c], job[c])

Disks == DOMAIN disk = Files /\ torn \subseteq Files /\ \A f \in Files : Document(f, disk[f])

MainOrders  == {r \in Requested : r.cmd \notin {"NONE", "MAP", "PENDING"}}
InboxOrders(s) == [cmd : {"MAP"}, id : {me[s]} \cap Ids, arg : {NoName}]

\* On the main connection of a client come its requests, on the other one MAP alone; a
\* connection that is not made yet has nothing on it.
Queued ==
  /\ DOMAIN inbound = Threads
  /\ \A s \in Sessions :
       /\ inbound[Main(s)] \in Seq(MainOrders) /\ inbound[Inbox(s)] \in Seq(InboxOrders(s))
       /\ job[Main(s)].req.cmd \notin {"MAP", "PENDING"}
       /\ job[Inbox(s)].req.cmd \in {"NONE", "PENDING"}
       /\ job[Inbox(s)].req.cmd = "PENDING" => job[Inbox(s)].req.id = me[s]
       /\ pc[Inbox(s)] = "none" => inbound[Inbox(s)] = << >>
       /\ pc[Main(s)] = "none" => inbound[Main(s)] = << >> /\ mail[s] = << >>
  /\ mail \in [Sessions -> Seq(Letter)]

-----------------------------------------------------------------------------
(* What a step of the server does to a request. *)

\* The request a thread has in hand, and whether it is read in this step.
Hand(c)  == IF pc[c] = "reading" THEN Head(inbound[c]) ELSE job[c].req
Reads(c) == IF pc[c] = "reading" THEN /\ inbound[c] # << >>
                                      /\ inbound' = [inbound EXCEPT ![c] = Tail(@)]
                                 ELSE inbound' = inbound

Moved(c, step, j) ==
  /\ pc' = [pc EXCEPT ![c] = step] /\ DOMAIN job' = Threads
  /\ job'[c] = j /\ \A d \in Threads \ {c} : job'[d] = job[d]

\* The thread goes on with the request, MAP as PENDING.
Continues(c) ==
  \E step, j :
    /\ step \in {"groups", "sending", "peek", "save", "saving"}
    /\ Moved(c, step, j) /\ JobTyped(j) /\ Placed(step, j)
    /\ Reads(c) /\ UNCHANGED mail
    /\ IF Hand(c).cmd = "MAP" THEN j.req = [Hand(c) EXCEPT !.cmd = "PENDING"] ELSE j.req = Hand(c)

\* Only ADD is answered more than once, and only when an id was given away.
Twice(c) == reused' /\ Hand(c).cmd = "ADD"

\* The thread is done with the request and has answered it, or it is one without an answer.
Completes(c) ==
  /\ Moved(c, "reading", NoJob) /\ Reads(c)
  /\ \/ Hand(c).cmd \in {"SEND", "PENDING", "AUTHENTICATE_WORDS"} /\ UNCHANGED mail
     \/ /\ Hand(c).cmd \in Answered
        /\ \E replies \in Seq(Gives(Hand(c).cmd)) :
             replies # << >> /\ (Twice(c) \/ Len(replies) = 1) /\ Mails(c, Hand(c).cmd, replies)

\* The thread ends.
Dies(c) ==
  /\ Moved(c, "gone", NoJob) /\ UNCHANGED << inbound, mail >>
  /\ \/ mutex' = c
     \/ pc[c] = "peek"
     \/ pc[c] = "reading" /\ inbound[c] = << >> /\ PeerGone(c)
     \/ pc[c] = "saving" /\ job[c].req.cmd = "EXIT"

Turn(c) == Continues(c) \/ Completes(c) \/ Dies(c)

\* A thread serves the one or the other connection of a client.
LEMMA ThreadIsEnd ==
  ASSUME NEW c \in Threads
  PROVE  c[1] \in Sessions /\ (c = Main(c[1]) \/ c = Inbox(c[1]))
BY DEF Threads, Main, Inbox

\* What is in hand is a request.
LEMMA HandTyped ==
  ASSUME Served, Queued, NEW c \in Threads,
         pc[c] = "reading" => inbound[c] # << >>, pc[c] \notin {"none", "gone"}
  PROVE  Hand(c) \in Requested /\ Hand(c).cmd # "NONE"
<1>1. CASE pc[c] = "reading"
  <2>1. PICK s \in Sessions : c = Main(s) \/ c = Inbox(s)
    BY ThreadIsEnd
  <2>2. \A r \in InboxOrders(s) : r \in Requested /\ r.cmd # "NONE"
    BY DEF InboxOrders, Requested
  <2>3. \A r \in MainOrders : r \in Requested /\ r.cmd # "NONE"
    BY DEF MainOrders
  <2>4. inbound[c] \in Seq(MainOrders) \/ inbound[c] \in Seq(InboxOrders(s))
    BY <2>1 DEF Queued
  <2>5. Head(inbound[c]) \in MainOrders \cup InboxOrders(s)
    <3> DEFINE q == inbound[c]
    <3>1. q # << >>
      BY <1>1
    <3>2. ASSUME NEW S, q \in Seq(S) PROVE Head(q) \in S
      <4> HIDE DEF q
      <4> QED BY <3>1, <3>2
    <3> QED BY <2>4, <3>2
  <2> QED BY <1>1, <2>2, <2>3, <2>5 DEF Hand
<1>2. CASE pc[c] # "reading"
  <2>1. Placed(pc[c], job[c]) /\ JobTyped(job[c]) /\ pc[c] \in Steps
    BY DEF Served
  <2>2. job[c].req \in Requested /\ job[c].req.cmd # "NONE"
    BY <1>2, <2>1 DEF Placed, JobTyped, Steps
  <2> QED BY <1>2, <2>2 DEF Hand
<1> QED BY <1>1, <1>2

\* Goto in terms of the thread that moves and those that stay.
LEMMA GotoMoved ==
  ASSUME Served, NEW c \in Threads, NEW step, NEW j, Goto(c, step, j)
  PROVE  Moved(c, step, j)
BY DEF Goto, Moved, Served

\* A thread that goes to write has a typed job with its answer.
LEMMA SavesContinues ==
  ASSUME Served, NEW c \in Threads, NEW f, NEW doc, NEW replies, Saves(c, Hand(c), f, doc, replies),
         Hand(c) \in Requested, Document(f, doc), replies \in Seq(Gives(Hand(c).cmd)),
         Hand(c).cmd \in {"AUTHENTICATE", "REGISTER", "ADD", "GROUP", "SEND", "PENDING", "EXIT"},
         Len(replies) = IF Hand(c).cmd \in Answered THEN 1 ELSE 0,
         Reads(c)
  PROVE  Continues(c)
<1> DEFINE d == Draft(f, doc)
           j == TheJob(Hand(c), << >>, {}, d, replies)
<1>0. PICK req : req = Hand(c)
  OBVIOUS
<1>1. Goto(c, "save", j) /\ UNCHANGED mail
  <2>1. Goto(c, "save", [JobOf(req) EXCEPT !.draft = d, !.replies = replies]) /\ UNCHANGED mail
    BY <1>0 DEF Saves
  <2> HIDE DEF d
  <2>2. [JobOf(req) EXCEPT !.draft = d, !.replies = replies] = TheJob(req, << >>, {}, d, replies)
    BY SavedJob, Zenon
  <2>3. Goto(c, "save", TheJob(req, << >>, {}, d, replies))
    BY <2>1, <2>2, Zenon
  <2> QED BY <1>0, <2>1, <2>3
<1>2. d.file = f /\ d.doc = doc
  BY DEF Draft
<1> HIDE DEF d
<1>3. JobTyped(j)
  BY <1>2, TheJobTyped, EmptyDocuments
<1>4. j.req = Hand(c) /\ j.draft = d /\ j.replies = replies
  BY TheJobHolds
<1> HIDE DEF j
<1>5. Placed("save", j)
  BY <1>2, <1>4 DEF Placed, Document
<1>6. Moved(c, "save", j)
  BY <1>1, GotoMoved
<1> QED BY <1>1, <1>3, <1>4, <1>5, <1>6 DEF Continues

\* A thread that answers is done with its request.
LEMMA AnswersCompletes ==
  ASSUME Served, NEW c \in Threads, NEW replies \in Seq(Gives(Hand(c).cmd)), Answers(c, Hand(c), replies),
         Hand(c).cmd \in Answered, replies # << >>, Twice(c) \/ Len(replies) = 1, Reads(c)
  PROVE  Completes(c)
<1>1. Moved(c, "reading", NoJob)
  BY GotoMoved DEF Answers
<1> QED BY <1>1 DEF Completes, Answers

\* A SEND goes on while receivers are left, and is done without an answer then.
LEMMA SendsGoesOn ==
  ASSUME Served, NEW c \in Threads, NEW j, JobTyped(j), j.req = Hand(c), j.req.cmd = "SEND",
         j.replies = << >>, NEW todo, todo \subseteq Ids, Sends(c, j, todo), Reads(c), UNCHANGED mail
  PROVE  Continues(c) \/ Completes(c)
<1>1. CASE todo = {}
  <2>1. Moved(c, "reading", NoJob)
    BY <1>1, GotoMoved DEF Sends
  <2> QED BY <2>1 DEF Completes
<1>2. CASE todo # {}
  <2> DEFINE k == TheJob(j.req, j.users, todo, j.draft, j.replies)
  <2>1. [j EXCEPT !.todo = todo] = k
    BY ChangedJobs DEF JobTyped
  <2>2. Goto(c, "sending", k)
    BY <1>2, <2>1 DEF Sends
  <2>3. JobTyped(k)
    BY TheJobTyped DEF JobTyped
  <2>4. k.req = j.req /\ k.replies = << >>
    BY TheJobHolds
  <2> HIDE DEF k
  <2>5. Placed("sending", k)
    BY <2>4 DEF Placed
  <2>6. Moved(c, "sending", k)
    BY <2>2, GotoMoved
  <2> QED BY <2>3, <2>4, <2>5, <2>6 DEF Continues
<1> QED BY <1>1, <1>2
\* What holds of a thread that takes a request.
LEMMA TakesReads ==
  ASSUME Served, Disks, Queued, NEW c \in Threads, NEW cmd, Takes(c, cmd)
  PROVE  /\ pc[c] = "reading" /\ Reads(c) /\ Hand(c) = Taken(c) /\ Hand(c) \in Requested
         /\ Hand(c).cmd = cmd /\ IsPrivate(Accounts)
<1>1. /\ pc[c] = "reading" /\ inbound[c] # << >> /\ Head(inbound[c]).cmd = cmd
      /\ inbound' = [inbound EXCEPT ![c] = Tail(@)]
  BY DEF Takes
<1>2. Hand(c) = Taken(c) /\ Reads(c)
  BY <1>1 DEF Hand, Taken, Reads
<1>3. Hand(c) \in Requested
  BY <1>1, HandTyped
<1>4. IsPrivate(Accounts)
  BY DocumentIs DEF Disks, Accounts, Files
<1> QED BY <1>1, <1>2, <1>3, <1>4 DEF Taken

\* AUTHENTICATE is answered at once when it fails, and goes to write when it succeeds.
LEMMA AuthenticateTurns ==
  ASSUME Served, Disks, Queued, NEW c \in Threads, Authenticate(c)
  PROVE  Turn(c)
<1>1. Takes(c, "AUTHENTICATE")
  BY DEF Authenticate
<1>2. /\ Reads(c) /\ Hand(c) \in Requested /\ Hand(c).cmd = "AUTHENTICATE" /\ Hand(c) = Taken(c)
      /\ IsPrivate(Accounts)
  BY <1>1, TakesReads
<1>3. PICK id : id = Authenticated(Accounts, Hand(c).arg[1], Hand(c).arg[2])
  OBVIOUS
<1>4. id \in Ids \cup {Nobody} /\ Gives(Hand(c).cmd) = Ids \cup {Nobody}
  BY <1>2, <1>3, AuthenticatedTyped DEF Gives
<1>5. CASE id = Nobody
  <2> DEFINE replies == << Nobody >>
  <2>1. Answers(c, Hand(c), replies)
    BY <1>2, <1>3, <1>5 DEF Authenticate
  <2>2. replies \in Seq(Gives(Hand(c).cmd)) /\ replies # << >> /\ Len(replies) = 1
    BY <1>4
  <2> HIDE DEF replies
  <2> QED BY <1>2, <2>1, <2>2, AnswersCompletes DEF Answered, Turn
<1>6. CASE id # Nobody
  <2> DEFINE doc == SignedIn(Accounts, id)
             replies == << id >>
  <2>1. Saves(c, Hand(c), "private", doc, replies)
    BY <1>2, <1>3, <1>6 DEF Authenticate
  <2>2. Document("private", doc)
    BY <1>2, <1>4, <1>6, SignTyped, DocumentIs
  <2>3. replies \in Seq(Gives(Hand(c).cmd)) /\ Len(replies) = 1
    BY <1>4
  <2> HIDE DEF doc, replies
  <2> QED BY <1>2, <2>1, <2>2, <2>3, SavesContinues DEF Answered, Turn
<1> QED BY <1>5, <1>6

\* REGISTER goes to write, with the id as the answer to be given.
LEMMA RegisterTurns ==
  ASSUME Served, Disks, Queued, NEW c \in Threads, Register(c)
  PROVE  Turn(c)
<1>1. Takes(c, "REGISTER") /\ NewId(Accounts) <= MaxId
  BY DEF Register
<1>2. /\ Reads(c) /\ Hand(c) \in Requested /\ Hand(c).cmd = "REGISTER" /\ Hand(c) = Taken(c)
      /\ IsPrivate(Accounts)
  BY <1>1, TakesReads
<1> DEFINE doc == Registered(Accounts, Hand(c).arg[1], Hand(c).arg[2])
           replies == << NewId(Accounts) >>
<1>3. Saves(c, Hand(c), "private", doc, replies)
  BY <1>2 DEF Register
<1>4. Document("private", doc)
  BY <1>1, <1>2, RequestHolds, RegisteredTyped, DocumentIs
<1>5. NewId(Accounts) \in Gives(Hand(c).cmd)
  BY <1>1, <1>2, NewIdTyped DEF Gives
<1>6. replies \in Seq(Gives(Hand(c).cmd)) /\ Len(replies) = 1
  BY <1>5
<1> HIDE DEF doc, replies
<1> QED BY <1>2, <1>3, <1>4, <1>6, SavesContinues DEF Answered, Turn

\* ADD goes to write with one answer, or answers at once.
LEMMA AddTurns ==
  ASSUME Served, Disks, Queued, FitFiles, NEW c \in Threads, Add(c)
  PROVE  Turn(c)
<1>1. Takes(c, "ADD") /\ UNCHANGED reused
  BY DEF Add, historyVars
<1>2. /\ Reads(c) /\ Hand(c) \in Requested /\ Hand(c).cmd = "ADD" /\ Hand(c) = Taken(c)
      /\ IsPrivate(Accounts) /\ Hand(c).id \in Ids
  BY <1>1, TakesReads, RequestHolds
<1>3. PICK other : other = Named(Accounts, Hand(c).arg, Hand(c).id)
  OBVIOUS
<1>4. other \in Ids \cup {Nobody} /\ Gives(Hand(c).cmd) = Values
  BY <1>2, <1>3, NamedTyped DEF Gives
<1> DEFINE all == AddAnswers(Accounts, Hand(c).id, other)
           doc == Befriended(Accounts, Hand(c).id, other)
<1>5. /\ all \in Seq(Values) /\ Len(all) > 0
      /\ Once(Accounts) \/ AddWrites(Accounts, Hand(c).id, other) => Len(all) = 1
  BY <1>2, <1>4, AddAnswersTyped
<1>6. all # << >>
  BY <1>5
<1>7. CASE AddWrites(Accounts, Hand(c).id, other)
  <2>1. Saves(c, Hand(c), "private", doc, all)
    BY <1>2, <1>3, <1>7 DEF Add
  <2>2. other \in Ids
    BY <1>4, <1>7 DEF AddWrites
  <2>3. Document("private", doc)
    BY <1>2, <2>2, BefriendedTyped, DocumentIs
  <2> HIDE DEF doc, all
  <2> QED BY <1>2, <1>4, <1>5, <1>7, <2>1, <2>3, SavesContinues DEF Answered, Turn
<1>8. CASE ~ AddWrites(Accounts, Hand(c).id, other)
  <2>1. Answers(c, Hand(c), all)
    BY <1>2, <1>3, <1>8 DEF Add
  <2>2. ~ reused => Once(Accounts)
    BY DEF FitFiles, Versions, Fit, Sound, Accounts
  <2> HIDE DEF all
  <2> QED BY <1>1, <1>2, <1>4, <1>5, <1>6, <2>1, <2>2, AnswersCompletes DEF Answered, Turn, Twice
<1> QED BY <1>7, <1>8

\* A sequence of one answer.
LEMMA OneReply ==
  ASSUME NEW S, NEW v \in S
  PROVE  << v >> \in Seq(S) /\ << v >> # << >> /\ Len(<< v >>) = 1
OBVIOUS

\* A request that is answered once and writes no file is done.
LEMMA NobodyAnswers ==
  ASSUME Served, NEW c \in Threads, Hand(c).cmd \in {"LOOK", "LISTGROUPS", "CHAT", "GROUP"},
         NEW v \in Values, Answers(c, Hand(c), << v >>), Reads(c)
  PROVE  Turn(c)
<1>1. Gives(Hand(c).cmd) = Values /\ Hand(c).cmd \in Answered
  BY DEF Gives, Answered
<1>2. << v >> \in Seq(Values) /\ << v >> # << >> /\ Len(<< v >>) = 1
  BY OneReply
<1> DEFINE replies == << v >>
<1> HIDE DEF replies
<1>3. Completes(c)
  BY <1>1, <1>2, AnswersCompletes DEF replies
<1> QED BY <1>3 DEF Turn

\* A thread that goes to parse another file.
LEMMA GoesOnTurns ==
  ASSUME Served, NEW c \in Threads, NEW step \in {"groups", "peek"}, NEW u, IsPrivate(u),
         NEW req \in Requested,
         IF Hand(c).cmd = "MAP" THEN req = [Hand(c) EXCEPT !.cmd = "PENDING"] ELSE req = Hand(c),
         Goto(c, step, TheJob(req, u, {}, NoDraft, << >>)),
         step = "groups" => req.cmd \in {"LISTGROUPS", "CHAT", "GROUP", "SEND"},
         step = "peek" => req.cmd = "PENDING",
         Reads(c), UNCHANGED mail
  PROVE  Turn(c)
<1> DEFINE j == TheJob(req, u, {}, NoDraft, << >>)
<1>1. Moved(c, step, j)
  BY GotoMoved
<1>2. << >> \in Seq(Gives(req.cmd))
  OBVIOUS
<1>3. JobTyped(j)
  BY <1>2, TheJobTyped
<1>4. j.req = req /\ j.replies = << >>
  BY TheJobHolds
<1> HIDE DEF j
<1>5. Placed(step, j)
  BY <1>4 DEF Placed
<1>6. Continues(c)
  BY <1>1, <1>3, <1>4, <1>5 DEF Continues
<1> QED BY <1>6 DEF Turn

\* CHAT is answered with a friend, or goes on to the groups.
LEMMA ChatTurns ==
  ASSUME Served, Disks, Queued, NEW c \in Threads, Chat(c)
  PROVE  Turn(c)
<1>1. Takes(c, "CHAT")
  BY DEF Chat
<1>2. /\ Reads(c) /\ Hand(c) \in Requested /\ Hand(c).cmd = "CHAT" /\ Hand(c) = Taken(c)
      /\ IsPrivate(Accounts)
  BY <1>1, TakesReads
<1>3. PICK friend : friend = FriendNamed(Accounts, Hand(c).id, Hand(c).arg)
  OBVIOUS
<1>4. friend \in Ids \cup {Nobody}
  BY <1>2, <1>3, FriendNamedTyped
<1>5. CASE friend # Nobody
  <2>1. Answers(c, Hand(c), << friend >>) /\ friend \in Values
    BY <1>2, <1>3, <1>4, <1>5 DEF Chat, Values
  <2> QED BY <1>2, <2>1, NobodyAnswers
<1>6. CASE friend = Nobody
  <2>1. Goto(c, "groups", JobOf(Hand(c))) /\ UNCHANGED mail
    BY <1>2, <1>3, <1>6 DEF Chat
  <2>2. Goto(c, "groups", TheJob(Hand(c), << >>, {}, NoDraft, << >>))
    BY <2>1, NewJobs
  <2> QED BY <1>2, <2>1, <2>2, EmptyDocuments, GoesOnTurns
<1> QED BY <1>5, <1>6

\* LISTGROUPS and GROUP go on to the groups.
LEMMA TakeGroupsTurns ==
  ASSUME Served, Disks, Queued, NEW c \in Threads, TakeGroups(c)
  PROVE  Turn(c)
<1>1. PICK cmd \in {"LISTGROUPS", "GROUP"} : Takes(c, cmd)
  BY DEF TakeGroups
<1>2. /\ Reads(c) /\ Hand(c) \in Requested /\ Hand(c).cmd = cmd /\ Hand(c) = Taken(c)
      /\ IsPrivate(Accounts)
  BY <1>1, TakesReads
<1>3. Goto(c, "groups", [JobOf(Hand(c)) EXCEPT !.users = Accounts]) /\ UNCHANGED mail
  BY <1>2 DEF TakeGroups
<1>4. Goto(c, "groups", TheJob(Hand(c), Accounts, {}, NoDraft, << >>))
  BY <1>3, CopiedJob
<1> QED BY <1>1, <1>2, <1>3, <1>4, GoesOnTurns

\* SEND goes on to its receiver, or to the groups.
LEMMA SendTurns ==
  ASSUME Served, Disks, Queued, NEW c \in Threads, Send(c)
  PROVE  Turn(c)
<1>1. Takes(c, "SEND") /\ UNCHANGED mail
  BY DEF Send
<1>2. /\ Reads(c) /\ Hand(c) \in Requested /\ Hand(c).cmd = "SEND" /\ Hand(c) = Taken(c)
      /\ IsPrivate(Accounts)
  BY <1>1, TakesReads
<1> DEFINE j == TheJob(Hand(c), Accounts, {}, NoDraft, << >>)
<1>3. [JobOf(Hand(c)) EXCEPT !.users = Accounts] = j
  BY CopiedJob
<1>4. IF Hand(c).arg[1] \in Ids THEN Sends(c, j, {Hand(c).arg[1]}) ELSE Goto(c, "groups", j)
  BY <1>2, <1>3 DEF Send
<1>5. CASE Hand(c).arg[1] \in Ids
  <2>1. Sends(c, j, {Hand(c).arg[1]})
    BY <1>4, <1>5
  <2>2. << >> \in Seq(Gives(Hand(c).cmd))
    OBVIOUS
  <2>3. JobTyped(j)
    BY <1>2, <2>2, TheJobTyped
  <2>4. j.req = Hand(c) /\ j.replies = << >>
    BY TheJobHolds
  <2> HIDE DEF j
  <2> QED BY <1>1, <1>2, <1>5, <2>1, <2>3, <2>4, SendsGoesOn DEF Turn
<1>6. CASE Hand(c).arg[1] \notin Ids
  BY <1>1, <1>2, <1>4, <1>6, GoesOnTurns
<1> QED BY <1>5, <1>6

\* MAP goes on as PENDING.
LEMMA MapTurns ==
  ASSUME Served, Disks, Queued, NEW c \in Threads, Map(c)
  PROVE  Turn(c)
<1>1. Takes(c, "MAP") /\ UNCHANGED mail
  BY DEF Map
<1>2. /\ Reads(c) /\ Hand(c) \in Requested /\ Hand(c).cmd = "MAP" /\ Hand(c) = Taken(c)
  BY <1>1, TakesReads
<1>3. PICK new : new = [Hand(c) EXCEPT !.cmd = "PENDING"]
  OBVIOUS
<1>4. Goto(c, "peek", JobOf(new))
  BY <1>2, <1>3 DEF Map
<1>5. new \in Requested /\ new.cmd = "PENDING"
  BY <1>2, <1>3, MapBecomesPending
<1>6. Goto(c, "peek", TheJob(new, << >>, {}, NoDraft, << >>))
  BY <1>4, NewJobs
<1> QED BY <1>1, <1>2, <1>3, <1>5, <1>6, EmptyDocuments, GoesOnTurns

\* EXIT goes to write, with no answer.
LEMMA ExitTurns ==
  ASSUME Served, Disks, Queued, NEW c \in Threads, Exit(c)
  PROVE  Turn(c)
<1>1. Takes(c, "EXIT")
  BY DEF Exit
<1>2. /\ Reads(c) /\ Hand(c) \in Requested /\ Hand(c).cmd = "EXIT" /\ Hand(c) = Taken(c)
      /\ IsPrivate(Accounts) /\ Hand(c).id \in Ids
  BY <1>1, TakesReads, RequestHolds
<1> DEFINE doc == SignedOut(Accounts, Hand(c).id)
           replies == << >>
<1>3. Saves(c, Hand(c), "private", doc, replies)
  BY <1>2 DEF Exit
<1>4. Document("private", doc)
  BY <1>2, SignTyped, DocumentIs
<1>5. replies \in Seq(Gives(Hand(c).cmd)) /\ Len(replies) = 0
  OBVIOUS
<1> HIDE DEF doc, replies
<1> QED BY <1>2, <1>3, <1>4, <1>5, SavesContinues DEF Answered, Turn

\* A login with too many words is done, with no answer.
LEMMA IgnoreTurns ==
  ASSUME Served, Disks, Queued, NEW c \in Threads, Ignore(c)
  PROVE  Turn(c)
<1>1. Takes(c, "AUTHENTICATE_WORDS") /\ UNCHANGED << pc, job, mail >>
  BY DEF Ignore, serverVars
<1>2. pc[c] = "reading" /\ Reads(c) /\ Hand(c).cmd = "AUTHENTICATE_WORDS"
  BY <1>1, TakesReads
<1>3. job[c] = NoJob
  BY <1>2 DEF Served, Placed
<1>4. Moved(c, "reading", NoJob)
  BY <1>1, <1>2, <1>3 DEF Moved, Served
<1> QED BY <1>1, <1>2, <1>4 DEF Completes, Turn

\* A request that only looks is answered at once.
LEMMA LookTurns ==
  ASSUME Served, Disks, Queued, NEW c \in Threads, Look(c)
  PROVE  Turn(c)
<1>1. Takes(c, "LOOK")
  BY DEF Look
<1>2. Reads(c) /\ Hand(c).cmd = "LOOK" /\ Hand(c) = Taken(c)
  BY <1>1, TakesReads
<1>3. Answers(c, Hand(c), << Nobody >>) /\ Nobody \in Values
  BY <1>2 DEF Look, Values
<1> QED BY <1>2, <1>3, NobodyAnswers
-----------------------------------------------------------------------------
(* The steps after the first. *)

\* A thread that has read its request.
LEMMA InHand ==
  ASSUME Served, Disks, NEW c \in Threads, pc[c] \notin {"none", "reading", "gone"}, UNCHANGED inbound
  PROVE  /\ Hand(c) = job[c].req /\ Hand(c) \in Requested /\ Reads(c)
         /\ JobTyped(job[c]) /\ Placed(pc[c], job[c])
         /\ IsPrivate(disk["private"]) /\ IsGroups(disk["groups"])
         /\ IsMessages(disk["messages"]) /\ Filled(disk["messages"])
<1>1. Hand(c) = job[c].req /\ Reads(c)
  BY DEF Hand, Reads
<1>2. JobTyped(job[c]) /\ Placed(pc[c], job[c])
  BY DEF Served
<1>3. \A f \in Files : Document(f, disk[f])
  BY DEF Disks
<1>4. /\ IsPrivate(disk["private"]) /\ IsGroups(disk["groups"])
      /\ IsMessages(disk["messages"]) /\ Filled(disk["messages"])
  BY <1>3, DocumentIs DEF Files
<1> QED BY <1>1, <1>2, <1>4 DEF JobTyped

\* LISTGROUPS, and CHAT with a group, are answered from groups.json.
LEMMA GroupsTurns ==
  ASSUME Served, Disks, NEW c \in Threads, ListGroups(c) \/ ChatGroup(c)
  PROVE  Turn(c)
<1>1. pc[c] = "groups" /\ UNCHANGED inbound /\ job[c].req.cmd \in {"LISTGROUPS", "CHAT"}
  BY DEF ListGroups, ChatGroup, Parses
<1>2. Hand(c) = job[c].req /\ Reads(c) /\ IsGroups(disk["groups"])
  BY <1>1, InHand
<1>3. CASE ListGroups(c)
  <2>1. Answers(c, Hand(c), << Nobody >>) /\ Nobody \in Values
    BY <1>2, <1>3 DEF ListGroups, Values
  <2> QED BY <1>1, <1>2, <2>1, NobodyAnswers
<1>4. CASE ChatGroup(c)
  <2> DEFINE word == job[c].req.arg
  <2>1. PICK v : v = IF word \in DOMAIN disk["groups"] THEN word ELSE Nobody
    OBVIOUS
  <2>2. Answers(c, Hand(c), << v >>)
    BY <1>2, <1>4, <2>1 DEF ChatGroup
  <2>3. v \in Values
    BY <1>2, <2>1 DEF IsGroups, Values
  <2> QED BY <1>1, <1>2, <2>2, <2>3, NobodyAnswers
<1> QED BY <1>3, <1>4

\* GROUP is answered at once when the group exists, and goes to write when it does not.
LEMMA MakeGroupTurns ==
  ASSUME Served, Disks, NEW c \in Threads, MakeGroup(c)
  PROVE  Turn(c)
<1>1. pc[c] = "groups" /\ UNCHANGED inbound /\ job[c].req.cmd = "GROUP"
  BY DEF MakeGroup, Parses
<1>2. /\ Hand(c) = job[c].req /\ Hand(c) \in Requested /\ Reads(c) /\ IsGroups(disk["groups"])
      /\ IsPrivate(job[c].users) /\ Hand(c).id \in Ids /\ Hand(c).arg[1] \in Groups
  BY <1>1, InHand, RequestHolds DEF JobTyped
<1> DEFINE listed == Members(job[c].users, Hand(c).id, Hand(c).arg[2])
           doc == Put(disk["groups"], Hand(c).arg[1], listed)
           one == << 1 >>
<1>3. CASE Hand(c).arg[1] \in DOMAIN disk["groups"]
  <2>1. Answers(c, Hand(c), << Nobody >>) /\ Nobody \in Values
    BY <1>2, <1>3 DEF MakeGroup, Values
  <2> QED BY <1>1, <1>2, <2>1, NobodyAnswers
<1>4. CASE Hand(c).arg[1] \notin DOMAIN disk["groups"]
  <2>1. Saves(c, Hand(c), "groups", doc, one)
    BY <1>2, <1>4 DEF MakeGroup
  <2>2. listed \in SUBSET Ids
    BY <1>2, MembersTyped
  <2>3. Document("groups", doc)
    <3> HIDE DEF listed
    <3> QED BY <1>2, <2>2, GroupsTyped, DocumentIs
  <2>4. 1 \in Values /\ Gives(Hand(c).cmd) = Values
    <3>1. 1 \in Ids
      BY <1>2, ChatappStoreAssumption DEF Ids
    <3> QED BY <1>1, <1>2, <3>1 DEF Values, Gives
  <2>5. one \in Seq(Gives(Hand(c).cmd)) /\ Len(one) = 1
    BY <2>4
  <2> HIDE DEF doc, one
  <2> QED BY <1>1, <1>2, <2>1, <2>3, <2>5, SavesContinues DEF Answered, Turn
<1> QED BY <1>3, <1>4

\* SEND to a group goes on to its members.
LEMMA SendGroupTurns ==
  ASSUME Served, Disks, NEW c \in Threads, SendGroup(c)
  PROVE  Turn(c)
<1>1. pc[c] = "groups" /\ UNCHANGED << inbound, mail >> /\ job[c].req.cmd = "SEND"
  BY DEF SendGroup, Parses
<1>2. /\ Hand(c) = job[c].req /\ Reads(c) /\ IsGroups(disk["groups"])
      /\ JobTyped(job[c]) /\ Placed(pc[c], job[c])
  BY <1>1, InHand
<1>3. PICK todo : /\ todo = MembersOf(disk["groups"], job[c].req.arg[1]) \ {job[c].req.id}
                  /\ Sends(c, job[c], todo)
  BY DEF SendGroup
<1>4. todo \subseteq Ids
  BY <1>2, <1>3, GroupsTyped
<1>5. job[c].replies = << >>
  BY <1>1, <1>2 DEF Placed
<1> QED BY <1>1, <1>2, <1>3, <1>4, <1>5, SendsGoesOn DEF Turn

\* SEND goes on when one receiver has been sent the text.
LEMMA DeliverTurns ==
  ASSUME Served, Disks, NEW c \in Threads, Deliver(c)
  PROVE  Turn(c)
<1>1. pc[c] = "sending" /\ UNCHANGED << inbound, mail >>
  BY DEF Deliver
<1>2. Hand(c) = job[c].req /\ Reads(c) /\ JobTyped(job[c]) /\ Placed(pc[c], job[c])
  BY <1>1, InHand
<1>3. PICK to : Sends(c, job[c], job[c].todo \ {to})
  BY DEF Deliver
<1>4. PICK todo : todo = job[c].todo \ {to}
  OBVIOUS
<1>5. todo \subseteq Ids /\ Sends(c, job[c], todo)
  BY <1>2, <1>3, <1>4 DEF JobTyped
<1>6. job[c].replies = << >> /\ job[c].req.cmd = "SEND"
  BY <1>1, <1>2 DEF Placed
<1> QED BY <1>1, <1>2, <1>5, <1>6, SendsGoesOn DEF Turn

\* SEND goes to write the text of a receiver who is not online.
LEMMA LeaveTurns ==
  ASSUME Served, Disks, NEW c \in Threads, Leave(c)
  PROVE  Turn(c)
<1>1. pc[c] = "sending" /\ UNCHANGED << inbound, mail >>
  BY DEF Leave, Parses
<1>2. /\ Hand(c) = job[c].req /\ Hand(c) \in Requested /\ Reads(c) /\ JobTyped(job[c]) /\ Placed(pc[c], job[c])
      /\ IsMessages(disk["messages"]) /\ Filled(disk["messages"])
  BY <1>1, InHand
<1>3. Hand(c).cmd = "SEND" /\ Hand(c).id \in Ids /\ Hand(c).arg[2] \in Texts /\ job[c].replies = << >>
  BY <1>1, <1>2, RequestHolds DEF Placed
<1>4. PICK to \in job[c].todo :
        LET doc == Left(disk["messages"], job[c].req.id, to, job[c].req.arg[2])
        IN  Goto(c, "save", [job[c] EXCEPT !.todo = @ \ {to}, !.draft = Draft("messages", doc)])
  BY DEF Leave
<1> DEFINE doc == Left(disk["messages"], job[c].req.id, to, job[c].req.arg[2])
           d == Draft("messages", doc)
           rest == job[c].todo \ {to}
           j == TheJob(job[c].req, job[c].users, rest, d, job[c].replies)
<1>5. Goto(c, "save", [job[c] EXCEPT !.todo = rest, !.draft = d])
  BY <1>4
<1>6. Document("messages", doc)
  <2>1. to \in Ids
    BY <1>2 DEF JobTyped
  <2> QED BY <1>2, <1>3, <2>1, LeftTyped, DocumentIs
<1>7. d.file = "messages" /\ d.doc = doc
  BY DEF Draft
<1>8. rest \subseteq Ids
  BY <1>2 DEF JobTyped
<1> HIDE DEF d, rest, doc
<1>9. Goto(c, "save", j)
  BY <1>2, <1>5, ChangedJobs DEF JobTyped
<1>10. JobTyped(j)
  BY <1>2, <1>6, <1>7, <1>8, TheJobTyped DEF JobTyped
<1>11. j.req = Hand(c) /\ j.replies = << >> /\ j.draft = d
  BY <1>2, <1>3, TheJobHolds
<1> HIDE DEF j
<1>12. Placed("save", j)
  <2>1. Len(j.replies) = 0
    BY <1>11
  <2> QED BY <1>3, <1>6, <1>7, <1>11, <2>1 DEF Placed, Answered, Document
<1>13. Moved(c, "save", j)
  BY <1>9, GotoMoved
<1>14. Continues(c)
  BY <1>1, <1>2, <1>3, <1>10, <1>11, <1>12, <1>13 DEF Continues
<1> QED BY <1>14 DEF Turn

\* PENDING goes to write what is left of messages.json.
LEMMA PendingTurns ==
  ASSUME Served, Disks, NEW c \in Threads, Pending(c)
  PROVE  Turn(c)
<1>1. pc[c] = "peek" /\ UNCHANGED inbound
  BY DEF Pending
<1>2. /\ Hand(c) = job[c].req /\ Hand(c) \in Requested /\ Reads(c) /\ Placed(pc[c], job[c])
      /\ IsMessages(disk["messages"]) /\ Filled(disk["messages"])
  BY <1>1, InHand
<1>3. Hand(c).cmd = "PENDING"
  BY <1>1, <1>2 DEF Placed
<1> DEFINE doc == Cleared(disk["messages"], job[c].req.id)
           replies == << >>
<1>4. Saves(c, Hand(c), "messages", doc, replies)
  BY <1>2 DEF Pending
<1>5. Document("messages", doc)
  BY <1>2, ClearedTyped, DocumentIs
<1>6. replies \in Seq(Gives(Hand(c).cmd)) /\ Len(replies) = 0
  OBVIOUS
<1> HIDE DEF doc, replies
<1> QED BY <1>2, <1>3, <1>4, <1>5, <1>6, SavesContinues DEF Answered, Turn

\* The request stays in hand while its file is written.
LEMMA BeginSaveTurns ==
  ASSUME Served, Disks, NEW c \in Threads, BeginSave(c)
  PROVE  Turn(c)
<1>1. pc[c] = "save" /\ pc' = [pc EXCEPT ![c] = "saving"] /\ UNCHANGED << inbound, mail, job >>
  BY DEF BeginSave
<1>2. Hand(c) = job[c].req /\ Reads(c) /\ JobTyped(job[c]) /\ Placed(pc[c], job[c])
  BY <1>1, InHand
<1>3. Placed("saving", job[c])
  BY <1>1, <1>2 DEF Placed
<1>4. Moved(c, "saving", job[c])
  BY <1>1 DEF Moved, Served
<1>5. Hand(c).cmd # "MAP"
  BY <1>1, <1>2 DEF Placed
<1>6. Continues(c)
  BY <1>1, <1>2, <1>3, <1>4, <1>5 DEF Continues
<1> QED BY <1>6 DEF Turn

\* An answer of no values changes nothing.
LEMMA NothingMailed ==
  ASSUME mail \in [Sessions -> Seq(Letter)], NEW c \in Threads, NEW cmd, Mails(c, cmd, << >>)
  PROVE  UNCHANGED mail
<1>1. PICK q : q = mail[c[1]]
  OBVIOUS
<1>2. q \in Seq(Letter)
  BY <1>1, ThreadIsEnd
<1>3. q \o << >> = q
  BY <1>2
<1>4. [k \in DOMAIN << >> |-> [cmd |-> cmd, value |-> << >>[k]]] = << >>
  OBVIOUS
<1>5. mail' = [mail EXCEPT ![c[1]] = IF user[c[1]] = "over" THEN q ELSE q \o << >>]
  BY <1>1, <1>4 DEF Mails
<1>6. mail' = [mail EXCEPT ![c[1]] = q]
  BY <1>3, <1>5
<1> QED BY <1>1, <1>6

\* Once a file is written: SEND goes on, EXIT ends the thread, the others are answered.
LEMMA EndSaveTurns ==
  ASSUME Served, Disks, Queued, NEW c \in Threads, EndSave(c)
  PROVE  Turn(c)
<1>1. pc[c] = "saving" /\ UNCHANGED << inbound, reused >>
  BY DEF EndSave
<1>2. /\ Hand(c) = job[c].req /\ Hand(c) \in Requested /\ Reads(c)
      /\ JobTyped(job[c]) /\ Placed(pc[c], job[c])
  BY <1>1, InHand
<1>3. /\ Hand(c).cmd \in {"AUTHENTICATE", "REGISTER", "ADD", "GROUP", "SEND", "PENDING", "EXIT"}
      /\ job[c].replies \in Seq(Gives(Hand(c).cmd))
      /\ Len(job[c].replies) = IF Hand(c).cmd \in Answered THEN 1 ELSE 0
  BY <1>1, <1>2 DEF Placed, JobTyped
<1>4. CASE Hand(c).cmd = "SEND"
  <2> DEFINE j == TheJob(job[c].req, job[c].users, job[c].todo, NoDraft, job[c].replies)
  <2>1. Sends(c, [job[c] EXCEPT !.draft = NoDraft], job[c].todo) /\ UNCHANGED mail
    BY <1>2, <1>4 DEF EndSave
  <2>2. [job[c] EXCEPT !.draft = NoDraft] = j
    BY <1>2, ChangedJobs DEF JobTyped
  <2>3. JobTyped(j)
    BY <1>2, TheJobTyped DEF JobTyped
  <2>4. j.req = Hand(c) /\ j.replies = << >>
    <3>1. job[c].replies = << >>
      BY <1>3, <1>4 DEF Answered
    <3> QED BY <1>2, <3>1, TheJobHolds
  <2>5. Sends(c, j, job[c].todo) /\ job[c].todo \subseteq Ids
    BY <1>2, <2>1, <2>2 DEF JobTyped
  <2> HIDE DEF j
  <2> QED BY <1>2, <1>4, <2>1, <2>3, <2>4, <2>5, SendsGoesOn DEF Turn
<1>5. CASE Hand(c).cmd = "EXIT"
  <2>1. Goto(c, "gone", NoJob) /\ UNCHANGED mail
    BY <1>2, <1>5 DEF EndSave
  <2>2. Dies(c)
    BY <1>1, <1>2, <1>5, <2>1, GotoMoved DEF Dies
  <2> QED BY <2>2 DEF Turn
<1>6. CASE Hand(c).cmd \notin {"SEND", "EXIT"}
  <2>1. Answers(c, Hand(c), job[c].replies)
    BY <1>2, <1>6 DEF EndSave
  <2>2. CASE Hand(c).cmd \in Answered
    <3>1. Len(job[c].replies) = 1
      BY <1>3, <2>2
    <3>2. job[c].replies # << >>
      BY <3>1
    <3> QED BY <1>2, <1>3, <2>1, <2>2, <3>1, <3>2, AnswersCompletes DEF Turn
  <2>3. CASE Hand(c).cmd \notin Answered
    <3>1. Hand(c).cmd = "PENDING"
      BY <1>3, <1>6, <2>3 DEF Answered
    <3>2. job[c].replies = << >>
      <4>1. Len(job[c].replies) = 0
        BY <1>3, <2>3
      <4> QED BY <1>3, <4>1
    <3>3. UNCHANGED mail
      BY <2>1, <3>2, NothingMailed DEF Answers, Queued
    <3>4. Moved(c, "reading", NoJob)
      BY <2>1, GotoMoved DEF Answers
    <3>5. Completes(c)
      BY <1>2, <3>1, <3>3, <3>4 DEF Completes
    <3> QED BY <3>5 DEF Turn
  <2> QED BY <2>2, <2>3
<1> QED BY <1>4, <1>5, <1>6

\* A thread ends with a parse that fails, or at the end of the stream.
LEMMA EndsTurn ==
  ASSUME Served, NEW c \in Threads, ParseFails(c) \/ PendingFails(c) \/ EndOfStream(c)
  PROVE  Turn(c)
<1>1. /\ Goto(c, "gone", NoJob) /\ UNCHANGED << inbound, mail >>
      /\ \/ mutex' = c
         \/ pc[c] = "peek"
         \/ pc[c] = "reading" /\ inbound[c] = << >> /\ PeerGone(c)
  BY DEF ParseFails, PendingFails, EndOfStream
<1>2. Moved(c, "gone", NoJob)
  BY <1>1, GotoMoved
<1> QED BY <1>1, <1>2 DEF Dies, Turn

\* Every step of a thread is a turn, and leaves to the clients what is theirs.
LEMMA ServeTurns ==
  ASSUME Served, Disks, Queued, FitFiles, NEW c \in Threads, Serve(c)
  PROVE  Turn(c)
BY AuthenticateTurns, IgnoreTurns, RegisterTurns, LookTurns, AddTurns, ChatTurns, TakeGroupsTurns,
   SendTurns, MapTurns, ExitTurns, EndsTurn, GroupsTurns, MakeGroupTurns, SendGroupTurns, LeaveTurns,
   DeliverTurns, PendingTurns, BeginSaveTurns, EndSaveTurns DEF Serve, Requests

\* A thread that is not there takes no step, and none touches a variable of the clients.
LEMMA ServeLeaves ==
  ASSUME NEW c \in Threads, Serve(c)
  PROVE  /\ pc[c] \notin {"none", "gone"}
         /\ UNCHANGED << user, me, asked, chat, inbox, typed, sent, joined, restarts >>
<1>1. CASE Requests(c)
  BY <1>1 DEF Requests, Authenticate, Ignore, Register, Look, Add, Chat, TakeGroups, Send, Map, Exit,
              Takes, serverVars, sharedVars, clientVars, historyVars
<1>2. CASE ParseFails(c) \/ ListGroups(c) \/ ChatGroup(c) \/ MakeGroup(c) \/ SendGroup(c)
  BY <1>2 DEF ParseFails, ListGroups, ChatGroup, MakeGroup, SendGroup, Parses,
              sharedVars, clientVars, historyVars
<1>3. CASE Leave(c) \/ Deliver(c) \/ Pending(c) \/ PendingFails(c) \/ EndSave(c) \/ EndOfStream(c)
  BY <1>3 DEF Leave, Deliver, Pending, PendingFails, EndSave, EndOfStream, Parses,
              sharedVars, clientVars, historyVars
<1>4. CASE BeginSave(c)
  BY <1>4 DEF BeginSave, clientVars, historyVars
<1> QED BY <1>1, <1>2, <1>3, <1>4 DEF Serve
-----------------------------------------------------------------------------
(* What a turn changes. *)

\* The first of a sequence, and the rest.
LEMMA HeadTail ==
  ASSUME NEW S, NEW q \in Seq(S), q # << >>
  PROVE  /\ Head(q) \in S /\ Head(q) = q[1] /\ Tail(q) \in Seq(S) /\ Len(q) \in Nat \ {0}
         /\ Len(Tail(q)) = Len(q) - 1
         /\ \A k \in 1 .. Len(q) - 1 : Tail(q)[k] = q[k + 1]
BY HeadTailProperties

\* The answers a thread sends are letters of its request.
LEMMA RepliesAreLetters ==
  ASSUME NEW cmd \in Answered, NEW replies \in Seq(Gives(cmd))
  PROVE  LET all == [k \in DOMAIN replies |-> [cmd |-> cmd, value |-> replies[k]]]
         IN  /\ all \in Seq({m \in Letter : m.cmd = cmd}) /\ Len(all) = Len(replies)
             /\ Len(all) \in Nat
<1> DEFINE all == [k \in DOMAIN replies |-> [cmd |-> cmd, value |-> replies[k]]]
           L == {m \in Letter : m.cmd = cmd}
<1>1. Gives(cmd) \subseteq Values
  BY DEF Gives, Values
<1>2. \A v \in Gives(cmd) : [cmd |-> cmd, value |-> v] \in L
  BY <1>1 DEF Letter
<1>3. DOMAIN replies = 1 .. Len(replies) /\ Len(replies) \in Nat /\ \A k \in DOMAIN replies : replies[k] \in Gives(cmd)
  BY LenProperties
<1> HIDE DEF L
<1>4. all \in [1 .. Len(replies) -> L]
  BY <1>2, <1>3
<1> HIDE DEF all
<1>5. all \in Seq(L) /\ Len(all) = Len(replies)
  BY <1>3, <1>4
<1> QED BY <1>3, <1>5 DEF all, L

\* Answers are put behind those that are on the way.
LEMMA LettersAppended ==
  ASSUME NEW S, NEW T, NEW q \in Seq(S), T \subseteq S, NEW all \in Seq(T)
  PROVE  q \o all \in Seq(S) /\ Len(q \o all) = Len(q) + Len(all)
<1>1. all \in Seq(S)
  BY SeqLarger
<1> QED BY <1>1, ConcatProperties

\* The thread that made the turn.
Idle(c) == pc[c] = "reading" /\ inbound[c] = << >>

TurnOf(c) ==
  /\ pc'[c] # "none"
  /\ Idle(c) => job'[c].req = NoRequest /\ mail'[c[1]] = mail[c[1]]
  /\ job'[c].req = NoRequest
     \/ job'[c].req = IF Hand(c).cmd = "MAP" THEN [Hand(c) EXCEPT !.cmd = "PENDING"] ELSE Hand(c)
  /\ inbound'[c] = inbound[c]
     \/ (pc[c] = "reading" /\ inbound[c] # << >> /\ inbound'[c] = Tail(inbound[c]))
  /\ mail'[c[1]] = mail[c[1]]
     \/ /\ Hand(c).cmd \in Answered
        /\ \E all \in Seq({m \in Letter : m.cmd = Hand(c).cmd}) : mail'[c[1]] = mail[c[1]] \o all

\* Those that did not.
Others(c) ==
  /\ DOMAIN inbound' = Threads /\ mail' \in [Sessions -> Seq(Letter)]
  /\ \A d \in Threads \ {c} : pc'[d] = pc[d] /\ job'[d] = job[d] /\ inbound'[d] = inbound[d]
  /\ \A s \in Sessions \ {c[1]} : mail'[s] = mail[s]

\* What reading a request does to the connections.
LEMMA ReadsIs ==
  ASSUME DOMAIN inbound = Threads, NEW c \in Threads, Reads(c)
  PROVE  /\ DOMAIN inbound' = Threads /\ \A d \in Threads \ {c} : inbound'[d] = inbound[d]
         /\ inbound'[c] = inbound[c]
            \/ (pc[c] = "reading" /\ inbound[c] # << >> /\ inbound'[c] = Tail(inbound[c]))
         /\ pc[c] = "reading" => inbound[c] # << >> /\ inbound'[c] = Tail(inbound[c])
         /\ pc[c] # "reading" => inbound'[c] = inbound[c]
<1>1. CASE pc[c] = "reading"
  BY <1>1 DEF Reads
<1>2. CASE pc[c] # "reading"
  <2>1. inbound' = inbound
    BY <1>2 DEF Reads
  <2>2. DOMAIN inbound' = Threads /\ \A d \in Threads : inbound'[d] = inbound[d]
    BY <2>1
  <2> QED BY <1>2, <2>2, Zenon
<1> QED BY <1>1, <1>2, Zenon

\* A thread that moves to a place that fits its job keeps the types.
LEMMA MovedIs ==
  ASSUME Served, NEW c \in Threads, NEW step \in Steps, NEW j, Moved(c, step, j), JobTyped(j), Placed(step, j)
  PROVE  /\ Served' /\ pc'[c] = step /\ job'[c] = j
         /\ \A d \in Threads \ {c} : pc'[d] = pc[d] /\ job'[d] = job[d]
<1>1. /\ pc' \in [Threads -> Steps] /\ DOMAIN job' = Threads /\ pc'[c] = step /\ job'[c] = j
      /\ \A d \in Threads \ {c} : pc'[d] = pc[d] /\ job'[d] = job[d]
  BY DEF Served, Moved
<1>2. \A d \in Threads : JobTyped(job'[d]) /\ Placed(pc'[d], job'[d])
  BY <1>1 DEF Served
<1>3. Served'
  BY <1>1, <1>2 DEF Served, JobTyped, Placed, IsJob
<1> QED BY <1>1, <1>3

\* Where a thread can be with nothing to do.
LEMMA NoJobPlaced == \A step \in {"none", "reading", "gone"} : Placed(step, NoJob)
BY DEF Placed

\* What sending answers does to the answers on the way: nothing once the client is gone.
LEMMA MailsIs ==
  ASSUME mail \in [Sessions -> Seq(Letter)], NEW c \in Threads, Hand(c).cmd \in Answered,
         NEW replies \in Seq(Gives(Hand(c).cmd)), Mails(c, Hand(c).cmd, replies)
  PROVE  /\ mail' \in [Sessions -> Seq(Letter)] /\ \A s \in Sessions \ {c[1]} : mail'[s] = mail[s]
         /\ user[c[1]] = "over" => mail'[c[1]] = mail[c[1]]
         /\ user[c[1]] # "over" =>
              \E all \in Seq({m \in Letter : m.cmd = Hand(c).cmd}) :
                Len(all) = Len(replies) /\ mail'[c[1]] = mail[c[1]] \o all
<1> DEFINE all == [k \in DOMAIN replies |-> [cmd |-> Hand(c).cmd, value |-> replies[k]]]
<1>1. all \in Seq({m \in Letter : m.cmd = Hand(c).cmd}) /\ Len(all) = Len(replies)
  BY RepliesAreLetters
<1>2. mail' = [mail EXCEPT ![c[1]] = IF user[c[1]] = "over" THEN @ ELSE @ \o all]
  BY DEF Mails
<1> HIDE DEF all
<1>3. c[1] \in Sessions
  BY ThreadIsEnd
<1>4. DOMAIN mail' = Sessions /\ \A s \in Sessions \ {c[1]} : mail'[s] = mail[s]
  BY <1>2, <1>3
<1>5. mail'[c[1]] = IF user[c[1]] = "over" THEN mail[c[1]] ELSE mail[c[1]] \o all
  BY <1>2, <1>3
<1>6. mail' \in [Sessions -> Seq(Letter)]
  <2>1. mail[c[1]] \o all \in Seq(Letter)
    BY <1>1, <1>3, LettersAppended
  <2> QED BY <1>2, <1>3, <2>1
<1> QED BY <1>1, <1>4, <1>5, <1>6

\* A turn in terms of the thread that makes it and those that do not.
LEMMA TurnIs ==
  ASSUME Served, Queued, NEW c \in Threads, Turn(c), pc[c] \notin {"none", "gone"}
  PROVE  Served' /\ TurnOf(c) /\ Others(c)
<1>0. DOMAIN inbound = Threads /\ mail \in [Sessions -> Seq(Letter)] /\ DOMAIN mail = Sessions
  BY DEF Queued
<1>1. CASE Continues(c)
  <2>1. PICK step, j :
          /\ step \in {"groups", "sending", "peek", "save", "saving"}
          /\ Moved(c, step, j) /\ JobTyped(j) /\ Placed(step, j)
          /\ Reads(c) /\ UNCHANGED mail
          /\ IF Hand(c).cmd = "MAP" THEN j.req = [Hand(c) EXCEPT !.cmd = "PENDING"] ELSE j.req = Hand(c)
    BY <1>1 DEF Continues
  <2>2. /\ Served' /\ pc'[c] = step /\ job'[c] = j
        /\ \A d \in Threads \ {c} : pc'[d] = pc[d] /\ job'[d] = job[d]
    BY <2>1, MovedIs DEF Steps
  <2>3. TurnOf(c)
    <3>1. pc'[c] # "none" /\ mail'[c[1]] = mail[c[1]]
      BY <2>1, <2>2
    <3>2. inbound'[c] = inbound[c]
          \/ (pc[c] = "reading" /\ inbound[c] # << >> /\ inbound'[c] = Tail(inbound[c]))
      BY <1>0, <2>1, ReadsIs
    <3>3. job'[c].req = IF Hand(c).cmd = "MAP" THEN [Hand(c) EXCEPT !.cmd = "PENDING"] ELSE Hand(c)
      BY <2>1, <2>2
    <3>4. ~ Idle(c)
      BY <1>0, <2>1, ReadsIs DEF Idle
    <3> QED BY <3>1, <3>2, <3>3, <3>4, Zenon DEF TurnOf
  <2>4. Others(c)
    BY <1>0, <2>1, <2>2, ReadsIs DEF Others
  <2> QED BY <2>2, <2>3, <2>4
<1>2. CASE Completes(c)
  <2>1. Moved(c, "reading", NoJob) /\ Reads(c)
    BY <1>2 DEF Completes
  <2>2. /\ Served' /\ pc'[c] = "reading" /\ job'[c] = NoJob
        /\ \A d \in Threads \ {c} : pc'[d] = pc[d] /\ job'[d] = job[d]
    BY <2>1, MovedIs, NoJobTyped, NoJobPlaced DEF Steps
  <2>3. /\ mail' \in [Sessions -> Seq(Letter)] /\ \A s \in Sessions \ {c[1]} : mail'[s] = mail[s]
        /\ mail'[c[1]] = mail[c[1]]
           \/ /\ Hand(c).cmd \in Answered
              /\ \E all \in Seq({m \in Letter : m.cmd = Hand(c).cmd}) : mail'[c[1]] = mail[c[1]] \o all
    <3>1. CASE UNCHANGED mail
      BY <1>0, <3>1
    <3>2. CASE ~ UNCHANGED mail
      <4>1. Hand(c).cmd \in Answered
        BY <1>2, <3>2 DEF Completes
      <4>2. PICK replies \in Seq(Gives(Hand(c).cmd)) : Mails(c, Hand(c).cmd, replies)
        BY <1>2, <3>2 DEF Completes
      <4> QED BY <1>0, <4>1, <4>2, MailsIs
    <3> QED BY <3>1, <3>2
  <2>4. TurnOf(c)
    <3>1. pc'[c] # "none" /\ job'[c].req = NoRequest
      BY <2>2, NoJobTyped
    <3>2. inbound'[c] = inbound[c]
          \/ (pc[c] = "reading" /\ inbound[c] # << >> /\ inbound'[c] = Tail(inbound[c]))
      BY <1>0, <2>1, ReadsIs
    <3>4. ~ Idle(c)
      BY <1>0, <2>1, ReadsIs DEF Idle
    <3> QED BY <2>3, <3>1, <3>2, <3>4, Zenon DEF TurnOf
  <2>5. Others(c)
    BY <1>0, <2>1, <2>2, <2>3, ReadsIs DEF Others
  <2> QED BY <2>2, <2>4, <2>5
<1>3. CASE Dies(c)
  <2>1. Moved(c, "gone", NoJob) /\ UNCHANGED << inbound, mail >>
    BY <1>3 DEF Dies
  <2>2. /\ Served' /\ pc'[c] = "gone" /\ job'[c] = NoJob
        /\ \A d \in Threads \ {c} : pc'[d] = pc[d] /\ job'[d] = job[d]
    BY <2>1, MovedIs, NoJobTyped, NoJobPlaced DEF Steps
  <2>3. pc'[c] # "none" /\ job'[c].req = NoRequest
    BY <2>2, NoJobTyped
  <2>4. mail'[c[1]] = mail[c[1]] /\ inbound'[c] = inbound[c]
    BY <2>1
  <2>5. TurnOf(c)
    BY <2>3, <2>4, Zenon DEF TurnOf
  <2>6. Others(c)
    BY <1>0, <2>1, <2>2 DEF Others
  <2> QED BY <2>2, <2>5, <2>6
<1> QED BY <1>1, <1>2, <1>3 DEF Turn
-----------------------------------------------------------------------------
(* The clients, and what is on the way when a client has no account yet. *)

Clients ==
  /\ user \in [Sessions -> {"off", "denied", "menu", "wait", "chat", "over"}]
  /\ me \in [Sessions -> Ids \cup {Nobody}] /\ asked \in [Sessions -> Requested]
  /\ chat \in [Sessions -> Values] /\ inbox \in [Sessions -> {"none", "up", "down"}]

\* What somebody who has not been given an id may have asked, and be answered.
Possible(s) == IF asked[s].cmd = "REGISTER" THEN {"REGISTER"} ELSE {"AUTHENTICATE", "AUTHENTICATE_WORDS"}
GuestOrders(s)  == {r \in Requested : r.cmd \in Possible(s)}
GuestLetters(s) == {m \in Letter : m.cmd \in Possible(s)}

Guest(s) ==
  /\ me[s] = Nobody /\ inbox[s] = "none" /\ pc[Inbox(s)] = "none"
  /\ inbound[Main(s)] \in Seq(GuestOrders(s)) /\ mail[s] \in Seq(GuestLetters(s))
  /\ job[Main(s)].req.cmd \in Possible(s) \cup {"NONE"}

Guests ==
  \A s \in Sessions :
    /\ user[s] = "off" <=> pc[Main(s)] = "none"
    /\ Newcomer(s) => Guest(s)
    /\ ~ Newcomer(s) /\ user[s] # "over" => me[s] \in Ids
    /\ user[s] # "wait" => asked[s] = NoRequest

\* The answer a client waits for is on its way once at most: as a request that is not
\* read yet, as the request its thread works on, or as a letter.  This is so for each
\* client until an id is given away, and even then for those who have no id yet.
Silent(q) == \A k \in 1 .. Len(q) : q[k].cmd \notin Answered
Answering(s) ==
  /\ \A k \in 1 .. Len(inbound[Main(s)]) :
       inbound[Main(s)][k].cmd \in Answered =>
         k = Len(inbound[Main(s)]) /\ inbound[Main(s)][k] = asked[s]
  /\ job[Main(s)].req.cmd \in Answered =>
       job[Main(s)].req = asked[s] /\ Silent(inbound[Main(s)])
  /\ mail[s] # << >> => /\ Len(mail[s]) = 1 /\ mail[s][1].cmd = asked[s].cmd
                        /\ Silent(inbound[Main(s)]) /\ job[Main(s)].req.cmd \notin Answered

Answerings ==
  \A s \in Sessions :
    /\ user[s] = "over" => mail[s] = << >>
    /\ user[s] = "over" \/ (reused /\ ~ Newcomer(s)) \/ Answering(s)

Talk == Served /\ Disks /\ Queued /\ Clients /\ Guests /\ Answerings

\* Which client a thread belongs to.
LEMMA EndIsOf ==
  ASSUME NEW s \in Sessions, NEW c \in Threads
  PROVE  /\ Main(s)[1] = s /\ Inbox(s)[1] = s
         /\ c = Main(s) \/ c = Inbox(s) \/ (c # Main(s) /\ c # Inbox(s) /\ c[1] # s)
<1>1. Main(s)[1] = s /\ Inbox(s)[1] = s
  BY DEF Main, Inbox
<1>2. c[1] = s => c = Main(s) \/ c = Inbox(s)
  BY ThreadIsEnd
<1> QED BY <1>1, <1>2

\* What the two threads of a client have in hand.
LEMMA HandOf ==
  ASSUME Served, Queued, NEW s \in Sessions
  PROVE  /\ pc[Main(s)] \notin {"none", "gone"} /\ ~ Idle(Main(s)) =>
              /\ Hand(Main(s)) \in Requested
              /\ Hand(Main(s)).cmd \notin {"NONE", "MAP", "PENDING"}
              /\ \A S : inbound[Main(s)] \in Seq(S) =>
                   Hand(Main(s)) \in S \/ Hand(Main(s)) = job[Main(s)].req
         /\ pc[Inbox(s)] \notin {"none", "gone"} /\ ~ Idle(Inbox(s)) =>
              /\ Hand(Inbox(s)) \in Requested
              /\ Hand(Inbox(s)).cmd \in {"MAP", "PENDING"} /\ Hand(Inbox(s)).id = me[s]
<1>1. ASSUME pc[Main(s)] \notin {"none", "gone"}, ~ Idle(Main(s))
      PROVE  /\ Hand(Main(s)) \in Requested
             /\ Hand(Main(s)).cmd \notin {"NONE", "MAP", "PENDING"}
             /\ \A S : inbound[Main(s)] \in Seq(S) =>
                  Hand(Main(s)) \in S \/ Hand(Main(s)) = job[Main(s)].req
  <2>1. Hand(Main(s)) \in Requested /\ Hand(Main(s)).cmd # "NONE"
    BY <1>1, Ends, HandTyped DEF Idle
  <2>2. CASE pc[Main(s)] = "reading"
    <3>1. Hand(Main(s)) = Head(inbound[Main(s)]) /\ inbound[Main(s)] # << >>
      BY <1>1, <2>2 DEF Hand, Idle
    <3>2. \A S : inbound[Main(s)] \in Seq(S) => Hand(Main(s)) \in S
      BY <3>1, HeadTail
    <3>3. Hand(Main(s)) \in MainOrders
      BY <3>2 DEF Queued
    <3> QED BY <2>1, <3>2, <3>3 DEF MainOrders
  <2>3. CASE pc[Main(s)] # "reading"
    <3>1. Hand(Main(s)) = job[Main(s)].req
      BY <2>3 DEF Hand
    <3>2. Hand(Main(s)).cmd \notin {"MAP", "PENDING"}
      BY <3>1 DEF Queued
    <3> QED BY <2>1, <3>1, <3>2
  <2> QED BY <2>2, <2>3
<1>2. ASSUME pc[Inbox(s)] \notin {"none", "gone"}, ~ Idle(Inbox(s))
      PROVE  /\ Hand(Inbox(s)) \in Requested
             /\ Hand(Inbox(s)).cmd \in {"MAP", "PENDING"} /\ Hand(Inbox(s)).id = me[s]
  <2>1. Hand(Inbox(s)) \in Requested /\ Hand(Inbox(s)).cmd # "NONE"
    BY <1>2, Ends, HandTyped DEF Idle
  <2>2. CASE pc[Inbox(s)] = "reading"
    <3>1. Hand(Inbox(s)) = Head(inbound[Inbox(s)]) /\ inbound[Inbox(s)] # << >>
      BY <1>2, <2>2 DEF Hand, Idle
    <3>2. Hand(Inbox(s)) \in InboxOrders(s)
      <4>1. inbound[Inbox(s)] \in Seq(InboxOrders(s))
        BY DEF Queued
      <4> QED BY <3>1, <4>1, HeadTail
    <3> QED BY <2>1, <3>2 DEF InboxOrders
  <2>3. CASE pc[Inbox(s)] # "reading"
    <3>1. Hand(Inbox(s)) = job[Inbox(s)].req
      BY <2>3 DEF Hand
    <3> QED BY <2>1, <3>1 DEF Queued
  <2> QED BY <2>1, <2>2, <2>3
<1> QED BY <1>1, <1>2

\* What is on a connection stays of its kind.
LEMMA TurnQueue ==
  ASSUME NEW c \in Threads, TurnOf(c), Others(c), NEW d \in Threads, NEW S, inbound[d] \in Seq(S)
  PROVE  inbound'[d] \in Seq(S)
<1>1. CASE d = c
  BY <1>1, HeadTail DEF TurnOf
<1>2. CASE d # c
  BY <1>2 DEF Others
<1> QED BY <1>1, <1>2

\* A turn leaves on the connections what belongs there.
LEMMA QueuedTurn ==
  ASSUME Served, Queued, NEW c \in Threads, TurnOf(c), Others(c), UNCHANGED me,
         pc[c] \notin {"none", "gone"}
  PROVE  Queued'
<1> SUFFICES ASSUME NEW s \in Sessions
             PROVE  /\ inbound'[Main(s)] \in Seq(MainOrders) /\ inbound'[Inbox(s)] \in Seq(InboxOrders(s))
                    /\ job'[Main(s)].req.cmd \notin {"MAP", "PENDING"}
                    /\ job'[Inbox(s)].req.cmd \in {"NONE", "PENDING"}
                    /\ job'[Inbox(s)].req.cmd = "PENDING" => job'[Inbox(s)].req.id = me[s]
                    /\ pc'[Inbox(s)] = "none" => inbound'[Inbox(s)] = << >>
                    /\ pc'[Main(s)] = "none" => inbound'[Main(s)] = << >> /\ mail'[s] = << >>
  <2>1. \A s \in Sessions : InboxOrders(s)' = InboxOrders(s)
    BY DEF InboxOrders
  <2>2. DOMAIN inbound' = Threads /\ mail' \in [Sessions -> Seq(Letter)]
    BY DEF Others
  <2> QED BY <2>1, <2>2 DEF Queued, MainOrders
<1>1. Main(s) \in Threads /\ Inbox(s) \in Threads /\ Main(s) # Inbox(s)
  BY Ends
<1>2. inbound'[Main(s)] \in Seq(MainOrders) /\ inbound'[Inbox(s)] \in Seq(InboxOrders(s))
  BY <1>1, TurnQueue DEF Queued
<1>3. NoRequest.cmd = "NONE"
  BY DEF NoRequest
<1>4. job'[Main(s)].req.cmd \notin {"MAP", "PENDING"}
  <2>1. CASE c = Main(s)
    BY <1>3, <2>1, HandOf DEF TurnOf
  <2>2. CASE c # Main(s)
    BY <1>1, <2>2 DEF Others, Queued
  <2> QED BY <2>1, <2>2
<1>5. /\ job'[Inbox(s)].req.cmd \in {"NONE", "PENDING"}
      /\ job'[Inbox(s)].req.cmd = "PENDING" => job'[Inbox(s)].req.id = me[s]
  <2>1. CASE c = Inbox(s)
    <3>1. CASE job'[c].req = NoRequest
      BY <1>3, <2>1, <3>1
    <3>2. CASE job'[c].req # NoRequest
      <4>1. /\ ~ Idle(c) /\ Hand(c) \in Requested /\ Hand(c).cmd \in {"MAP", "PENDING"} /\ Hand(c).id = me[s]
        BY <2>1, <3>2, HandOf DEF TurnOf
      <4>2. job'[c].req = IF Hand(c).cmd = "MAP" THEN [Hand(c) EXCEPT !.cmd = "PENDING"] ELSE Hand(c)
        BY <3>2 DEF TurnOf
      <4> QED BY <2>1, <4>1, <4>2, MapBecomesPending
    <3> QED BY <3>1, <3>2
  <2>2. CASE c # Inbox(s)
    BY <1>1, <2>2 DEF Others, Queued
  <2> QED BY <2>1, <2>2
<1>6. pc'[Inbox(s)] = "none" => inbound'[Inbox(s)] = << >>
  BY <1>1 DEF TurnOf, Others, Queued
<1>7. pc'[Main(s)] = "none" => inbound'[Main(s)] = << >> /\ mail'[s] = << >>
  <2> SUFFICES ASSUME pc'[Main(s)] = "none" PROVE inbound'[Main(s)] = << >> /\ mail'[s] = << >>
    OBVIOUS
  <2>1. c # Main(s) /\ pc[Main(s)] = "none" /\ inbound'[Main(s)] = inbound[Main(s)]
    BY <1>1 DEF TurnOf, Others
  <2>2. inbound[Main(s)] = << >> /\ mail[s] = << >>
    BY <2>1 DEF Queued
  <2>3. CASE c = Inbox(s)
    <3>1. Hand(c).cmd \notin Answered \/ Idle(c)
      BY <2>3, HandOf DEF Answered
    <3>2. mail'[s] = mail[s]
      BY <2>3, <3>1, EndIsOf DEF TurnOf
    <3> QED BY <2>1, <2>2, <3>2
  <2>4. CASE c # Inbox(s)
    BY <2>1, <2>2, <2>4, EndIsOf DEF Others
  <2> QED BY <2>3, <2>4
<1> QED BY <1>2, <1>4, <1>5, <1>6, <1>7

\* A turn makes nobody an account that he has not been told of.
LEMMA GuestsTurn ==
  ASSUME Served, Queued, Guests, NEW c \in Threads, TurnOf(c), Others(c),
         UNCHANGED << me, user, asked, inbox >>, pc[c] \notin {"none", "gone"}
  PROVE  Guests'
<1> SUFFICES ASSUME NEW s \in Sessions
             PROVE  /\ user[s] = "off" <=> pc'[Main(s)] = "none"
                    /\ Newcomer(s) => Guest(s)'
                    /\ ~ Newcomer(s) /\ user[s] # "over" => me[s] \in Ids
                    /\ user[s] # "wait" => asked[s] = NoRequest
  BY DEF Guests, Newcomer, Asking
<1>1. Main(s) \in Threads /\ Inbox(s) \in Threads /\ Main(s) # Inbox(s)
  BY Ends
<1>2. user[s] = "off" <=> pc'[Main(s)] = "none"
  BY <1>1 DEF Guests, Others, TurnOf
<1>3. ASSUME Newcomer(s) PROVE Guest(s)'
  <2>1. Guest(s)
    BY <1>3 DEF Guests
  <2>2. c # Inbox(s) /\ pc'[Inbox(s)] = "none"
    BY <1>1, <2>1 DEF Guest, Others
  <2>3. Possible(s)' = Possible(s) /\ GuestOrders(s)' = GuestOrders(s) /\ GuestLetters(s)' = GuestLetters(s)
    BY DEF Possible, GuestOrders, GuestLetters
  <2>4. inbound'[Main(s)] \in Seq(GuestOrders(s))
    BY <1>1, <2>1, TurnQueue DEF Guest
  <2>5. ASSUME c = Main(s), ~ Idle(c) PROVE Hand(c).cmd \in Possible(s) /\ Hand(c).cmd # "MAP"
    <3>1. /\ Hand(c).cmd \notin {"NONE", "MAP", "PENDING"}
          /\ Hand(c) \in GuestOrders(s) \/ Hand(c) = job[Main(s)].req
      BY <2>1, <2>5, HandOf DEF Guest
    <3> QED BY <2>1, <3>1 DEF Guest, GuestOrders
  <2>6. job'[Main(s)].req.cmd \in Possible(s) \cup {"NONE"}
    <3>1. CASE c = Main(s)
      <4>1. CASE job'[c].req = NoRequest
        BY <3>1, <4>1 DEF NoRequest
      <4>2. CASE job'[c].req # NoRequest
        <5>1. ~ Idle(c)
          BY <4>2 DEF TurnOf
        <5>2. job'[c].req = Hand(c)
          BY <2>5, <3>1, <4>2, <5>1 DEF TurnOf
        <5> QED BY <2>5, <3>1, <5>1, <5>2
      <4> QED BY <4>1, <4>2
    <3>2. CASE c # Main(s)
      BY <1>1, <2>1, <3>2 DEF Others, Guest
    <3> QED BY <3>1, <3>2
  <2>7. mail'[s] \in Seq(GuestLetters(s))
    <3>1. CASE c = Main(s)
      <4>1. CASE mail'[s] = mail[s]
        BY <2>1, <4>1 DEF Guest
      <4>2. CASE mail'[s] # mail[s]
        <5>1. ~ Idle(c) /\ c[1] = s
          BY <3>1, <4>2, EndIsOf DEF TurnOf
        <5>2. PICK all \in Seq({m \in Letter : m.cmd = Hand(c).cmd}) : mail'[s] = mail[s] \o all
          BY <4>2, <5>1 DEF TurnOf
        <5>3. {m \in Letter : m.cmd = Hand(c).cmd} \subseteq GuestLetters(s)
          BY <2>5, <3>1, <5>1 DEF GuestLetters
        <5>4. mail[s] \in Seq(GuestLetters(s))
          BY <2>1 DEF Guest
        <5> QED BY <5>2, <5>3, <5>4, LettersAppended
      <4> QED BY <4>1, <4>2
    <3>2. CASE c # Main(s)
      <4>1. mail'[s] = mail[s]
        BY <2>2, <3>2, EndIsOf DEF Others
      <4> QED BY <2>1, <4>1 DEF Guest
    <3> QED BY <3>1, <3>2
  <2> QED BY <2>1, <2>2, <2>3, <2>4, <2>6, <2>7 DEF Guest
<1> QED BY <1>2, <1>3 DEF Guests

-----------------------------------------------------------------------------
(* A turn, by what it does to the conversation. *)

Consumed(c) == IF pc[c] = "reading" THEN inbound[c] # << >> /\ inbound'[c] = Tail(inbound[c])
                                    ELSE inbound'[c] = inbound[c]

GoesOn(c) ==
  /\ pc'[c] \in {"groups", "sending", "peek", "save", "saving"} /\ Consumed(c)
  /\ job'[c].req = IF Hand(c).cmd = "MAP" THEN [Hand(c) EXCEPT !.cmd = "PENDING"] ELSE Hand(c)
  /\ mail'[c[1]] = mail[c[1]]

IsDone(c) ==
  /\ pc'[c] = "reading" /\ Consumed(c) /\ job'[c].req = NoRequest
  /\ IF Hand(c).cmd \in Answered /\ user[c[1]] # "over"
     THEN \E all \in Seq({m \in Letter : m.cmd = Hand(c).cmd}) :
            all # << >> /\ (Twice(c) \/ Len(all) = 1) /\ mail'[c[1]] = mail[c[1]] \o all
     ELSE mail'[c[1]] = mail[c[1]]

IsEnded(c) ==
  /\ pc'[c] = "gone" /\ job'[c].req = NoRequest /\ inbound'[c] = inbound[c] /\ mail'[c[1]] = mail[c[1]]
  /\ \/ mutex' = c
     \/ pc[c] = "peek"
     \/ pc[c] = "reading" /\ inbound[c] = << >> /\ PeerGone(c)
     \/ pc[c] = "saving" /\ job[c].req.cmd = "EXIT"

\* A turn with what it does to requests and answers on the way.
LEMMA TurnGoes ==
  ASSUME Served, Queued, NEW c \in Threads, Turn(c), pc[c] \notin {"none", "gone"}
  PROVE  GoesOn(c) \/ IsDone(c) \/ IsEnded(c)
<1>0. DOMAIN inbound = Threads /\ mail \in [Sessions -> Seq(Letter)]
  BY DEF Queued
<1>1. CASE Continues(c)
  <2>1. PICK step, j :
          /\ step \in {"groups", "sending", "peek", "save", "saving"}
          /\ Moved(c, step, j) /\ JobTyped(j) /\ Placed(step, j)
          /\ Reads(c) /\ UNCHANGED mail
          /\ IF Hand(c).cmd = "MAP" THEN j.req = [Hand(c) EXCEPT !.cmd = "PENDING"] ELSE j.req = Hand(c)
    BY <1>1 DEF Continues
  <2>2. pc'[c] = step /\ job'[c] = j
    BY <2>1, MovedIs DEF Steps
  <2>3. Consumed(c)
    BY <1>0, <2>1, ReadsIs DEF Consumed
  <2>4. job'[c].req = IF Hand(c).cmd = "MAP" THEN [Hand(c) EXCEPT !.cmd = "PENDING"] ELSE Hand(c)
    BY <2>1, <2>2
  <2> QED BY <2>1, <2>2, <2>3, <2>4, Zenon DEF GoesOn
<1>2. CASE Completes(c)
  <2>1. Moved(c, "reading", NoJob) /\ Reads(c)
    BY <1>2 DEF Completes
  <2>2. pc'[c] = "reading" /\ job'[c].req = NoRequest
    BY <2>1, MovedIs, NoJobTyped, NoJobPlaced DEF Steps
  <2>3. Consumed(c)
    BY <1>0, <2>1, ReadsIs DEF Consumed
  <2>4. CASE Hand(c).cmd \in Answered
    <3>1. PICK replies \in Seq(Gives(Hand(c).cmd)) :
            replies # << >> /\ (Twice(c) \/ Len(replies) = 1) /\ Mails(c, Hand(c).cmd, replies)
      BY <1>2, <2>4 DEF Completes, Answered
    <3>2. CASE user[c[1]] = "over"
      <4>1. mail'[c[1]] = mail[c[1]]
        BY <1>0, <2>4, <3>1, <3>2, MailsIs
      <4> QED BY <2>2, <2>3, <3>2, <4>1 DEF IsDone
    <3>3. CASE user[c[1]] # "over"
      <4>1. PICK all \in Seq({m \in Letter : m.cmd = Hand(c).cmd}) :
              Len(all) = Len(replies) /\ mail'[c[1]] = mail[c[1]] \o all
        BY <1>0, <2>4, <3>1, <3>3, MailsIs
      <4>2. all # << >>
        <5>1. Len(replies) # 0
          BY <3>1
        <5> QED BY <4>1, <5>1
      <4> QED BY <2>2, <2>3, <2>4, <3>1, <3>3, <4>1, <4>2 DEF IsDone
    <3> QED BY <3>2, <3>3
  <2>5. CASE Hand(c).cmd \notin Answered
    <3>1. mail'[c[1]] = mail[c[1]]
      BY <1>2, <2>5 DEF Completes
    <3> QED BY <2>2, <2>3, <2>5, <3>1 DEF IsDone
  <2> QED BY <2>4, <2>5
<1>3. CASE Dies(c)
  <2>1. Moved(c, "gone", NoJob) /\ UNCHANGED << inbound, mail >>
    BY <1>3 DEF Dies
  <2>2. pc'[c] = "gone" /\ job'[c].req = NoRequest
    BY <2>1, MovedIs, NoJobTyped, NoJobPlaced DEF Steps
  <2> QED BY <1>3, <2>1, <2>2 DEF Dies, IsEnded
<1> QED BY <1>1, <1>2, <1>3 DEF Turn

\* What an answer is on its way stays so when its thread takes a turn.
LEMMA MainAnswers ==
  ASSUME Served, Queued, NEW s \in Sessions, NEW c, c = Main(s), UNCHANGED asked,
         GoesOn(c) \/ IsDone(c) \/ IsEnded(c), pc[c] \notin {"none", "gone"},
         Answering(s), user[s] # "over", ~ Twice(c)
  PROVE  Answering(s)'
<1>0. c \in Threads /\ c[1] = s /\ inbound[c] \in Seq(MainOrders) /\ mail[s] \in Seq(Letter)
  BY Ends, EndIsOf DEF Queued
<1>1. /\ \A k \in 1 .. Len(inbound[c]) :
           inbound[c][k].cmd \in Answered => k = Len(inbound[c]) /\ inbound[c][k] = asked[s]
      /\ job[c].req.cmd \in Answered => job[c].req = asked[s] /\ Silent(inbound[c])
      /\ mail[s] # << >> => /\ Len(mail[s]) = 1 /\ mail[s][1].cmd = asked[s].cmd
                            /\ Silent(inbound[c]) /\ job[c].req.cmd \notin Answered
  BY DEF Answering
<1>2. /\ \A k \in 1 .. Len(inbound'[c]) :
           inbound'[c][k].cmd \in Answered => k = Len(inbound'[c]) /\ inbound'[c][k] = asked[s]
      /\ Silent(inbound[c]) => Silent(inbound'[c])
  <2>1. CASE inbound'[c] = inbound[c]
    BY <1>1, <2>1, Zenon
  <2>2. CASE inbound'[c] # inbound[c]
    <3>1. inbound[c] # << >> /\ inbound'[c] = Tail(inbound[c])
      BY <2>2 DEF GoesOn, IsDone, IsEnded, Consumed
    <3>2. PICK q : q = inbound[c]
      OBVIOUS
    <3>3. PICK t : t = inbound'[c]
      OBVIOUS
    <3>4. /\ Len(q) \in Nat \ {0} /\ Len(t) = Len(q) - 1
          /\ \A k \in 1 .. Len(q) - 1 : t[k] = q[k + 1]
      BY <1>0, <3>1, <3>2, <3>3, HeadTail
    <3>5. \A k \in 1 .. Len(t) : k + 1 \in 1 .. Len(q) /\ t[k] = q[k + 1] /\ (k + 1 = Len(q) => k = Len(t))
      BY <3>4
    <3>6. /\ \A k \in 1 .. Len(t) : t[k].cmd \in Answered => k = Len(t) /\ t[k] = asked[s]
          /\ Silent(q) => Silent(t)
      BY <1>1, <3>2, <3>5 DEF Silent
    <3> QED BY <3>2, <3>3, <3>6
  <2> QED BY <2>1, <2>2
<1>3. NoRequest.cmd \notin Answered
  BY DEF NoRequest, Answered
\* The request in hand, if it is to be answered, is the last, and no letter is there.
<1>4. ASSUME ~ IsEnded(c), Hand(c).cmd \in Answered
      PROVE  Hand(c) = asked[s] /\ mail[s] = << >> /\ Silent(inbound'[c])
  <2>1. CASE pc[c] = "reading"
    <3>1. inbound[c] # << >> /\ inbound'[c] = Tail(inbound[c]) /\ Hand(c) = Head(inbound[c])
      BY <1>4, <2>1 DEF GoesOn, IsDone, Consumed, Hand
    <3>2. /\ Hand(c) = inbound[c][1] /\ Len(inbound[c]) \in Nat \ {0}
          /\ Len(inbound'[c]) = Len(inbound[c]) - 1
      BY <1>0, <3>1, HeadTail
    <3>3. 1 \in 1 .. Len(inbound[c])
      BY <3>2
    <3>4. Len(inbound[c]) = 1 /\ Hand(c) = asked[s]
      BY <1>1, <1>4, <3>2, <3>3
    <3>5. Silent(inbound'[c])
      BY <3>2, <3>4 DEF Silent
    <3>6. ~ Silent(inbound[c])
      BY <1>4, <3>2, <3>3 DEF Silent
    <3> QED BY <1>1, <3>4, <3>5, <3>6
  <2>2. CASE pc[c] # "reading"
    <3>1. Hand(c) = job[c].req
      BY <2>2 DEF Hand
    <3> QED BY <1>1, <1>2, <1>4, <3>1
  <2> QED BY <2>1, <2>2
<1>5. CASE GoesOn(c)
  <2>0. CASE IsEnded(c)
    BY <1>5, <2>0 DEF GoesOn, IsEnded
  <2>1. CASE ~ IsEnded(c)
    <3>1. Hand(c).cmd # "MAP"
      <4>1. ~ Idle(c)
        BY <1>5 DEF Idle, GoesOn, Consumed
      <4> QED BY <1>0, <4>1, HandOf
    <3>2. job'[c].req = Hand(c) /\ mail'[s] = mail[s]
      BY <1>0, <1>5, <3>1 DEF GoesOn
    <3>3. job'[c].req.cmd \in Answered => job'[c].req = asked[s] /\ Silent(inbound'[c])
      BY <1>4, <2>1, <3>2
    <3>4. mail[s] # << >> => job'[c].req.cmd \notin Answered
      BY <1>4, <2>1, <3>2
    <3> QED BY <1>1, <1>2, <3>2, <3>3, <3>4 DEF Answering
  <2> QED BY <2>0, <2>1
<1>6. CASE IsDone(c)
  <2>1. job'[c].req.cmd \notin Answered /\ ~ IsEnded(c)
    BY <1>3, <1>6 DEF IsDone, IsEnded
  <2>2. CASE Hand(c).cmd \in Answered
    <3>1. PICK all \in Seq({m \in Letter : m.cmd = Hand(c).cmd}) :
            Len(all) = 1 /\ mail'[s] = mail[s] \o all
      BY <1>0, <1>6, <2>2 DEF IsDone
    <3>2. Hand(c) = asked[s] /\ mail[s] = << >> /\ Silent(inbound'[c])
      BY <1>4, <2>1, <2>2
    <3>3. mail'[s] = all
      BY <3>1, <3>2, ConcatEmptySeq
    <3>4. Len(mail'[s]) = 1 /\ mail'[s][1].cmd = asked[s].cmd
      <4>1. 1 \in 1 .. Len(all)
        BY <3>1
      <4>2. all[1] \in {m \in Letter : m.cmd = Hand(c).cmd}
        BY <4>1, ElementOfSeq
      <4> QED BY <3>1, <3>2, <3>3, <4>2
    <3> QED BY <1>2, <2>1, <3>2, <3>4 DEF Answering
  <2>3. CASE Hand(c).cmd \notin Answered
    <3>1. mail'[s] = mail[s]
      BY <1>0, <1>6, <2>3 DEF IsDone
    <3> QED BY <1>1, <1>2, <2>1, <3>1 DEF Answering
  <2> QED BY <2>2, <2>3
<1>7. CASE IsEnded(c)
  <2>1. job'[c].req.cmd \notin Answered /\ mail'[s] = mail[s]
    BY <1>0, <1>3, <1>7 DEF IsEnded
  <2> QED BY <1>1, <1>2, <2>1 DEF Answering
<1> QED BY <1>5, <1>6, <1>7

\* A turn leaves the answer a client waits for on its way once at most.
LEMMA AnsweringsTurn ==
  ASSUME Served, Queued, Guests, Answerings, NEW c \in Threads, Turn(c), TurnOf(c), Others(c),
         UNCHANGED << me, user, asked, inbox >>, pc[c] \notin {"none", "gone"}, reused => reused'
  PROVE  Answerings'
<1> SUFFICES ASSUME NEW s \in Sessions
             PROVE  /\ user[s] = "over" => mail'[s] = << >>
                    /\ user[s] = "over" \/ (reused' /\ ~ Newcomer(s)) \/ Answering(s)'
  <2>1. \A t \in Sessions : Newcomer(t)' = Newcomer(t)
    BY DEF Newcomer, Asking
  <2> QED BY <2>1 DEF Answerings
<1>0. Main(s) \in Threads /\ Inbox(s) \in Threads /\ Main(s) # Inbox(s)
  BY Ends
<1>1. CASE c = Main(s)
  <2>0. c[1] = s
    BY <1>1, EndIsOf
  <2>1. GoesOn(c) \/ IsDone(c) \/ IsEnded(c)
    BY TurnGoes
  <2>2. user[s] = "over" => mail'[s] = << >>
    BY <2>0, <2>1 DEF Answerings, GoesOn, IsDone, IsEnded
  <2>3. ASSUME user[s] # "over", ~ (reused' /\ ~ Newcomer(s)) PROVE Answering(s)'
    <3>1. Answering(s)
      BY <2>3 DEF Answerings
    <3>2. CASE IsEnded(c)
      <4>1. /\ inbound'[c] = inbound[c] /\ mail'[s] = mail[s] /\ job'[c].req.cmd \notin Answered
        BY <2>0, <3>2 DEF IsEnded, NoRequest, Answered
      <4> QED BY <1>1, <3>1, <4>1 DEF Answering
    <3>3. CASE ~ IsEnded(c)
      <4>1. ~ Idle(c)
        BY <2>1, <3>3 DEF Idle, GoesOn, IsDone, Consumed
      <4>2. Newcomer(s) => Hand(c).cmd # "ADD"
        <5>1. Newcomer(s) => Hand(c) \in GuestOrders(s) \/ Hand(c) = job[Main(s)].req
          BY <1>1, <4>1, HandOf DEF Guests, Guest
        <5> QED BY <5>1 DEF Guests, Guest, GuestOrders, Possible
      <4>3. ~ Twice(c)
        BY <2>3, <4>2 DEF Twice
      <4> QED BY <1>1, <2>1, <2>3, <3>1, <4>3, MainAnswers
    <3> QED BY <3>2, <3>3
  <2> QED BY <2>2, <2>3
<1>2. CASE c # Main(s)
  <2>1. inbound'[Main(s)] = inbound[Main(s)] /\ job'[Main(s)] = job[Main(s)]
    BY <1>0, <1>2 DEF Others
  <2>2. mail'[s] = mail[s]
    <3>1. CASE c = Inbox(s)
      <4>1. Idle(c) \/ Hand(c).cmd \notin Answered
        BY <3>1, HandOf DEF Answered
      <4> QED BY <3>1, <4>1, EndIsOf DEF TurnOf
    <3>2. CASE c # Inbox(s)
      BY <1>2, <3>2, EndIsOf DEF Others
    <3> QED BY <3>1, <3>2
  <2> QED BY <2>1, <2>2 DEF Answerings, Answering
<1> QED BY <1>1, <1>2
\* The files keep their types: what is written has been made to.
LEMMA DisksServe ==
  ASSUME Served, Disks, NEW c \in Threads, Serve(c)
  PROVE  Disks'
<1>1. Jobs
  BY DEF Served, Jobs, JobTyped
<1>2. CASE UNCHANGED << disk, torn >>
  BY <1>2 DEF Disks
<1>3. ASSUME pc[c] \in {"save", "saving"}
      PROVE  job[c].draft.file \in Files /\ Document(job[c].draft.file, job[c].draft.doc)
  <2>1. job[c].draft.file \in Files /\ (job[c].draft = NoDraft \/ Document(job[c].draft.file, job[c].draft.doc))
    BY <1>3 DEF Served, Placed, JobTyped
  <2>2. NoDraft.file \notin Files
    BY DEF NoDraft, Files
  <2> QED BY <2>1, <2>2
<1>4. CASE BeginSave(c)
  <2>1. PICK g : g = job[c].draft.file
    OBVIOUS
  <2>2. torn' = torn \cup {g} /\ disk' = [disk EXCEPT ![g] = << >>] /\ g \in Files
    BY <1>3, <1>4, <2>1 DEF BeginSave
  <2>3. DOMAIN disk' = Files /\ \A f \in Files : disk'[f] = disk[f] \/ disk'[f] = << >>
    BY <2>2 DEF Disks
  <2> QED BY <2>2, <2>3, EmptyDocuments DEF Disks
<1>5. CASE Saved(c)
  <2>1. PICK g : g = job[c].draft.file
    OBVIOUS
  <2>2. PICK doc : doc = job[c].draft.doc
    OBVIOUS
  <2>3. torn' = torn \ {g} /\ disk' = [disk EXCEPT ![g] = doc] /\ g \in Files /\ Document(g, doc)
    BY <1>3, <1>5, <2>1, <2>2 DEF Saved
  <2>4. DOMAIN disk' = Files /\ disk'[g] = doc /\ \A f \in Files \ {g} : disk'[f] = disk[f]
    BY <2>3 DEF Disks
  <2>5. \A f \in Files : Document(f, disk'[f])
    BY <2>3, <2>4 DEF Disks
  <2> QED BY <2>3, <2>4, <2>5 DEF Disks
<1>6. Moves(c) \/ Drafts(c) => UNCHANGED << disk, torn >>
  BY DEF Moves, Drafts
<1> QED BY <1>1, <1>2, <1>4, <1>5, <1>6, ServeKinds

\* An id that was given away stays given away.
LEMMA ReusedStays ==
  ASSUME Served, NEW c \in Threads, Serve(c)
  PROVE  reused => reused'
<1>1. Jobs
  BY DEF Served, Jobs, JobTyped
<1> QED BY <1>1, ServeKinds DEF Moves, Drafts, BeginSave, Saved, historyVars

\* A step of the server keeps Talk.
LEMMA TalkServe ==
  ASSUME Talk, FitFiles, NEW c \in Threads, Serve(c)
  PROVE  Talk'
<1>1. /\ pc[c] \notin {"none", "gone"}
      /\ UNCHANGED << user, me, asked, chat, inbox >>
  BY ServeLeaves
<1>2. Turn(c)
  BY ServeTurns DEF Talk
<1>3. Served' /\ TurnOf(c) /\ Others(c)
  BY <1>1, <1>2, TurnIs DEF Talk
<1>4. Disks'
  BY DisksServe DEF Talk
<1>5. Queued'
  BY <1>1, <1>3, QueuedTurn DEF Talk
<1>6. Guests'
  BY <1>1, <1>3, GuestsTurn DEF Talk
<1>7. Clients'
  BY <1>1 DEF Talk, Clients
<1>8. Answerings'
  BY <1>1, <1>2, <1>3, AnsweringsTurn, ReusedStays DEF Talk
<1> QED BY <1>3, <1>4, <1>5, <1>6, <1>7, <1>8 DEF Talk

-----------------------------------------------------------------------------
(* The steps of a client, by what they change of its two ends. *)

\* Nothing changes of another client.
Elsewhere(s) ==
  \A t \in Sessions \ {s} :
    /\ user'[t] = user[t] /\ me'[t] = me[t] /\ asked'[t] = asked[t]
    /\ inbox'[t] = inbox[t] /\ mail'[t] = mail[t]
    /\ \A c \in {Main(t), Inbox(t)} : pc'[c] = pc[c] /\ job'[c] = job[c] /\ inbound'[c] = inbound[c]

SameThread(c) == pc'[c] = pc[c] /\ job'[c] = job[c]
SameInbox(s)  == SameThread(Inbox(s)) /\ inbound'[Inbox(s)] = inbound[Inbox(s)] /\ inbox'[s] = inbox[s] /\ me'[s] = me[s]
Writes(s, req) == inbound'[Main(s)] = Append(inbound[Main(s)], req)

\* It asks, and waits.
Enquires(s) ==
  /\ user'[s] = "wait" /\ asked'[s] \in Requested /\ Writes(s, asked'[s])
  /\ mail'[s] = mail[s] /\ SameInbox(s)
  /\ \/ /\ user[s] = "off" /\ pc'[Main(s)] = "reading" /\ job'[Main(s)] = NoJob
        /\ asked'[s].cmd \in {"AUTHENTICATE", "AUTHENTICATE_WORDS", "REGISTER"}
     \/ /\ user[s] = "denied" /\ SameThread(Main(s))
        /\ asked'[s].cmd \in {"AUTHENTICATE", "AUTHENTICATE_WORDS"}
     \/ /\ user[s] = "menu" /\ SameThread(Main(s))
        /\ asked'[s].cmd \in {"LOOK", "LISTGROUPS", "ADD", "CHAT", "GROUP"}

\* It waits for an answer that it has not asked for.
Stalls(s) ==
  /\ user[s] = "menu" /\ user'[s] = "wait" /\ asked'[s] = NoRequest
  /\ mail'[s] = mail[s] /\ SameInbox(s) /\ SameThread(Main(s)) /\ inbound'[Main(s)] = inbound[Main(s)]

\* It takes an answer.
IsTold(s) ==
  /\ user[s] = "wait" /\ mail[s] # << >> /\ mail'[s] = Tail(mail[s]) /\ asked'[s] = NoRequest
  /\ SameThread(Main(s)) /\ inbound'[Main(s)] = inbound[Main(s)]
  /\ \/ user'[s] = "denied" /\ asked[s].cmd = "AUTHENTICATE" /\ SameInbox(s)
     \/ user'[s] \in {"menu", "chat"} /\ ~ Newcomer(s) /\ SameInbox(s)
     \/ /\ user'[s] = "menu" /\ asked[s].cmd \in {"AUTHENTICATE", "REGISTER"}
        /\ asked[s].cmd = "AUTHENTICATE" => Head(mail[s]).value # Nobody
        /\ me'[s] = Head(mail[s]).value /\ inbox'[s] = "up"
        /\ pc'[Inbox(s)] = "reading" /\ job'[Inbox(s)] = NoJob
        /\ inbound'[Inbox(s)] = << [cmd |-> "MAP", id |-> me'[s], arg |-> NoName] >>

\* It chats, and ends a chat.
Chats(s) ==
  /\ user[s] = "chat" /\ user'[s] \in {"chat", "menu"} /\ asked'[s] = asked[s]
  /\ mail'[s] = mail[s] /\ SameInbox(s) /\ SameThread(Main(s))
  /\ \/ inbound'[Main(s)] = inbound[Main(s)]
     \/ \E req \in Requested : req.cmd = "SEND" /\ Writes(s, req)

\* It is over.
Parts(s) ==
  /\ user[s] \notin {"off", "over"} /\ user'[s] = "over" /\ asked'[s] = NoRequest
  /\ mail'[s] = << >> /\ inbox'[s] = "down" /\ me'[s] = me[s]
  /\ SameThread(Main(s)) /\ SameThread(Inbox(s)) /\ inbound'[Inbox(s)] = inbound[Inbox(s)]
  /\ \/ inbound'[Main(s)] = inbound[Main(s)]
     \/ \E req \in Requested : user[s] = "menu" /\ req.cmd = "EXIT" /\ Writes(s, req)

Spoken(s) == Enquires(s) \/ Stalls(s) \/ IsTold(s) \/ Chats(s) \/ Parts(s)

\* The domains stay.
Shapes ==
  /\ DOMAIN inbound = Threads /\ DOMAIN pc = Threads /\ DOMAIN job = Threads
  /\ DOMAIN user = Sessions /\ DOMAIN me = Sessions /\ DOMAIN asked = Sessions
  /\ DOMAIN inbox = Sessions /\ DOMAIN mail = Sessions /\ DOMAIN chat = Sessions

\* The domains follow from the types.
LEMMA ShapesOfTalk == Talk => Shapes
BY DEF Talk, Served, Queued, Clients, Shapes

\* Two clients share no connection.
LEMMA TwoEnds ==
  ASSUME NEW s \in Sessions, NEW t \in Sessions, t # s
  PROVE  Main(t) \notin {Main(s), Inbox(s)} /\ Inbox(t) \notin {Main(s), Inbox(s)}
BY DEF Main, Inbox

\* A client touches its own connections and its own variables only.
LEMMA ClientElsewhere ==
  ASSUME Shapes, NEW s \in Sessions, Client(s)
  PROVE  Elsewhere(s)
<1> SUFFICES ASSUME NEW t \in Sessions \ {s}
             PROVE  /\ user'[t] = user[t] /\ me'[t] = me[t] /\ asked'[t] = asked[t]
                    /\ inbox'[t] = inbox[t] /\ mail'[t] = mail[t]
                    /\ \A c \in {Main(t), Inbox(t)} : pc'[c] = pc[c] /\ job'[c] = job[c] /\ inbound'[c] = inbound[c]
  BY DEF Elsewhere
<1>0. /\ Main(s) \in Threads /\ Inbox(s) \in Threads /\ Main(t) \in Threads /\ Inbox(t) \in Threads
      /\ Main(t) # Main(s) /\ Main(t) # Inbox(s) /\ Inbox(t) # Main(s) /\ Inbox(t) # Inbox(s)
  BY Ends, TwoEnds
<1>1. /\ user'[t] = user[t] /\ me'[t] = me[t] /\ asked'[t] = asked[t]
      /\ inbox'[t] = inbox[t] /\ mail'[t] = mail[t]
  <2>1. CASE LogIn(s) \/ SignUp(s)
    BY <2>1 DEF LogIn, SignUp, Connects, Asks, Shapes
  <2>2. CASE Command(s) \/ Misuse(s) \/ Say(s) \/ LeaveChat(s)
    BY <2>2 DEF Command, Misuse, Say, LeaveChat, Asks, Shapes
  <2>3. CASE ReadAnswer(s)
    BY <2>3 DEF ReadAnswer, LoggedIn, Stays, Shapes
  <2>4. CASE Quit(s) \/ Killed(s)
    BY <2>4 DEF Quit, Killed, Leaves, Shapes
  <2> QED BY <2>1, <2>2, <2>3, <2>4 DEF Client
<1>2. ASSUME NEW c \in {Main(t), Inbox(t)}
      PROVE  pc'[c] = pc[c] /\ job'[c] = job[c] /\ inbound'[c] = inbound[c]
  <2>0. c \in Threads /\ c # Main(s) /\ c # Inbox(s)
    BY <1>0, <1>2
  <2>1. CASE LogIn(s) \/ SignUp(s)
    BY <2>0, <2>1 DEF LogIn, SignUp, Connects, Asks, Goto, Shapes, serverVars
  <2>2. CASE Command(s) \/ Misuse(s) \/ Say(s) \/ LeaveChat(s)
    BY <2>0, <2>2 DEF Command, Misuse, Say, LeaveChat, Asks, Shapes, serverVars
  <2>3. CASE ReadAnswer(s)
    BY <2>0, <2>3 DEF ReadAnswer, LoggedIn, Stays, Goto, Shapes
  <2>4. CASE Quit(s) \/ Killed(s)
    BY <2>0, <2>4 DEF Quit, Killed, Leaves, Shapes, serverVars
  <2> QED BY <2>1, <2>2, <2>3, <2>4 DEF Client
<1> QED BY <1>1, <1>2

\* What a client sends are requests.
LEMMA CredentialsAre ==
  ASSUME NEW s \in Sessions, me[s] = Nobody, NEW req,
         req \in Credentials(s, "AUTHENTICATE", Names) \cup {Request(s, "AUTHENTICATE_WORDS", NoName)}
         \/ req \in Credentials(s, "REGISTER", NewNames)
  PROVE  /\ req \in Requested
         /\ req \in Credentials(s, "REGISTER", NewNames) => req.cmd = "REGISTER"
         /\ req \notin Credentials(s, "REGISTER", NewNames) => req.cmd \in {"AUTHENTICATE", "AUTHENTICATE_WORDS"}
BY ChatappServerAssumption DEF Credentials, Request, Requested

\* What a user types at the menu is a request.
LEMMA CommandsAre ==
  ASSUME NEW s \in Sessions, me[s] \in Ids, NEW req \in Commands(s)
  PROVE  req \in Requested /\ req.cmd \in {"LOOK", "LISTGROUPS", "ADD", "CHAT", "GROUP"}
BY DEF Commands, Requested

\* Somebody who logs in or signs up asks one question.
LEMMA LogInSpeaks ==
  ASSUME Talk, NEW s \in Sessions, LogIn(s) \/ SignUp(s)
  PROVE  Enquires(s)
<1>0. Shapes /\ Main(s) \in Threads /\ Inbox(s) \in Threads /\ Main(s) # Inbox(s)
  BY ShapesOfTalk, Ends
<1>1. user[s] \in {"off", "denied"}
  BY DEF LogIn, SignUp, Connects
<1>2. me[s] = Nobody
  BY <1>1 DEF Talk, Guests, Guest, Newcomer
<1>3. PICK req :
        /\ \/ req \in Credentials(s, "AUTHENTICATE", Names) \cup {Request(s, "AUTHENTICATE_WORDS", NoName)}
              /\ (Connects(s, req) \/ (user[s] = "denied" /\ Asks(s, req) /\ UNCHANGED serverVars))
           \/ req \in Credentials(s, "REGISTER", NewNames) /\ Connects(s, req)
  BY DEF LogIn, SignUp
<1>4. /\ req \in Requested /\ req.cmd \in {"AUTHENTICATE", "AUTHENTICATE_WORDS", "REGISTER"}
      /\ ~ Connects(s, req) => req.cmd \in {"AUTHENTICATE", "AUTHENTICATE_WORDS"}
  <2>1. Request(s, "AUTHENTICATE_WORDS", NoName).cmd # "REGISTER"
        /\ \A r \in Credentials(s, "AUTHENTICATE", Names) : r.cmd # "REGISTER"
    BY DEF Request, Credentials
  <2> QED BY <1>2, <1>3, <2>1, CredentialsAre
<1>5. UNCHANGED << mail, me, inbox >>
  BY DEF LogIn, SignUp
<1>6. /\ user'[s] = "wait" /\ asked'[s] = req /\ Writes(s, req) /\ inbound'[Inbox(s)] = inbound[Inbox(s)]
  BY <1>0, <1>3 DEF Connects, Asks, Shapes, Writes
<1>7. CASE Connects(s, req)
  <2>1. /\ user[s] = "off" /\ pc'[Main(s)] = "reading" /\ job'[Main(s)] = NoJob
        /\ pc'[Inbox(s)] = pc[Inbox(s)] /\ job'[Inbox(s)] = job[Inbox(s)]
    BY <1>0, <1>7 DEF Connects, Goto, Shapes
  <2> QED BY <1>4, <1>5, <1>6, <2>1 DEF Enquires, SameInbox, SameThread
<1>8. CASE ~ Connects(s, req)
  <2>1. user[s] = "denied" /\ pc' = pc /\ job' = job
    BY <1>3, <1>8 DEF serverVars
  <2> QED BY <1>4, <1>5, <1>6, <1>8, <2>1 DEF Enquires, SameInbox, SameThread
<1> QED BY <1>7, <1>8

\* A user at the menu asks one question, or waits without one.
LEMMA MenuSpeaks ==
  ASSUME Talk, NEW s \in Sessions, Command(s) \/ Misuse(s)
  PROVE  Enquires(s) \/ Stalls(s)
<1>0. Shapes /\ Main(s) \in Threads /\ Inbox(s) \in Threads /\ Main(s) # Inbox(s)
  BY ShapesOfTalk, Ends
<1>1. user[s] = "menu" /\ UNCHANGED << pc, job, mail, me, inbox >>
  BY DEF Command, Misuse, serverVars
<1>2. me[s] \in Ids
  BY <1>1 DEF Talk, Guests, Newcomer, Asking
<1>3. CASE Command(s)
  <2>1. PICK req \in Commands(s) : Asks(s, req)
    BY <1>3 DEF Command
  <2>2. req \in Requested /\ req.cmd \in {"LOOK", "LISTGROUPS", "ADD", "CHAT", "GROUP"}
    BY <1>2, CommandsAre
  <2>3. /\ user'[s] = "wait" /\ asked'[s] = req /\ Writes(s, req) /\ inbound'[Inbox(s)] = inbound[Inbox(s)]
    BY <1>0, <2>1 DEF Asks, Shapes, Writes
  <2> QED BY <1>1, <2>2, <2>3 DEF Enquires, SameInbox, SameThread
<1>4. CASE Misuse(s)
  BY <1>0, <1>1, <1>4 DEF Misuse, Stalls, SameInbox, SameThread, Shapes
<1> QED BY <1>3, <1>4

\* A login with too many words gets no answer, not even that to an earlier login.
LEMMA NoWords ==
  ASSUME Talk, NEW s \in Sessions, user[s] = "wait", asked[s].cmd = "AUTHENTICATE_WORDS"
  PROVE  mail[s] = << >>
<1> SUFFICES ASSUME mail[s] # << >> PROVE FALSE
  OBVIOUS
<1>1. Answering(s)
  BY DEF Talk, Answerings, Newcomer, Asking
<1>2. mail[s][1].cmd = "AUTHENTICATE_WORDS"
  BY <1>1 DEF Answering
<1>3. mail[s] \in Seq(Letter)
  BY DEF Talk, Queued
<1>4. mail[s][1] \in Letter
  BY <1>3, HeadTail
<1> QED BY <1>2, <1>4 DEF Letter, Answered

\* A client that reads an answer takes one, and opens its second connection if it is an id.
LEMMA ReadAnswerSpeaks ==
  ASSUME Talk, NEW s \in Sessions, ReadAnswer(s)
  PROVE  IsTold(s)
<1>0. Shapes /\ Main(s) \in Threads /\ Inbox(s) \in Threads /\ Main(s) # Inbox(s)
  BY ShapesOfTalk, Ends
<1>1. user[s] = "wait" /\ mail[s] # << >> /\ mail'[s] = Tail(mail[s]) /\ asked'[s] = NoRequest
  BY <1>0 DEF ReadAnswer, Shapes
<1>2. CASE Stays
  <2>1. SameInbox(s) /\ SameThread(Main(s)) /\ inbound'[Main(s)] = inbound[Main(s)]
    BY <1>2 DEF Stays, SameInbox, SameThread
  <2>2. \/ user'[s] = "denied" /\ asked[s].cmd = "AUTHENTICATE"
        \/ user'[s] \in {"menu", "chat"} /\ asked[s].cmd \notin {"AUTHENTICATE", "REGISTER"}
        \/ \E id : LoggedIn(s, id) /\ id = Head(mail[s]).value /\ asked[s].cmd \in {"AUTHENTICATE", "REGISTER"}
                   /\ (asked[s].cmd = "AUTHENTICATE" => id # Nobody)
    BY <1>0 DEF ReadAnswer, Shapes
  <2>3. CASE ~ \E id : LoggedIn(s, id)
    BY <1>1, <2>1, <2>2, <2>3, NoWords DEF IsTold, Newcomer, Asking
  <2>4. CASE \E id : LoggedIn(s, id)
    <3>1. PICK id : LoggedIn(s, id)
      BY <2>4
    <3>2. inbox'[s] = "up" /\ pc'[Inbox(s)] = "reading" /\ pc[Inbox(s)] = "reading" /\ user'[s] = "menu"
      BY <1>0, <1>2, <3>1 DEF LoggedIn, Stays, Goto, Shapes
    <3>3. ~ Newcomer(s)
      BY <3>2 DEF Talk, Guests, Guest
    <3> QED BY <1>1, <2>1, <3>2, <3>3 DEF IsTold
  <2> QED BY <2>3, <2>4
<1>3. CASE ~ Stays
  <2>1. PICK id : /\ LoggedIn(s, id) /\ id = Head(mail[s]).value /\ asked[s].cmd \in {"AUTHENTICATE", "REGISTER"}
                  /\ (asked[s].cmd = "AUTHENTICATE" => id # Nobody)
    BY <1>3 DEF ReadAnswer
  <2>2. /\ user'[s] = "menu" /\ me'[s] = id /\ inbox'[s] = "up"
        /\ pc'[Inbox(s)] = "reading" /\ job'[Inbox(s)] = NoJob
        /\ inbound'[Inbox(s)] = << [cmd |-> "MAP", id |-> id, arg |-> NoName] >>
        /\ SameThread(Main(s)) /\ inbound'[Main(s)] = inbound[Main(s)]
    BY <1>0, <2>1 DEF LoggedIn, Goto, Shapes, SameThread
  <2> QED BY <1>1, <2>1, <2>2 DEF IsTold
<1> QED BY <1>2, <1>3

\* A user in a chat sends a text or goes back to the menu.
LEMMA ChatSpeaks ==
  ASSUME Talk, NEW s \in Sessions, Say(s) \/ LeaveChat(s)
  PROVE  Chats(s)
<1>0. Shapes /\ Main(s) \in Threads /\ Inbox(s) \in Threads /\ Main(s) # Inbox(s)
  BY ShapesOfTalk, Ends
<1>1. user[s] = "chat" /\ UNCHANGED << pc, job, mail, me, inbox, asked >>
  BY DEF Say, LeaveChat, serverVars
<1>2. me[s] \in Ids
  BY <1>1 DEF Talk, Guests, Newcomer, Asking
<1>3. CASE Say(s)
  <2>1. PICK t \in Texts :
          inbound' = [inbound EXCEPT ![Main(s)] = Append(@, Request(s, "SEND", << chat[s], t >>))]
    BY <1>3 DEF Say
  <2>2. chat[s] \in Ids \cup Groups /\ user' = user
    BY <1>3 DEF Say
  <2>3. PICK req : req = Request(s, "SEND", << chat[s], t >>)
    OBVIOUS
  <2>4. req \in Requested /\ req.cmd = "SEND"
    BY <1>2, <2>2, <2>3 DEF Request, Requested
  <2>5. Writes(s, req) /\ inbound'[Inbox(s)] = inbound[Inbox(s)]
    BY <1>0, <2>1, <2>3 DEF Shapes, Writes
  <2> QED BY <1>1, <2>2, <2>4, <2>5 DEF Chats, SameInbox, SameThread
<1>4. CASE LeaveChat(s)
  BY <1>0, <1>1, <1>4 DEF LeaveChat, Chats, SameInbox, SameThread, Shapes
<1> QED BY <1>3, <1>4

\* A client that ends leaves EXIT behind, or nothing.
LEMMA EndSpeaks ==
  ASSUME Talk, NEW s \in Sessions, Quit(s) \/ Killed(s)
  PROVE  Parts(s)
<1>0. Shapes /\ Main(s) \in Threads /\ Inbox(s) \in Threads /\ Main(s) # Inbox(s)
  BY ShapesOfTalk, Ends
<1>1. /\ user[s] \notin {"off", "over"} /\ Leaves(s)
  BY DEF Quit, Killed
<1>2. /\ user'[s] = "over" /\ asked'[s] = NoRequest /\ mail'[s] = << >> /\ inbox'[s] = "down" /\ me'[s] = me[s]
      /\ SameThread(Main(s)) /\ SameThread(Inbox(s))
  BY <1>0, <1>1 DEF Leaves, Shapes, serverVars, SameThread
<1>3. CASE Quit(s)
  <2>1. user[s] = "menu" /\ inbound' = [inbound EXCEPT ![Main(s)] = Append(@, Request(s, "EXIT", NoName))]
    BY <1>3 DEF Quit
  <2>2. me[s] \in Ids
    BY <2>1 DEF Talk, Guests, Newcomer, Asking
  <2>3. PICK req : req = Request(s, "EXIT", NoName)
    OBVIOUS
  <2>4. req \in Requested /\ req.cmd = "EXIT"
    BY <2>2, <2>3 DEF Request, Requested
  <2>5. Writes(s, req) /\ inbound'[Inbox(s)] = inbound[Inbox(s)]
    BY <1>0, <2>1, <2>3 DEF Shapes, Writes
  <2> QED BY <1>1, <1>2, <2>1, <2>4, <2>5 DEF Parts
<1>4. CASE Killed(s)
  BY <1>1, <1>2, <1>4 DEF Killed, Parts
<1> QED BY <1>3, <1>4

\* A step of a client is one of these five, and touches no other client.
LEMMA ClientSpeaks ==
  ASSUME Talk, NEW s \in Sessions, Client(s)
  PROVE  Spoken(s) /\ Elsewhere(s)
<1>1. Elsewhere(s)
  BY ShapesOfTalk, ClientElsewhere
<1>2. Spoken(s)
  BY LogInSpeaks, MenuSpeaks, ReadAnswerSpeaks, ChatSpeaks, EndSpeaks DEF Client, Spoken
<1> QED BY <1>1, <1>2
-----------------------------------------------------------------------------
(* Talk is kept by the clients. *)

\* Each variable of the clients is changed for one of them at most.
LEMMA ClientChanges ==
  ASSUME NEW s \in Sessions, Client(s)
  PROVE  /\ mail' = mail \/ \E v : mail' = [mail EXCEPT ![s] = v]
         /\ user' = user \/ \E v : user' = [user EXCEPT ![s] = v]
         /\ me' = me \/ \E v : me' = [me EXCEPT ![s] = v]
         /\ asked' = asked \/ \E v : asked' = [asked EXCEPT ![s] = v]
         /\ inbox' = inbox \/ \E v : inbox' = [inbox EXCEPT ![s] = v]
         /\ chat' = chat \/ \E v : chat' = [chat EXCEPT ![s] = v]
         /\ inbound' = inbound \/ \E c, v : inbound' = [inbound EXCEPT ![c] = v]
<1>1. CASE LogIn(s) \/ SignUp(s)
  BY <1>1 DEF LogIn, SignUp, Connects, Asks
<1>2. CASE Command(s) \/ Misuse(s) \/ Say(s) \/ LeaveChat(s)
  BY <1>2 DEF Command, Misuse, Say, LeaveChat, Asks
<1>3. CASE ReadAnswer(s)
  BY <1>3 DEF ReadAnswer, LoggedIn, Stays
<1>4. CASE Quit(s) \/ Killed(s)
  BY <1>4 DEF Quit, Killed, Leaves
<1> QED BY <1>1, <1>2, <1>3, <1>4 DEF Client

\* A function changed at one argument.
LEMMA ChangedOnce ==
  ASSUME NEW S, NEW T, NEW f \in [S -> T], NEW s \in S, NEW g, g = f \/ \E v : g = [f EXCEPT ![s] = v],
         g[s] \in T
  PROVE  g \in [S -> T]
OBVIOUS

\* A step of a client keeps the types of threads and files.
LEMMA ServedClient ==
  ASSUME Talk, NEW s \in Sessions, Client(s)
  PROVE  Served' /\ Disks'
<1>0. Served /\ Disks
  BY DEF Talk
<1>1. CASE UNCHANGED << disk, torn, pc, job >>
  BY <1>0, <1>1 DEF Served, Disks
<1>2. CASE Connected(s)
  <2>1. PICK c \in Threads : Goto(c, "reading", NoJob) /\ UNCHANGED << disk, torn >>
    BY <1>2, Ends DEF Connected
  <2>2. Served'
    BY <1>0, <2>1, GotoMoved, MovedIs, NoJobTyped, NoJobPlaced DEF Steps
  <2> QED BY <1>0, <2>1, <2>2 DEF Disks
<1> QED BY <1>1, <1>2, ClientKinds

\* A queue with one request more.
LEMMA Appended ==
  ASSUME NEW S, NEW q \in Seq(S), NEW r \in S
  PROVE  /\ Append(q, r) \in Seq(S) /\ Len(Append(q, r)) = Len(q) + 1 /\ Len(q) \in Nat
         /\ Append(q, r)[Len(q) + 1] = r /\ \A k \in 1 .. Len(q) : Append(q, r)[k] = q[k]
         /\ Append(q, r) # << >>
<1>1. /\ Append(q, r) \in Seq(S) /\ Len(Append(q, r)) = Len(q) + 1 /\ Len(q) \in Nat
      /\ Append(q, r)[Len(q) + 1] = r /\ \A k \in 1 .. Len(q) : Append(q, r)[k] = q[k]
  BY AppendProperties
<1>2. Append(q, r) # << >>
  BY <1>1
<1> QED BY <1>1, <1>2

\* A step of a client keeps the types of what is on the way.
LEMMA MailKept ==
  ASSUME Talk, NEW s \in Sessions, Client(s)
  PROVE  mail' \in [Sessions -> Seq(Letter)] /\ DOMAIN inbound' = Threads
<1>1. mail \in [Sessions -> Seq(Letter)] /\ DOMAIN inbound = Threads
  BY DEF Talk, Queued
<1>2. mail'[s] = mail[s] \/ mail'[s] = << >> \/ (mail[s] # << >> /\ mail'[s] = Tail(mail[s]))
  BY ClientSpeaks DEF Spoken, Enquires, Stalls, IsTold, Chats, Parts
<1>3. mail'[s] \in Seq(Letter)
  <2>1. mail[s] \in Seq(Letter)
    BY <1>1
  <2>2. << >> \in Seq(Letter)
    OBVIOUS
  <2>3. mail[s] # << >> => Tail(mail[s]) \in Seq(Letter)
    BY <2>1, HeadTail
  <2> QED BY <1>2, <2>1, <2>2, <2>3
<1>4. mail' = mail \/ \E v : mail' = [mail EXCEPT ![s] = v]
  BY ClientChanges
<1>5. mail' \in [Sessions -> Seq(Letter)]
  BY <1>1, <1>3, <1>4, ChangedOnce
<1>6. inbound' = inbound \/ \E c, v : inbound' = [inbound EXCEPT ![c] = v]
  BY ClientChanges
<1> QED BY <1>1, <1>5, <1>6

\* What a client that has no account yet is told is an id.
LEMMA GivenId ==
  ASSUME Talk, NEW s \in Sessions, user[s] = "wait", mail[s] # << >>,
         asked[s].cmd \in {"AUTHENTICATE", "REGISTER"},
         asked[s].cmd = "AUTHENTICATE" => Head(mail[s]).value # Nobody
  PROVE  Head(mail[s]).value \in Ids
<1>1. Guest(s)
  BY DEF Talk, Guests, Newcomer, Asking
<1>2. mail[s] \in Seq(GuestLetters(s))
  BY <1>1 DEF Guest
<1>3. Head(mail[s]) \in GuestLetters(s)
  BY <1>2, HeadTail
<1>4. Head(mail[s]) \in Letter /\ Head(mail[s]).cmd \in Possible(s)
  BY <1>3 DEF GuestLetters
<1>5. Head(mail[s]).value \in Gives(Head(mail[s]).cmd) /\ Head(mail[s]).cmd \in Answered
  BY <1>4 DEF Letter
<1>6. CASE asked[s].cmd = "REGISTER"
  BY <1>4, <1>5, <1>6 DEF Possible, Gives
<1>7. CASE asked[s].cmd = "AUTHENTICATE"
  <2>1. Head(mail[s]).cmd = "AUTHENTICATE"
    BY <1>4, <1>5, <1>7 DEF Possible, Answered
  <2> QED BY <1>5, <1>7, <2>1 DEF Gives
<1> QED BY <1>6, <1>7

\* A step of a client leaves on the connections what belongs there.
LEMMA QueuedClient ==
  ASSUME Talk, NEW s \in Sessions, Client(s)
  PROVE  Queued'
<1>0. Served /\ Queued /\ Clients /\ Guests /\ Spoken(s) /\ Elsewhere(s) /\ Main(s) \in Threads /\ Inbox(s) \in Threads
  BY ClientSpeaks, Ends DEF Talk
<1> DEFINE Right(t) ==
             /\ inbound'[Main(t)] \in Seq(MainOrders) /\ inbound'[Inbox(t)] \in Seq(InboxOrders(t)')
             /\ job'[Main(t)].req.cmd \notin {"MAP", "PENDING"}
             /\ job'[Inbox(t)].req.cmd \in {"NONE", "PENDING"}
             /\ job'[Inbox(t)].req.cmd = "PENDING" => job'[Inbox(t)].req.id = me'[t]
             /\ pc'[Inbox(t)] = "none" => inbound'[Inbox(t)] = << >>
             /\ pc'[Main(t)] = "none" => inbound'[Main(t)] = << >> /\ mail'[t] = << >>
<1>1. ASSUME NEW t \in Sessions, t # s PROVE Right(t)
  <2>1. /\ me'[t] = me[t] /\ mail'[t] = mail[t]
        /\ \A c \in {Main(t), Inbox(t)} : pc'[c] = pc[c] /\ job'[c] = job[c] /\ inbound'[c] = inbound[c]
    BY <1>0, <1>1 DEF Elsewhere
  <2>2. InboxOrders(t)' = InboxOrders(t)
    BY <2>1 DEF InboxOrders
  <2> QED BY <1>0, <2>1, <2>2 DEF Queued
<1>2. Right(s)
  <2>1. inbound'[Main(s)] \in Seq(MainOrders)
    <3>1. \/ inbound'[Main(s)] = inbound[Main(s)]
          \/ \E req \in MainOrders : inbound'[Main(s)] = Append(inbound[Main(s)], req)
      BY <1>0 DEF Spoken, Enquires, Stalls, IsTold, Chats, Parts, Writes, MainOrders
    <3>2. inbound[Main(s)] \in Seq(MainOrders)
      BY <1>0 DEF Queued
    <3> QED BY <3>1, <3>2, Appended
  <2>2. /\ job'[Main(s)] = job[Main(s)] \/ job'[Main(s)] = NoJob
        /\ pc'[Main(s)] # "none" \/ (pc'[Main(s)] = pc[Main(s)] /\ user[s] # "off")
    BY <1>0 DEF Spoken, Enquires, Stalls, IsTold, Chats, Parts, SameThread
  <2>3. job'[Main(s)].req.cmd \notin {"MAP", "PENDING"}
    BY <1>0, <2>2, NoJobTyped DEF Queued, NoRequest
  <2>4. pc'[Main(s)] = "none" => inbound'[Main(s)] = << >> /\ mail'[s] = << >>
    <3> SUFFICES ASSUME pc'[Main(s)] = "none" PROVE inbound'[Main(s)] = << >> /\ mail'[s] = << >>
      OBVIOUS
    <3>1. pc[Main(s)] = "none" /\ user[s] # "off"
      BY <2>2
    <3> QED BY <1>0, <3>1 DEF Guests
  <2>5. CASE SameInbox(s)
    <3>1. InboxOrders(s)' = InboxOrders(s)
      BY <2>5 DEF InboxOrders, SameInbox
    <3> QED BY <1>0, <2>1, <2>3, <2>4, <2>5, <3>1 DEF Queued, SameInbox, SameThread
  <2>6. CASE ~ SameInbox(s)
    <3>1. CASE Parts(s)
      <4>1. InboxOrders(s)' = InboxOrders(s)
        BY <3>1 DEF InboxOrders, Parts
      <4> QED BY <1>0, <2>1, <2>3, <2>4, <3>1, <4>1 DEF Queued, Parts, SameThread
    <3>2. CASE ~ Parts(s)
      <4>1. /\ user[s] = "wait" /\ mail[s] # << >> /\ asked[s].cmd \in {"AUTHENTICATE", "REGISTER"}
            /\ asked[s].cmd = "AUTHENTICATE" => Head(mail[s]).value # Nobody
            /\ me'[s] = Head(mail[s]).value
            /\ pc'[Inbox(s)] = "reading" /\ job'[Inbox(s)] = NoJob
            /\ inbound'[Inbox(s)] = << [cmd |-> "MAP", id |-> me'[s], arg |-> NoName] >>
        BY <1>0, <2>6, <3>2 DEF Spoken, Enquires, Stalls, IsTold, Chats
      <4>2. me'[s] \in Ids
        BY <1>0, <4>1, GivenId
      <4>3. inbound'[Inbox(s)] \in Seq(InboxOrders(s)')
        BY <4>1, <4>2 DEF InboxOrders
      <4> QED BY <2>1, <2>3, <2>4, <4>1, <4>3, NoJobTyped DEF NoRequest
    <3> QED BY <3>1, <3>2
  <2> QED BY <2>5, <2>6
<1>3. mail' \in [Sessions -> Seq(Letter)] /\ DOMAIN inbound' = Threads
  BY MailKept
<1> QED BY <1>1, <1>2, <1>3 DEF Queued, MainOrders
-----------------------------------------------------------------------------
(* The conversation of a client that speaks. *)

Unasked(s) ==
  Silent(inbound[Main(s)]) /\ job[Main(s)].req.cmd \notin Answered /\ mail[s] = << >>

\* A client that waits for no answer has none on its way.
LEMMA NothingAsked ==
  ASSUME NEW s \in Sessions, Answering(s), mail[s] \in Seq(Letter), asked[s].cmd \notin Answered
  PROVE  Unasked(s)
<1>1. Silent(inbound[Main(s)]) /\ job[Main(s)].req.cmd \notin Answered
  BY DEF Answering, Silent
<1>2. mail[s] = << >>
  <2> SUFFICES ASSUME mail[s] # << >> PROVE FALSE
    OBVIOUS
  <2>1. mail[s][1].cmd \notin Answered
    BY DEF Answering
  <2>2. mail[s][1] \in Letter
    BY HeadTail
  <2> QED BY <2>1, <2>2 DEF Letter
<1> QED BY <1>1, <1>2 DEF Unasked

\* One request more on a connection that has none to be answered.
LEMMA SilentAppend ==
  ASSUME NEW S, NEW q \in Seq(S), NEW r \in S, Silent(q)
  PROVE  /\ \A k \in 1 .. Len(Append(q, r)) :
              Append(q, r)[k].cmd \in Answered => k = Len(Append(q, r)) /\ Append(q, r)[k] = r
         /\ r.cmd \notin Answered => Silent(Append(q, r))
<1>1. PICK p : p = Append(q, r)
  OBVIOUS
<1>2. /\ Len(p) = Len(q) + 1 /\ Len(q) \in Nat /\ p[Len(q) + 1] = r
      /\ \A k \in 1 .. Len(q) : p[k] = q[k]
  BY <1>1, Appended
<1>3. \A k \in 1 .. Len(p) : k = Len(p) \/ k \in 1 .. Len(q)
  BY <1>2
<1>4. \A k \in 1 .. Len(p) : p[k].cmd \in Answered => k = Len(p) /\ p[k] = r
  BY <1>2, <1>3 DEF Silent
<1>5. r.cmd \notin Answered => Silent(p)
  BY <1>4 DEF Silent
<1> QED BY <1>1, <1>4, <1>5

\* A step of a client leaves the answer it waits for on its way once at most.
LEMMA AnsweringsClient ==
  ASSUME Talk, NEW s \in Sessions, Client(s)
  PROVE  Answerings'
<1>0. /\ Queued /\ Clients /\ Guests /\ Answerings /\ Spoken(s) /\ Elsewhere(s) /\ UNCHANGED reused
      /\ Main(s) \in Threads /\ Inbox(s) \in Threads
  BY ClientSpeaks, ClientKinds, Ends DEF Talk, Connected
<1> SUFFICES ASSUME NEW t \in Sessions
             PROVE  /\ user'[t] = "over" => mail'[t] = << >>
                    /\ user'[t] = "over" \/ (reused' /\ ~ Newcomer(t)') \/ Answering(t)'
  BY DEF Answerings
<1>1. CASE t # s
  BY <1>0, <1>1 DEF Elsewhere, Answerings, Answering, Newcomer, Asking
<1>2. CASE t = s
  <2>0. mail[s] \in Seq(Letter) /\ inbound[Main(s)] \in Seq(MainOrders) /\ NoRequest.cmd \notin Answered
    BY <1>0 DEF Queued, NoRequest, Answered
  <2>1. CASE Enquires(s)
    <3>1. user[s] # "over" /\ user[s] # "wait" /\ user'[s] # "over"
      BY <2>1 DEF Enquires
    <3>2. asked[s] = NoRequest
      BY <1>0, <3>1 DEF Guests
    <3>3. CASE user[s] = "menu" /\ reused
      <4>1. ~ Newcomer(s)'
        BY <2>1, <3>3 DEF Enquires, Newcomer, Asking
      <4> QED BY <1>0, <1>2, <3>1, <3>3, <4>1
    <3>4. CASE ~ (user[s] = "menu" /\ reused)
      <4>1. Answering(s)
        BY <1>0, <2>1, <3>1, <3>4 DEF Answerings, Enquires, Newcomer, Asking
      <4>2. Unasked(s)
        BY <2>0, <3>2, <4>1, NothingAsked
      <4>3. asked'[s] \in MainOrders /\ inbound'[Main(s)] = Append(inbound[Main(s)], asked'[s]) /\ mail'[s] = << >>
        BY <2>1, <4>2 DEF Enquires, Writes, MainOrders, Unasked
      <4>4. job'[Main(s)].req.cmd \notin Answered
        <5>1. job'[Main(s)] = NoJob \/ job'[Main(s)] = job[Main(s)]
          BY <2>1 DEF Enquires, SameThread
        <5> QED BY <2>0, <4>2, <5>1, NoJobTyped DEF Unasked
      <4>5. \A k \in 1 .. Len(inbound'[Main(s)]) :
              inbound'[Main(s)][k].cmd \in Answered =>
                k = Len(inbound'[Main(s)]) /\ inbound'[Main(s)][k] = asked'[s]
        BY <2>0, <4>2, <4>3, SilentAppend DEF Unasked
      <4> QED BY <1>2, <3>1, <4>3, <4>4, <4>5 DEF Answering
    <3> QED BY <3>3, <3>4
  <2>2. CASE Stalls(s)
    <3>1. user[s] = "menu" /\ user'[s] = "wait" /\ asked'[s] = NoRequest /\ asked[s] = NoRequest
      BY <1>0, <2>2 DEF Stalls, Guests
    <3>2. ~ Newcomer(s)' /\ ~ Newcomer(s)
      BY <3>1 DEF Newcomer, Asking, NoRequest
    <3>3. Answering(s) => Unasked(s)
      BY <2>0, <3>1, NothingAsked
    <3>4. Unasked(s) => Answering(s)'
      BY <2>2 DEF Unasked, Silent, Stalls, Answering, SameThread
    <3> QED BY <1>0, <1>2, <3>1, <3>2, <3>3, <3>4 DEF Answerings
  <2>3. CASE IsTold(s)
    <3>1. user[s] = "wait" /\ mail[s] # << >> /\ mail'[s] = Tail(mail[s]) /\ user'[s] # "over"
      BY <2>3 DEF IsTold
    <3>2. ASSUME Answering(s) PROVE Answering(s)'
      <4>1. Len(mail[s]) = 1 /\ Silent(inbound[Main(s)]) /\ job[Main(s)].req.cmd \notin Answered
        BY <3>1, <3>2 DEF Answering
      <4>2. mail'[s] = << >>
        <5>1. Len(mail'[s]) = 0 /\ mail'[s] \in Seq(Letter)
          BY <2>0, <3>1, <4>1, HeadTail
        <5> QED BY <5>1
      <4>3. inbound'[Main(s)] = inbound[Main(s)] /\ job'[Main(s)] = job[Main(s)]
        BY <2>3 DEF IsTold, SameThread
      <4> QED BY <4>1, <4>2, <4>3 DEF Answering, Silent
    <3>3. ~ Newcomer(s) => Answering(s) \/ ~ Newcomer(s)'
      <4>1. user'[s] = "denied" => Newcomer(s)
        BY <2>3 DEF IsTold, Newcomer, Asking
      <4>2. user'[s] \in {"denied", "menu", "chat"}
        BY <2>3 DEF IsTold
      <4> QED BY <4>1, <4>2 DEF Newcomer, Asking
    <3> QED BY <1>0, <1>2, <3>1, <3>2, <3>3 DEF Answerings
  <2>4. CASE Chats(s)
    <3>1. user[s] = "chat" /\ user'[s] \in {"chat", "menu"} /\ asked[s] = NoRequest /\ asked'[s] = asked[s] /\ mail'[s] = mail[s]
      BY <1>0, <2>4 DEF Chats, Guests
    <3>2. ~ Newcomer(s)' /\ ~ Newcomer(s)
      BY <3>1 DEF Newcomer, Asking
    <3>3. Answering(s) => Unasked(s)
      BY <2>0, <3>1, NothingAsked
    <3>4. ASSUME Unasked(s) PROVE Answering(s)'
      <4>1. Silent(inbound'[Main(s)])
        <5>1. \/ inbound'[Main(s)] = inbound[Main(s)]
              \/ \E req \in MainOrders : req.cmd \notin Answered /\ inbound'[Main(s)] = Append(inbound[Main(s)], req)
          BY <2>4 DEF Chats, Writes, MainOrders, Answered
        <5> QED BY <2>0, <3>4, <5>1, SilentAppend DEF Unasked
      <4>2. job'[Main(s)] = job[Main(s)] /\ mail'[s] = << >>
        BY <2>4, <3>1, <3>4 DEF Chats, SameThread, Unasked
      <4> QED BY <3>4, <4>1, <4>2 DEF Answering, Unasked, Silent
    <3> QED BY <1>0, <1>2, <3>1, <3>2, <3>3, <3>4 DEF Answerings
  <2>5. CASE Parts(s)
    BY <1>2, <2>5 DEF Parts
  <2> QED BY <1>0, <2>1, <2>2, <2>3, <2>4, <2>5 DEF Spoken
<1> QED BY <1>1, <1>2

\* A guest's connection, with a request more or less.
LEMMA GuestsClient ==
  ASSUME Talk, NEW s \in Sessions, Client(s)
  PROVE  Guests'
<1>0. /\ Queued /\ Clients /\ Guests /\ Answerings /\ Spoken(s) /\ Elsewhere(s)
      /\ Main(s) \in Threads /\ Inbox(s) \in Threads
  BY ClientSpeaks, Ends DEF Talk
<1> SUFFICES ASSUME NEW t \in Sessions
             PROVE  /\ user'[t] = "off" <=> pc'[Main(t)] = "none"
                    /\ Newcomer(t)' => Guest(t)'
                    /\ ~ Newcomer(t)' /\ user'[t] # "over" => me'[t] \in Ids
                    /\ user'[t] # "wait" => asked'[t] = NoRequest
  BY DEF Guests
<1>1. CASE t # s
  <2>1. /\ user'[t] = user[t] /\ me'[t] = me[t] /\ asked'[t] = asked[t] /\ inbox'[t] = inbox[t]
        /\ mail'[t] = mail[t] /\ pc'[Main(t)] = pc[Main(t)] /\ pc'[Inbox(t)] = pc[Inbox(t)]
        /\ job'[Main(t)] = job[Main(t)] /\ inbound'[Main(t)] = inbound[Main(t)]
    BY <1>0, <1>1 DEF Elsewhere
  <2>2. Newcomer(t)' = Newcomer(t) /\ Possible(t)' = Possible(t)
    BY <2>1 DEF Newcomer, Asking, Possible
  <2>3. GuestOrders(t)' = GuestOrders(t) /\ GuestLetters(t)' = GuestLetters(t)
    BY <2>2 DEF GuestOrders, GuestLetters
  <2>4. Guest(t) => Guest(t)'
    BY <2>1, <2>2, <2>3 DEF Guest
  <2> QED BY <1>0, <2>1, <2>2, <2>4 DEF Guests
<1>2. CASE t = s
  <2>1. user'[s] = "off" <=> pc'[Main(s)] = "none"
    BY <1>0 DEF Guests, Spoken, Enquires, Stalls, IsTold, Chats, Parts, SameThread
  <2>2. user'[s] # "wait" => asked'[s] = NoRequest
    BY <1>0 DEF Guests, Spoken, Enquires, Stalls, IsTold, Chats, Parts
  <2>3. ~ Newcomer(s)' /\ user'[s] # "over" => me'[s] \in Ids
    <3>1. CASE Enquires(s) \/ Stalls(s) \/ Chats(s)
      BY <1>0, <3>1 DEF Guests, Newcomer, Asking, Enquires, Stalls, Chats, SameInbox
    <3>2. CASE IsTold(s)
      <4>1. CASE SameInbox(s) /\ ~ Newcomer(s)
        BY <1>0, <3>2, <4>1 DEF Guests, SameInbox, IsTold
      <4>2. CASE user'[s] = "denied"
        BY <4>2 DEF Newcomer
      <4>3. CASE me'[s] = Head(mail[s]).value /\ asked[s].cmd \in {"AUTHENTICATE", "REGISTER"}
                 /\ (asked[s].cmd = "AUTHENTICATE" => Head(mail[s]).value # Nobody)
        BY <3>2, <4>3, GivenId DEF IsTold
      <4> QED BY <3>2, <4>1, <4>2, <4>3 DEF IsTold
    <3> QED BY <1>0, <3>1, <3>2 DEF Spoken, Parts
  <2>4. ASSUME Newcomer(s)' PROVE Guest(s)'
    <3>1. CASE Enquires(s)
      <4>1. user[s] \in {"off", "denied"} /\ asked'[s].cmd \in {"AUTHENTICATE", "AUTHENTICATE_WORDS", "REGISTER"}
        BY <2>4, <3>1 DEF Enquires, Newcomer, Asking
      <4>2. Guest(s) /\ asked[s] = NoRequest
        BY <1>0, <4>1 DEF Guests, Newcomer
      <4>3. asked'[s] \in GuestOrders(s)'
        BY <3>1, <4>1 DEF Enquires, GuestOrders, Possible
      <4>4. inbound[Main(s)] \in Seq(GuestOrders(s)') /\ mail[s] \in Seq(GuestLetters(s)')
        <5>1. CASE user[s] = "off"
          <6>1. inbound[Main(s)] = << >> /\ mail[s] = << >>
            BY <1>0, <5>1 DEF Guests, Queued
          <6> QED BY <6>1
        <5>2. CASE user[s] = "denied"
          <6>1. Possible(s)' = Possible(s)
            BY <3>1, <4>2, <5>2 DEF Enquires, Possible, NoRequest
          <6>2. GuestOrders(s)' = GuestOrders(s) /\ GuestLetters(s)' = GuestLetters(s)
            BY <6>1 DEF GuestOrders, GuestLetters
          <6> QED BY <4>2, <6>2 DEF Guest
        <5> QED BY <4>1, <5>1, <5>2
      <4>5. inbound'[Main(s)] \in Seq(GuestOrders(s)') /\ mail'[s] \in Seq(GuestLetters(s)')
        BY <3>1, <4>3, <4>4, Appended DEF Enquires, Writes
      <4>6. job'[Main(s)].req.cmd \in Possible(s)' \cup {"NONE"}
        <5>1. CASE user[s] = "off"
          BY <3>1, <5>1, NoJobTyped DEF Enquires, NoRequest
        <5>2. CASE user[s] = "denied"
          BY <3>1, <4>2, <5>2 DEF Enquires, SameThread, Possible, NoRequest, Guest
        <5> QED BY <4>1, <5>1, <5>2
      <4>7. me'[s] = Nobody /\ inbox'[s] = "none" /\ pc'[Inbox(s)] = "none"
        BY <3>1, <4>2 DEF Enquires, SameInbox, SameThread, Guest
      <4> QED BY <4>5, <4>6, <4>7 DEF Guest
    <3>2. CASE ~ Enquires(s)
      <4>1. IsTold(s) /\ user'[s] = "denied" /\ asked[s].cmd = "AUTHENTICATE" /\ SameInbox(s)
        BY <1>0, <2>4, <3>2 DEF Spoken, Stalls, IsTold, Chats, Parts, Newcomer, Asking, NoRequest
      <4>2. Guest(s)
        BY <1>0, <4>1 DEF Guests, Newcomer, Asking, IsTold
      <4>3. Possible(s)' = Possible(s)
        BY <4>1 DEF IsTold, Possible, NoRequest
      <4>4. GuestOrders(s)' = GuestOrders(s) /\ GuestLetters(s)' = GuestLetters(s)
        BY <4>3 DEF GuestOrders, GuestLetters
      <4>5. mail'[s] \in Seq(GuestLetters(s))
        BY <4>1, <4>2, HeadTail DEF IsTold, Guest
      <4> QED BY <4>1, <4>2, <4>3, <4>4, <4>5 DEF Guest, IsTold, SameInbox, SameThread
    <3> QED BY <3>1, <3>2
  <2> QED BY <1>2, <2>1, <2>2, <2>3, <2>4
<1> QED BY <1>1, <1>2

\* What a client knows keeps its type.
LEMMA ClientsClient ==
  ASSUME Talk, NEW s \in Sessions, Client(s)
  PROVE  Clients'
<1>0. /\ Queued /\ Clients /\ Guests /\ Guests' /\ Spoken(s) /\ Shapes
  BY ClientSpeaks, GuestsClient, ShapesOfTalk DEF Talk
<1>1. user'[s] \in {"off", "denied", "menu", "wait", "chat", "over"}
  BY <1>0 DEF Spoken, Enquires, Stalls, IsTold, Chats, Parts
<1>2. me'[s] \in Ids \cup {Nobody}
  BY <1>0 DEF Guests, Guest, Clients, Spoken, Parts, Enquires, Stalls, IsTold, Chats
<1>3. asked'[s] \in Requested
  <2>1. NoRequest \in Requested
    BY DEF NoRequest, Requested
  <2> QED BY <1>0, <2>1 DEF Spoken, Enquires, Stalls, IsTold, Chats, Parts, Clients
<1>4. inbox'[s] \in {"none", "up", "down"}
  BY <1>0 DEF Spoken, Enquires, Stalls, IsTold, Chats, Parts, SameInbox, Clients
<1>5. chat'[s] \in Values
  <2>1. Nobody \in Values /\ chat[s] \in Values
    BY <1>0 DEF Values, Clients
  <2>2. chat'[s] \in {chat[s], Nobody} \/ (mail[s] # << >> /\ chat'[s] = Head(mail[s]).value)
    BY <1>0 DEF Client, LogIn, SignUp, Command, Misuse, ReadAnswer, Say, LeaveChat, Quit, Killed, Leaves, Shapes
  <2>3. mail[s] # << >> => Head(mail[s]) \in Letter
    BY <1>0, HeadTail DEF Queued
  <2> QED BY <2>1, <2>2, <2>3 DEF Letter
<1>6. /\ user' \in [Sessions -> {"off", "denied", "menu", "wait", "chat", "over"}]
      /\ me' \in [Sessions -> Ids \cup {Nobody}] /\ asked' \in [Sessions -> Requested]
      /\ chat' \in [Sessions -> Values] /\ inbox' \in [Sessions -> {"none", "up", "down"}]
  BY <1>0, <1>1, <1>2, <1>3, <1>4, <1>5, ClientChanges, ChangedOnce DEF Clients
<1> QED BY <1>6 DEF Clients
-----------------------------------------------------------------------------
(* Talk holds always. *)

\* A step of a client keeps Talk.
LEMMA TalkClient ==
  ASSUME Talk, NEW s \in Sessions, Client(s)
  PROVE  Talk'
BY ServedClient, QueuedClient, ClientsClient, GuestsClient, AnsweringsClient DEF Talk

\* Queues with nothing in them.
LEMMA NothingOnTheWay ==
  ASSUME NEW S, NEW T
  PROVE  [c \in S |-> << >>] \in [S -> Seq(T)]
OBVIOUS

\* A crash keeps Talk: nothing is on its way then, and every client is over.
LEMMA TalkCrash ==
  ASSUME Talk, Crash
  PROVE  Talk'
<1>0. /\ Served /\ Disks /\ Queued /\ Clients /\ Guests /\ Answerings
      /\ pc' = [c \in Threads |-> IF pc[c] = "none" THEN "none" ELSE "gone"]
      /\ job' = [c \in Threads |-> NoJob]
      /\ inbound' = [c \in Threads |-> << >>] /\ mail' = [s \in Sessions |-> << >>]
      /\ user' = [s \in Sessions |-> IF user[s] = "off" THEN "off" ELSE "over"]
      /\ inbox' = [s \in Sessions |-> IF inbox[s] = "up" THEN "down" ELSE inbox[s]]
      /\ asked' = [s \in Sessions |-> NoRequest] /\ chat' = [s \in Sessions |-> Nobody]
      /\ UNCHANGED << disk, torn, me >>
  BY DEF Talk, Crash
<1>1. Served'
  <2>1. pc' \in [Threads -> Steps] /\ DOMAIN job' = Threads
    BY <1>0 DEF Steps
  <2>2. \A c \in Threads : pc'[c] \in {"none", "gone"} /\ job'[c] = NoJob
    BY <1>0
  <2> QED BY <2>1, <2>2, NoJobTyped, NoJobPlaced DEF Served, JobTyped, Placed, IsJob
<1>2. Disks'
  BY <1>0 DEF Disks
<1>3. Queued'
  <2>1. DOMAIN inbound' = Threads /\ mail' \in [Sessions -> Seq(Letter)]
    BY <1>0, NothingOnTheWay
  <2>2. \A s \in Sessions : /\ inbound'[Main(s)] = << >> /\ inbound'[Inbox(s)] = << >> /\ mail'[s] = << >>
                            /\ job'[Main(s)].req.cmd = "NONE" /\ job'[Inbox(s)].req.cmd = "NONE"
    BY <1>0, Ends, NoJobTyped DEF NoRequest
  <2> QED BY <2>1, <2>2 DEF Queued, MainOrders
<1>4. Clients'
  <2>1. NoRequest \in Requested /\ Nobody \in Values
    BY DEF NoRequest, Requested, Values
  <2> QED BY <1>0, <2>1 DEF Clients
<1>5. ASSUME NEW s \in Sessions
      PROVE  /\ user'[s] = IF user[s] = "off" THEN "off" ELSE "over"
             /\ asked'[s] = NoRequest /\ mail'[s] = << >> /\ inbound'[Main(s)] = << >>
             /\ job'[Main(s)] = NoJob
             /\ pc'[Main(s)] = IF pc[Main(s)] = "none" THEN "none" ELSE "gone"
             /\ pc'[Inbox(s)] = IF pc[Inbox(s)] = "none" THEN "none" ELSE "gone"
  BY <1>0, Ends
<1>6. Guests'
  <2> SUFFICES ASSUME NEW s \in Sessions
               PROVE  /\ user'[s] = "off" <=> pc'[Main(s)] = "none"
                      /\ Newcomer(s)' => Guest(s)'
                      /\ ~ Newcomer(s)' /\ user'[s] # "over" => me'[s] \in Ids
                      /\ user'[s] # "wait" => asked'[s] = NoRequest
    BY DEF Guests
  <2>1. user'[s] = "off" <=> pc'[Main(s)] = "none"
    BY <1>0, <1>5 DEF Guests
  <2>2. Newcomer(s)' => user[s] = "off"
    BY <1>5 DEF Newcomer, Asking
  <2>3. ASSUME user[s] = "off" PROVE Guest(s)'
    <3>1. Guest(s)
      BY <1>0, <2>3 DEF Guests, Newcomer
    <3>2. me'[s] = Nobody /\ inbox'[s] = "none" /\ pc'[Inbox(s)] = "none"
      BY <1>0, <1>5, <3>1 DEF Guest
    <3>3. job'[Main(s)].req.cmd = "NONE"
      BY <1>5, NoJobTyped DEF NoRequest
    <3>4. inbound'[Main(s)] \in Seq(GuestOrders(s)') /\ mail'[s] \in Seq(GuestLetters(s)')
      BY <1>5, EmptySeq
    <3> QED BY <3>2, <3>3, <3>4 DEF Guest
  <2>4. ~ Newcomer(s)' => user'[s] = "over"
    BY <1>5 DEF Newcomer
  <2> QED BY <1>5, <2>1, <2>2, <2>3, <2>4
<1>7. Answerings'
  <2>1. NoJob.req.cmd \notin Answered
    BY NoJobTyped DEF NoRequest, Answered
  <2>2. \A s \in Sessions : Answering(s)'
    BY <1>5, <2>1 DEF Answering
  <2> QED BY <1>5, <2>2 DEF Answerings
<1> QED BY <1>1, <1>2, <1>3, <1>4, <1>6, <1>7 DEF Talk

\* Talk holds before the first client connects.
LEMMA InitTalk == Init => Talk
<1> SUFFICES ASSUME Init PROVE Talk
  OBVIOUS
<1>0. /\ disk \in FirstFiles /\ torn = {}
      /\ pc = [c \in Threads |-> "none"] /\ job = [c \in Threads |-> NoJob]
      /\ inbound = [c \in Threads |-> << >>] /\ mail = [s \in Sessions |-> << >>]
      /\ user = [s \in Sessions |-> "off"] /\ me = [s \in Sessions |-> Nobody]
      /\ asked = [s \in Sessions |-> NoRequest] /\ chat = [s \in Sessions |-> Nobody]
      /\ inbox = [s \in Sessions |-> "none"]
  BY DEF Init
<1>1. Served
  BY <1>0, NoJobTyped, NoJobPlaced DEF Served, Steps
<1>2. Disks
  <2>1. DOMAIN disk = Files /\ (\A f \in Files : Holds(f, disk[f])) /\ disk["messages"] = << >>
    BY <1>0, ChatappServerAssumption
  <2>2. \A f \in Files : Document(f, disk[f])
    BY <2>1, EmptyDocuments DEF Document
  <2> QED BY <1>0, <2>1, <2>2 DEF Disks
<1>3. ASSUME NEW s \in Sessions
      PROVE  /\ inbound[Main(s)] = << >> /\ inbound[Inbox(s)] = << >> /\ mail[s] = << >>
             /\ job[Main(s)] = NoJob /\ job[Inbox(s)] = NoJob
             /\ pc[Main(s)] = "none" /\ pc[Inbox(s)] = "none"
  BY <1>0, Ends
<1>4. NoJob.req.cmd = "NONE"
  BY NoJobTyped DEF NoRequest
<1>5. Queued
  <2>1. DOMAIN inbound = Threads /\ mail \in [Sessions -> Seq(Letter)]
    BY <1>0, NothingOnTheWay
  <2> QED BY <1>3, <1>4, <2>1 DEF Queued
<1>6. Clients
  <2>1. NoRequest \in Requested /\ Nobody \in Values
    BY DEF NoRequest, Requested, Values
  <2> QED BY <1>0, <2>1 DEF Clients
<1>7. Guests
  <2>1. ASSUME NEW s \in Sessions PROVE Guest(s)
    <3>1. inbound[Main(s)] \in Seq(GuestOrders(s)) /\ mail[s] \in Seq(GuestLetters(s))
      BY <1>3, EmptySeq
    <3> QED BY <1>0, <1>3, <1>4, <3>1 DEF Guest
  <2> QED BY <1>0, <1>3, <2>1 DEF Guests, Newcomer
<1>8. Answerings
  BY <1>0, <1>3, <1>4 DEF Answerings, Answering, Answered
<1> QED BY <1>1, <1>2, <1>5, <1>6, <1>7, <1>8 DEF Talk

\* Talk is about variables of the specification only.
LEMMA TalkStill ==
  ASSUME Talk, UNCHANGED vars
  PROVE  Talk'
<1>0. UNCHANGED << disk, torn, pc, job, inbound, mail, user, me, asked, chat, inbox, reused >>
  BY DEF vars, serverVars, sharedVars, clientVars, historyVars
<1>1. Served' /\ Disks' /\ Clients'
  BY <1>0 DEF Talk, Served, Disks, Clients
<1>2. Queued'
  BY <1>0 DEF Talk, Queued, InboxOrders
<1>3. Guests'
  <2>1. \A s \in Sessions : Newcomer(s)' = Newcomer(s) /\ (Guest(s) => Guest(s)')
    BY <1>0 DEF Newcomer, Asking, Guest, GuestOrders, GuestLetters, Possible
  <2> QED BY <1>0, <2>1 DEF Talk, Guests
<1>4. Answerings'
  BY <1>0 DEF Talk, Answerings, Answering, Newcomer, Asking
<1> QED BY <1>1, <1>2, <1>3, <1>4 DEF Talk

\* Threads, files, connections and clients keep their types, a client without an
\* account can only be told of one, and no client has two answers on their way.
THEOREM TalkHolds == Spec => []Talk
<1>1. FitFiles /\ Talk /\ [Next]_vars => Talk'
  BY TalkServe, TalkClient, TalkCrash, TalkStill DEF Next
<1> QED BY InitTalk, FitFilesHolds, <1>1, PTL DEF Spec

\* No answer on the main connection says which request it is for.  The client is right
\* to take the next one that comes for the one it waits for, until an id is given away.
THEOREM AlignedHolds == Spec => []Aligned
<1>1. ASSUME Talk, ~ reused, NEW s \in Sessions
      PROVE  /\ Len(mail[s]) <= 1
             /\ mail[s] # << >> => user[s] = "wait" /\ mail[s][1].cmd = asked[s].cmd
             /\ Len(job[Main(s)].replies) <= 1
  <2>0. /\ Served /\ Queued /\ Clients /\ Guests /\ Answerings /\ Main(s) \in Threads
        /\ mail[s] \in Seq(Letter)
    BY <1>1, Ends DEF Talk, Queued
  <2>1. Len(job[Main(s)].replies) <= 1
    <3>1. Placed(pc[Main(s)], job[Main(s)]) /\ pc[Main(s)] \in Steps
      BY <2>0 DEF Served
    <3>2. Len(<< >>) = 0
      OBVIOUS
    <3> QED BY <3>1, <3>2, NoJobTyped DEF Placed, Steps
  <2>2. mail[s] = << >> => Len(mail[s]) <= 1
    OBVIOUS
  <2>3. CASE user[s] = "over"
    BY <2>0, <2>1, <2>2, <2>3 DEF Answerings
  <2>4. CASE user[s] # "over"
    <3>1. Answering(s)
      BY <1>1, <2>0, <2>4 DEF Answerings
    <3>2. CASE mail[s] = << >>
      BY <2>1, <2>2, <3>2
    <3>3. CASE mail[s] # << >>
      <4>1. mail[s][1] \in Letter
        BY <2>0, <3>3, HeadTail
      <4>2. asked[s].cmd \in Answered
        BY <3>1, <3>3, <4>1 DEF Answering, Letter
      <4>3. user[s] = "wait"
        BY <2>0, <4>2 DEF Guests, NoRequest, Answered
      <4>4. Len(mail[s]) = 1 /\ mail[s][1].cmd = asked[s].cmd
        BY <3>1, <3>3 DEF Answering
      <4> QED BY <2>1, <4>3, <4>4
    <3> QED BY <3>2, <3>3
  <2> QED BY <2>3, <2>4
<1>2. Talk => Aligned
  BY <1>1 DEF Aligned
<1> QED BY TalkHolds, <1>2, PTL
-----------------------------------------------------------------------------
(* What is owed. *)

Stayers == {r \in Requested : r.cmd # "EXIT"}

\* A thread of a client that is there has not been told to end, and is gone only when it
\* took the mutex with it.
Parting ==
  \A s \in Sessions :
    /\ user[s] # "over" => job[Main(s)].req.cmd # "EXIT" /\ inbound[Main(s)] \in Seq(Stayers)
    /\ pc[Main(s)] = "gone" => user[s] = "over" \/ Wedged
    /\ asked[s].cmd \in Answered \cup {"NONE", "AUTHENTICATE_WORDS"}

\* A turn of another thread changes nothing of this conversation.
LEMMA AnotherTurn ==
  ASSUME Served, Queued, NEW c \in Threads, TurnOf(c), Others(c), pc[c] \notin {"none", "gone"},
         NEW s \in Sessions, c # Main(s)
  PROVE  /\ pc'[Main(s)] = pc[Main(s)] /\ job'[Main(s)] = job[Main(s)]
         /\ inbound'[Main(s)] = inbound[Main(s)] /\ mail'[s] = mail[s]
<1>1. /\ pc'[Main(s)] = pc[Main(s)] /\ job'[Main(s)] = job[Main(s)]
      /\ inbound'[Main(s)] = inbound[Main(s)]
  BY Ends DEF Others
<1>2. mail'[s] = mail[s]
  <2>1. CASE c = Inbox(s)
    <3>1. Idle(c) \/ Hand(c).cmd \notin Answered
      BY <2>1, HandOf DEF Answered
    <3> QED BY <2>1, <3>1, EndIsOf DEF TurnOf
  <2>2. CASE c # Inbox(s)
    BY <2>2, EndIsOf DEF Others
  <2> QED BY <2>1, <2>2
<1> QED BY <1>1, <1>2

\* The mutex that a dead thread holds is held.
LEMMA MutexMoves ==
  ASSUME NEW c \in Threads, Serve(c)
  PROVE  mutex' = mutex \/ mutex = Free \/ pc[c] = "saving"
<1>1. CASE Requests(c)
  BY <1>1 DEF Requests, Authenticate, Ignore, Register, Look, Add, Chat, TakeGroups, Send, Map, Exit,
              serverVars, sharedVars
<1>2. CASE ParseFails(c) \/ BeginSave(c) \/ EndSave(c)
  BY <1>2 DEF ParseFails, BeginSave, EndSave
<1>3. CASE ListGroups(c) \/ ChatGroup(c) \/ MakeGroup(c) \/ SendGroup(c) \/ Leave(c) \/ Deliver(c)
           \/ Pending(c) \/ PendingFails(c) \/ EndOfStream(c)
  BY <1>3 DEF ListGroups, ChatGroup, MakeGroup, SendGroup, Leave, Deliver, Pending, PendingFails, EndOfStream,
              sharedVars
<1> QED BY <1>1, <1>2, <1>3 DEF Serve

\* A mutex that a thread has left locked stays locked while the process lives: steps of
\* the other threads.
LEMMA WedgedServe ==
  ASSUME Locks, Wedged, NEW c \in Threads, Serve(c), Others(c)
  PROVE  Wedged'
<1>1. mutex \in Threads /\ pc[mutex] = "gone" /\ c # mutex
  BY ServeLeaves DEF Wedged
<1>2. mutex # Free /\ pc[c] # "saving"
  BY <1>1, FreeIsNoThread DEF Locks, Writer
<1>3. mutex' = mutex
  BY <1>2, MutexMoves
<1>4. pc'[mutex] = pc[mutex]
  BY <1>1 DEF Others
<1> QED BY <1>1, <1>3, <1>4 DEF Wedged

\* The same for steps of the clients.
LEMMA WedgedClient ==
  ASSUME Talk, Wedged, NEW s \in Sessions, Client(s)
  PROVE  Wedged'
<1>1. mutex \in Threads /\ pc[mutex] = "gone"
  BY DEF Wedged
<1>2. CASE Connected(s)
  <2>1. PICK c \in Threads : pc[c] = "none" /\ Goto(c, "reading", NoJob) /\ UNCHANGED mutex
    BY <1>2, Ends DEF Connected, Talk, Guests, Guest, Newcomer
  <2>2. pc'[mutex] = pc[mutex]
    BY <1>1, <2>1 DEF Goto, Talk, Served
  <2> QED BY <1>1, <2>1, <2>2 DEF Wedged
<1> QED BY <1>1, <1>2, ClientKinds DEF Wedged

\* What a thread that takes a turn is at next.
LEMMA PartingTurn ==
  ASSUME Talk, Parting, Locks, NEW c \in Threads, Serve(c), Turn(c), TurnOf(c), Others(c)
  PROVE  Parting'
<1>0. /\ Served /\ Queued /\ UNCHANGED << user, me, asked, chat, inbox >> /\ pc[c] \notin {"none", "gone"}
  BY ServeLeaves DEF Talk
<1> SUFFICES ASSUME NEW s \in Sessions
             PROVE  /\ user[s] # "over" => job'[Main(s)].req.cmd # "EXIT" /\ inbound'[Main(s)] \in Seq(Stayers)
                    /\ pc'[Main(s)] = "gone" => user[s] = "over" \/ Wedged'
                    /\ asked[s].cmd \in Answered \cup {"NONE", "AUTHENTICATE_WORDS"}
  BY <1>0 DEF Parting, Stayers
<1>1. CASE c = Main(s)
  <2>1. GoesOn(c) \/ IsDone(c) \/ IsEnded(c)
    BY <1>0, TurnGoes
  <2>2. ASSUME user[s] # "over" PROVE job'[c].req.cmd # "EXIT" /\ inbound'[c] \in Seq(Stayers)
    <3>0. inbound[c] \in Seq(Stayers) /\ job[c].req.cmd # "EXIT"
      BY <1>1, <2>2 DEF Parting
    <3>1. inbound'[c] \in Seq(Stayers)
      BY <1>0, <3>0, TurnQueue
    <3>2. CASE job'[c].req = NoRequest
      BY <3>1, <3>2 DEF NoRequest
    <3>3. CASE job'[c].req # NoRequest
      <4>1. ~ Idle(c)
        BY <3>3 DEF TurnOf
      <4>2. Hand(c) \in Stayers \/ Hand(c) = job[c].req
        BY <1>0, <1>1, <3>0, <4>1, HandOf
      <4>3. job'[c].req = Hand(c)
        BY <1>0, <1>1, <3>3, <4>1, HandOf DEF TurnOf
      <4> QED BY <3>0, <3>1, <4>2, <4>3 DEF Stayers
    <3> QED BY <3>2, <3>3
  <2>3. ASSUME pc'[c] = "gone", user[s] # "over" PROVE Wedged'
    <3>1. IsEnded(c)
      BY <2>1, <2>3 DEF GoesOn, IsDone
    <3>2. pc[c] # "peek"
      <4>1. Placed(pc[c], job[c]) /\ job[c].req.cmd \notin {"MAP", "PENDING"}
        BY <1>0, <1>1 DEF Served, Queued
      <4> QED BY <4>1 DEF Placed
    <3>3. ~ PeerGone(c)
      BY <1>1, <2>3 DEF PeerGone, Main
    <3>4. job[c].req.cmd # "EXIT"
      BY <1>1, <2>3 DEF Parting
    <3>5. mutex' = c
      BY <3>1, <3>2, <3>3, <3>4 DEF IsEnded
    <3> QED BY <2>3, <3>5 DEF Wedged
  <2> QED BY <1>1, <2>2, <2>3 DEF Parting
<1>2. CASE c # Main(s)
  <2>1. /\ pc'[Main(s)] = pc[Main(s)] /\ job'[Main(s)] = job[Main(s)]
        /\ inbound'[Main(s)] = inbound[Main(s)]
    BY <1>0, <1>2, AnotherTurn
  <2>2. Wedged => Wedged'
    BY WedgedServe
  <2> QED BY <2>1, <2>2 DEF Parting
<1> QED BY <1>1, <1>2

\* Only a client that is over has sent EXIT.
LEMMA PartingClient ==
  ASSUME Talk, Parting, NEW s \in Sessions, Client(s)
  PROVE  Parting'
<1>0. Queued /\ Guests /\ Spoken(s) /\ Elsewhere(s)
  BY ClientSpeaks DEF Talk
<1> SUFFICES ASSUME NEW t \in Sessions
             PROVE  /\ user'[t] # "over" => job'[Main(t)].req.cmd # "EXIT" /\ inbound'[Main(t)] \in Seq(Stayers)
                    /\ pc'[Main(t)] = "gone" => user'[t] = "over" \/ Wedged'
                    /\ asked'[t].cmd \in Answered \cup {"NONE", "AUTHENTICATE_WORDS"}
  BY DEF Parting, Stayers
<1>1. Wedged => Wedged'
  BY WedgedClient
<1>2. CASE t # s
  BY <1>0, <1>1, <1>2 DEF Elsewhere, Parting
<1>3. CASE t = s
  <2>1. CASE Parts(s)
    BY <1>3, <2>1 DEF Parts, NoRequest
  <2>2. CASE ~ Parts(s)
    <3>1. user[s] # "over"
      BY <1>0, <2>2 DEF Spoken, Enquires, Stalls, IsTold, Chats
    <3>2. job[Main(s)].req.cmd # "EXIT" /\ inbound[Main(s)] \in Seq(Stayers)
      BY <3>1 DEF Parting
    <3>3. job'[Main(s)].req.cmd # "EXIT"
      <4>1. job'[Main(s)] = job[Main(s)] \/ job'[Main(s)] = NoJob
        BY <1>0, <2>2 DEF Spoken, Enquires, Stalls, IsTold, Chats, SameThread
      <4> QED BY <3>2, <4>1, NoJobTyped DEF NoRequest
    <3>4. inbound'[Main(s)] \in Seq(Stayers)
      <4>1. \/ inbound'[Main(s)] = inbound[Main(s)]
            \/ \E req \in Stayers : inbound'[Main(s)] = Append(inbound[Main(s)], req)
        BY <1>0, <2>2 DEF Spoken, Enquires, Stalls, IsTold, Chats, Writes, Stayers
      <4> QED BY <3>2, <4>1, Appended
    <3>5. pc'[Main(s)] = "gone" => Wedged'
      <4>1. pc'[Main(s)] = "reading" \/ pc'[Main(s)] = pc[Main(s)]
        BY <1>0, <2>2 DEF Spoken, Enquires, Stalls, IsTold, Chats, SameThread
      <4> QED BY <1>1, <3>1, <4>1 DEF Parting
    <3>6. asked'[s].cmd \in Answered \cup {"NONE", "AUTHENTICATE_WORDS"}
      BY <1>0, <2>2 DEF Spoken, Enquires, Stalls, IsTold, Chats, Parting, Answered, NoRequest
    <3> QED BY <1>3, <3>3, <3>4, <3>5, <3>6
  <2> QED BY <2>1, <2>2
<1> QED BY <1>2, <1>3

\* After a crash there is nothing left to read.
LEMMA PartingCrash ==
  ASSUME Talk, Crash
  PROVE  Parting'
<1>1. /\ Guests /\ pc' = [c \in Threads |-> IF pc[c] = "none" THEN "none" ELSE "gone"]
      /\ job' = [c \in Threads |-> NoJob] /\ inbound' = [c \in Threads |-> << >>]
      /\ user' = [s \in Sessions |-> IF user[s] = "off" THEN "off" ELSE "over"]
      /\ asked' = [s \in Sessions |-> NoRequest]
  BY DEF Talk, Crash
<1>2. NoRequest.cmd = "NONE" /\ NoJob.req = NoRequest
  BY NoJobTyped DEF NoRequest
<1> SUFFICES ASSUME NEW s \in Sessions
             PROVE  /\ job'[Main(s)].req.cmd # "EXIT" /\ inbound'[Main(s)] \in Seq(Stayers)
                    /\ pc'[Main(s)] = "gone" => user'[s] = "over"
                    /\ asked'[s].cmd = "NONE"
  BY DEF Parting, Stayers
<1>3. inbound'[Main(s)] \in Seq(Stayers)
  BY <1>1, Ends, EmptySeq
<1>4. pc'[Main(s)] = "gone" => user'[s] = "over"
  BY <1>1, Ends DEF Guests
<1> QED BY <1>1, <1>2, <1>3, <1>4, Ends

\* A request in hand that is to be answered is at work next, or is answered.
LEMMA HandAnswered ==
  ASSUME NEW s \in Sessions, NEW c, c = Main(s), c[1] = s, user[s] # "over", UNCHANGED asked,
         Hand(c) = asked[s], Hand(c).cmd \in Answered, Hand(c).cmd # "MAP",
         GoesOn(c) \/ IsDone(c), Placed(pc'[c], job'[c]), mail[s] \in Seq(Letter)
  PROVE  mail'[s] # << >> \/ AtWork(Main(s), asked[s])'
<1>1. CASE GoesOn(c)
  <2>1. job'[c].req = asked[s] /\ pc'[c] \in {"groups", "sending", "peek", "save", "saving"}
    BY <1>1 DEF GoesOn
  <2>2. pc'[c] \notin {"sending", "peek"}
    BY <2>1 DEF Placed, Answered
  <2>3. pc'[c] # "groups" => job'[c].replies # << >>
    <3> SUFFICES ASSUME pc'[c] # "groups" PROVE job'[c].replies # << >>
      OBVIOUS
    <3>1. PICK replies : replies = job'[c].replies
      OBVIOUS
    <3>2. job'[c].req.cmd \in Answered /\ pc'[c] \in {"save", "saving"}
      BY <2>1, <2>2
    <3>3. Len(replies) = 1
      BY <3>1, <3>2 DEF Placed
    <3>4. Len(<< >>) = 0 /\ 0 # 1
      OBVIOUS
    <3>5. replies # << >>
      BY <3>3, <3>4, Zenon
    <3> QED BY <3>1, <3>5
  <2> QED BY <2>1, <2>2, <2>3 DEF AtWork
<1>2. CASE IsDone(c)
  <2>1. PICK all \in Seq({m \in Letter : m.cmd = Hand(c).cmd}) : all # << >> /\ mail'[s] = mail[s] \o all
    BY <1>2 DEF IsDone
  <2>2. Len(mail'[s]) = Len(mail[s]) + Len(all)
    BY <2>1, LettersAppended
  <2>3. Len(all) \in Nat \ {0} /\ Len(mail[s]) \in Nat
    BY <2>1, HeadTail, LenProperties
  <2>4. Len(mail'[s]) # 0
    BY <2>2, <2>3
  <2> QED BY <2>4
<1> QED BY <1>1, <1>2

\* The request that waits is the last on the connection, until it is read.
LEMMA LastTail ==
  ASSUME NEW S, NEW q \in Seq(S), q # << >>
  PROVE  \/ Head(q) = q[Len(q)] /\ Len(q) = 1
         \/ Tail(q) # << >> /\ Tail(q)[Len(Tail(q))] = q[Len(q)]
<1>1. PICK t : t = Tail(q)
  OBVIOUS
<1>2. /\ Len(q) \in Nat \ {0} /\ Len(t) = Len(q) - 1 /\ Head(q) = q[1] /\ t \in Seq(S)
      /\ \A k \in 1 .. Len(q) - 1 : t[k] = q[k + 1]
  BY <1>1, HeadTail
<1>3. CASE Len(q) = 1
  BY <1>2, <1>3
<1>4. CASE Len(q) # 1
  <2>1. Len(t) \in 1 .. Len(q) - 1 /\ Len(t) + 1 = Len(q) /\ Len(t) # 0
    BY <1>2, <1>4
  <2>2. t[Len(t)] = q[Len(q)]
    BY <1>2, <2>1
  <2>3. t # << >>
    BY <2>1
  <2> QED BY <1>1, <2>2, <2>3
<1> QED BY <1>3, <1>4

\* A turn forgets no request a client waits for.
LEMMA OwedTurn ==
  ASSUME Talk, Parting, Locks, Owed, NEW c \in Threads, Serve(c), Turn(c), TurnOf(c), Others(c), Served'
  PROVE  Owed'
<1>0. /\ Served /\ Queued /\ UNCHANGED << user, me, asked, chat, inbox >> /\ pc[c] \notin {"none", "gone"}
  BY ServeLeaves DEF Talk
<1> SUFFICES ASSUME NEW s \in Sessions, Waits(s)
             PROVE  \/ mail'[s] # << >>
                    \/ NotRead(Main(s), asked[s])' \/ AtWork(Main(s), asked[s])'
                    \/ Wedged'
  BY <1>0 DEF Owed, Waits
<1>1. /\ mail[s] # << >> \/ NotRead(Main(s), asked[s]) \/ AtWork(Main(s), asked[s]) \/ Wedged
      /\ Wedged => Wedged'
  BY WedgedServe DEF Owed
<1>2. CASE c # Main(s)
  <2>1. /\ pc'[Main(s)] = pc[Main(s)] /\ job'[Main(s)] = job[Main(s)]
        /\ inbound'[Main(s)] = inbound[Main(s)] /\ mail'[s] = mail[s]
    BY <1>0, <1>2, AnotherTurn
  <2> QED BY <1>0, <1>1, <2>1 DEF NotRead, AtWork
<1>3. CASE c = Main(s)
  <2>0. /\ c[1] = s /\ user[s] = "wait" /\ asked[s].cmd \in Answered
        /\ inbound[c] \in Seq(MainOrders) /\ mail[s] \in Seq(Letter)
        /\ Placed(pc[c], job[c]) /\ Placed(pc'[c], job'[c])
        /\ job[c].req.cmd \notin {"MAP", "PENDING", "EXIT"}
    BY <1>0, <1>3, EndIsOf DEF Waits, Parting, Queued, Served
  <2>1. GoesOn(c) \/ IsDone(c) \/ IsEnded(c)
    BY <1>0, TurnGoes
  <2>2. CASE mail[s] # << >>
    <3>1. CASE mail'[s] = mail[s]
      BY <2>2, <3>1
    <3>2. CASE mail'[s] # mail[s]
      <4>1. PICK all \in Seq({m \in Letter : m.cmd = Hand(c).cmd}) : mail'[s] = mail[s] \o all
        BY <2>0, <3>2 DEF TurnOf
      <4>2. Len(mail'[s]) = Len(mail[s]) + Len(all) /\ Len(all) \in Nat
        BY <2>0, <4>1, LettersAppended, LenProperties
      <4>3. Len(mail[s]) \in Nat \ {0}
        BY <2>0, <2>2, HeadTail
      <4>4. Len(mail'[s]) # 0
        BY <4>2, <4>3
      <4> QED BY <4>4
    <3> QED BY <3>1, <3>2
  <2>3. CASE IsEnded(c) /\ ~ Wedged /\ mail[s] = << >>
    <3>1. pc'[c] = "gone" /\ pc[c] # "peek"
      BY <2>0, <2>3 DEF IsEnded, Placed
    <3>2. ~ PeerGone(c) /\ job[c].req.cmd # "EXIT"
      BY <1>3, <2>0 DEF PeerGone, Main
    <3>3. mutex' = c
      BY <2>3, <3>1, <3>2 DEF IsEnded
    <3> QED BY <3>1, <3>3 DEF Wedged
  <2>4. CASE ~ IsEnded(c) /\ NotRead(c, asked[s])
    <3>1. inbound[c] # << >> /\ inbound[c][Len(inbound[c])] = asked[s]
      BY <2>4 DEF NotRead
    <3>2. pc'[c] \notin {"none", "gone"} /\ Consumed(c)
      BY <2>1, <2>4 DEF GoesOn, IsDone
    <3>3. CASE inbound'[c] = inbound[c]
      BY <1>0, <1>3, <3>1, <3>2, <3>3 DEF NotRead
    <3>4. CASE inbound'[c] # inbound[c]
      <4>1. pc[c] = "reading" /\ inbound'[c] = Tail(inbound[c]) /\ Hand(c) = Head(inbound[c])
        BY <3>2, <3>4 DEF Consumed, Hand
      <4>2. CASE inbound'[c] # << >> /\ inbound'[c][Len(inbound'[c])] = asked[s]
        BY <1>0, <1>3, <3>2, <4>2 DEF NotRead
      <4>3. CASE ~ (inbound'[c] # << >> /\ inbound'[c][Len(inbound'[c])] = asked[s])
        <5>1. Hand(c) = asked[s]
          BY <2>0, <3>1, <4>1, <4>3, LastTail
        <5>2. Hand(c).cmd \in Answered /\ Hand(c).cmd # "MAP"
          BY <2>0, <5>1 DEF Answered
        <5> QED BY <1>0, <1>3, <2>0, <2>1, <2>4, <5>1, <5>2, HandAnswered
      <4> QED BY <4>2, <4>3
    <3> QED BY <3>3, <3>4
  <2>5. CASE ~ IsEnded(c) /\ AtWork(c, asked[s])
    <3>1. Hand(c) = asked[s]
      BY <2>5 DEF AtWork, Hand
    <3>2. Hand(c).cmd \in Answered /\ Hand(c).cmd # "MAP"
      BY <2>0, <3>1 DEF Answered
    <3> QED BY <1>0, <1>3, <2>0, <2>1, <2>5, <3>1, <3>2, HandAnswered
  <2> QED BY <1>1, <1>3, <2>2, <2>3, <2>4, <2>5
<1> QED BY <1>2, <1>3

\* A step of a client forgets no request another waits for, and its own is not read yet.
LEMMA OwedClient ==
  ASSUME Talk, Parting, Owed, NEW s \in Sessions, Client(s)
  PROVE  Owed'
<1>0. /\ Served /\ Queued /\ Guests /\ Spoken(s) /\ Elsewhere(s) /\ (Wedged => Wedged')
  BY ClientSpeaks, WedgedClient DEF Talk
<1> SUFFICES ASSUME NEW t \in Sessions, Waits(t)'
             PROVE  \/ mail'[t] # << >>
                    \/ NotRead(Main(t), asked[t])' \/ AtWork(Main(t), asked[t])'
                    \/ Wedged'
  BY DEF Owed
<1>1. CASE t # s
  <2>1. /\ user'[t] = user[t] /\ asked'[t] = asked[t] /\ mail'[t] = mail[t]
        /\ pc'[Main(t)] = pc[Main(t)] /\ job'[Main(t)] = job[Main(t)] /\ inbound'[Main(t)] = inbound[Main(t)]
    BY <1>0, <1>1 DEF Elsewhere
  <2> QED BY <1>0, <2>1 DEF Owed, Waits, NotRead, AtWork
<1>2. CASE t = s
  <2>1. Enquires(s)
    BY <1>0, <1>2 DEF Waits, Spoken, Stalls, IsTold, Chats, Parts, NoRequest
  <2>2. /\ inbound[Main(s)] \in Seq(Requested) /\ asked'[s] \in Requested
        /\ inbound'[Main(s)] = Append(inbound[Main(s)], asked'[s])
    <3>1. inbound[Main(s)] \in Seq(Requested)
      <4>1. inbound[Main(s)] \in Seq(MainOrders) /\ MainOrders \subseteq Requested
        BY <1>0 DEF Queued, MainOrders
      <4> QED BY <4>1, SeqLarger
    <3> QED BY <2>1, <3>1 DEF Enquires, Writes
  <2>3. /\ inbound'[Main(s)] # << >> /\ inbound'[Main(s)][Len(inbound'[Main(s)])] = asked'[s]
    BY <2>2, Appended
  <2>4. pc'[Main(s)] \notin {"none", "gone"} \/ Wedged
    BY <1>0, <2>1 DEF Enquires, SameThread, Guests, Parting
  <2> QED BY <1>0, <1>2, <2>3, <2>4 DEF NotRead
<1> QED BY <1>1, <1>2

\* While a client waits, its request is on the way, in work or answered, or a dead
\* thread has the mutex: nothing else makes the server forget a request.
THEOREM OwedHolds == Spec => []Owed
<1>1. Init => Parting /\ Owed
  <2> SUFFICES ASSUME Init PROVE Parting /\ Owed
    OBVIOUS
  <2>1. NoJob.req.cmd = "NONE" /\ NoRequest.cmd = "NONE"
    BY NoJobTyped DEF NoRequest
  <2>2. \A s \in Sessions : inbound[Main(s)] = << >> /\ pc[Main(s)] = "none" /\ job[Main(s)] = NoJob
                            /\ asked[s] = NoRequest /\ user[s] = "off"
    BY Ends DEF Init
  <2>3. \A s \in Sessions : inbound[Main(s)] \in Seq(Stayers)
    BY <2>2, EmptySeq
  <2> QED BY <2>1, <2>2, <2>3 DEF Parting, Owed, Waits
<1>2. Structure /\ FitFiles /\ Talk /\ Parting /\ Owed /\ [Next]_vars => Parting' /\ Owed'
  <2> SUFFICES ASSUME Structure, FitFiles, Talk, Parting, Owed, [Next]_vars
               PROVE  Parting' /\ Owed'
    OBVIOUS
  <2>0. Locks
    BY DEF Structure
  <2>1. ASSUME NEW c \in Threads, Serve(c) PROVE Parting' /\ Owed'
    <3>1. pc[c] \notin {"none", "gone"}
      BY <2>1, ServeLeaves
    <3>2. Turn(c)
      BY <2>1, ServeTurns DEF Talk
    <3>3. Served' /\ TurnOf(c) /\ Others(c)
      BY <3>1, <3>2, TurnIs DEF Talk
    <3> QED BY <2>0, <2>1, <3>2, <3>3, PartingTurn, OwedTurn
  <2>2. ASSUME NEW s \in Sessions, Client(s) PROVE Parting' /\ Owed'
    BY <2>2, PartingClient, OwedClient
  <2>3. CASE Crash
    <3>1. Owed'
      <4>1. \A s \in Sessions : user'[s] \in {"off", "over"}
        BY <2>3 DEF Crash
      <4> QED BY <4>1 DEF Owed, Waits
    <3> QED BY <2>3, <3>1, PartingCrash
  <2>4. CASE UNCHANGED vars
    <3>1. UNCHANGED << pc, job, inbound, mail, user, asked, mutex >>
      BY <2>4 DEF vars, serverVars, sharedVars, clientVars
    <3> QED BY <3>1 DEF Parting, Owed, Waits, NotRead, AtWork, Wedged
  <2> QED BY <2>1, <2>2, <2>3, <2>4 DEF Next
<1> QED BY <1>1, <1>2, StructureHolds, FitFilesHolds, TalkHolds, PTL DEF Spec
=============================================================================
