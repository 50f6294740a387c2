---------------------------- MODULE ChatappProofs ----------------------------
(***************************************************************************)
(* Proofs about ChatappServer, for every value of the constants.           *)
(*                                                                         *)
(* FriendshipsSound: the operators on accounts keep a document sound, so   *)
(* every copy that goes to be written is sound when the file it was parsed *)
(* from was, however old the copy is.  The mutex plays no part.            *)
(*                                                                         *)
(* WedgedOnlyByCrash and TornStays: a file is torn while the thread that   *)
(* writes it has the mutex, or since a crash.                              *)
(***************************************************************************)
EXTENDS ChatappServer, SequenceTheorems, TLAPS

-----------------------------------------------------------------------------
(* Documents of accounts. *)

Fields(a) == a = [name |-> a.name, password |-> a.password, online |-> a.online,
                  friends |-> a.friends, asked |-> a.asked, requests |-> a.requests]

Shaped(users) ==
  /\ users = [i \in DOMAIN users |-> users[i]]
  /\ \A i \in DOMAIN users : Fields(users[i]) /\ users[i].friends \in Seq(DOMAIN users)

Fit(users) == Shaped(users) /\ Sound(users)

Distinct(f) == \A j, k \in DOMAIN f : f[j] = f[k] => j = k

\* A sequence of distinct ids with one more at its end.
LEMMA AppendDistinct ==
  ASSUME NEW S, NEW f \in Seq(S), NEW x \in S
  PROVE  /\ Append(f, x) \in Seq(S)
         /\ {Append(f, x)[k] : k \in DOMAIN Append(f, x)} = {f[k] : k \in DOMAIN f} \cup {x}
         /\ Distinct(f) /\ x \notin {f[k] : k \in DOMAIN f} => Distinct(Append(f, x))
<1> DEFINE g == Append(f, x)
<1>1. /\ g \in Seq(S) /\ Len(f) \in Nat /\ Len(g) = Len(f) + 1
      /\ DOMAIN f = 1 .. Len(f) /\ DOMAIN g = 1 .. Len(f) + 1
  BY AppendProperties, LenProperties
<1>2. (\A k \in 1 .. Len(f) : g[k] = f[k]) /\ g[Len(f) + 1] = x
  BY AppendProperties
<1> HIDE DEF g
<1>3. DOMAIN g = DOMAIN f \cup {Len(f) + 1} /\ Len(f) + 1 \notin DOMAIN f
  BY <1>1
<1>4. {g[k] : k \in DOMAIN g} = {f[k] : k \in DOMAIN f} \cup {x}
  BY <1>1, <1>2, <1>3
<1>5. Distinct(f) /\ x \notin {f[k] : k \in DOMAIN f} => Distinct(g)
  BY <1>1, <1>2, <1>3 DEF Distinct
<1> QED BY <1>1, <1>4, <1>5 DEF g

\* A sequence of members of a set is one of members of a larger set.
LEMMA SeqLarger == ASSUME NEW S, NEW T, S \subseteq T, NEW f \in Seq(S) PROVE f \in Seq(T)
<1>1. f \in [1 .. Len(f) -> S] /\ Len(f) \in Nat
  BY LenProperties
<1>2. f \in [1 .. Len(f) -> T]
  BY <1>1
<1> QED BY <1>1, <1>2

\* What users[id] is, when it is there and when it is created.
LEMMA AtFits ==
  ASSUME NEW users, Fit(users), NEW id
  PROVE  /\ Fields(At(users, id)) /\ At(users, id).friends \in Seq(DOMAIN users)
         /\ FriendsOf(At(users, id)) \subseteq DOMAIN users \ {id}
         /\ At(users, id).requests \subseteq DOMAIN users \ {id}
         /\ id \notin DOMAIN users =>
              /\ FriendsOf(At(users, id)) = {} /\ At(users, id).requests = {}
              /\ At(users, id).friends = << >>
<1>1. CASE id \in DOMAIN users
  BY <1>1 DEF Fit, Shaped, Sound, Closed, At
<1>2. CASE id \notin DOMAIN users
  <2>1. At(users, id) = Missing
    BY <1>2 DEF At
  <2>2. Fields(Missing) /\ Missing.friends = << >> /\ Missing.requests = {}
    BY DEF Missing, Fields
  <2>3. FriendsOf(Missing) = {}
    BY <2>2 DEF FriendsOf
  <2>4. << >> \in Seq(DOMAIN users)
    OBVIOUS
  <2> QED BY <1>2, <2>1, <2>2, <2>3, <2>4
<1> QED BY <1>1, <1>2

\* An account changed in what is neither a friend nor a request, or a new one.
LEMMA TouchFits ==
  ASSUME NEW users, Fit(users), NEW id, NEW a, Fields(a),
         a.friends = At(users, id).friends, a.asked = At(users, id).asked,
         a.requests = At(users, id).requests
  PROVE  Fit(Put(users, id, a)) /\ DOMAIN Put(users, id, a) = DOMAIN users \cup {id}
<1> DEFINE new == Put(users, id, a)
<1>1. /\ DOMAIN new = DOMAIN users \cup {id} /\ new[id] = a
      /\ \A i \in DOMAIN users : i # id => new[i] = users[i]
      /\ new = [i \in DOMAIN new |-> new[i]]
  BY DEF Put
<1>2. FriendsOf(a) = FriendsOf(At(users, id))
  BY DEF FriendsOf
<1> HIDE DEF new
<1>3. Shaped(new)
  <2> SUFFICES ASSUME NEW i \in DOMAIN new
               PROVE  Fields(new[i]) /\ new[i].friends \in Seq(DOMAIN new)
    BY <1>1 DEF Shaped
  <2>1. CASE i = id
    BY <2>1, <1>1, AtFits, SeqLarger
  <2>2. CASE i # id
    <3>1. i \in DOMAIN users /\ new[i] = users[i]
      BY <2>2, <1>1
    <3>2. Fields(users[i]) /\ users[i].friends \in Seq(DOMAIN users)
      BY <3>1 DEF Fit, Shaped
    <3> QED BY <3>1, <3>2, <1>1, SeqLarger
  <2> QED BY <2>1, <2>2
<1>4. \A i \in DOMAIN new :
        /\ FriendsOf(new[i]) = FriendsOf(At(users, i)) /\ new[i].friends = At(users, i).friends
        /\ new[i].requests = At(users, i).requests /\ new[i].asked = At(users, i).asked
  BY <1>1, <1>2 DEF At
<1>5. \A i : i \notin DOMAIN users =>
        /\ FriendsOf(At(users, i)) = {} /\ At(users, i).requests = {} /\ At(users, i).friends = << >>
  BY AtFits
<1>6. \A i \in DOMAIN users : At(users, i) = users[i]
  BY DEF At
<1>7. Closed(new)
  BY <1>1, <1>4, AtFits DEF Closed
<1>8. Once(new)
  BY <1>1, <1>4, <1>5, <1>6 DEF Once, Fit, Sound
<1>9. Mutual(new)
  BY <1>1, <1>4, <1>5, <1>6, AtFits DEF Mutual, Fit, Sound
<1>10. OneWay(new)
  BY <1>1, <1>4, <1>5, <1>6, AtFits DEF OneWay, Fit, Sound
<1>11. Listed(new)
  BY <1>1, <1>4, <1>5, <1>6 DEF Listed, Fit, Sound
<1> QED BY <1>1, <1>3, <1>7, <1>8, <1>9, <1>10, <1>11 DEF Fit, Sound, new

\* An account with a field changed is an account.
LEMMA FieldKept ==
  ASSUME NEW a, Fields(a), NEW v
  PROVE  /\ [a EXCEPT !.asked = v] =
              [name |-> a.name, password |-> a.password, online |-> a.online,
               friends |-> a.friends, asked |-> v, requests |-> a.requests]
         /\ [a EXCEPT !.requests = v] =
              [name |-> a.name, password |-> a.password, online |-> a.online,
               friends |-> a.friends, asked |-> a.asked, requests |-> v]
         /\ [a EXCEPT !.friends = v] =
              [name |-> a.name, password |-> a.password, online |-> a.online,
               friends |-> v, asked |-> a.asked, requests |-> a.requests]
         /\ [a EXCEPT !.online = v] =
              [name |-> a.name, password |-> a.password, online |-> v,
               friends |-> a.friends, asked |-> a.asked, requests |-> a.requests]
<1>1. PICK n, p, o, g, k, q :
        a = [name |-> n, password |-> p, online |-> o, friends |-> g, asked |-> k, requests |-> q]
  BY DEF Fields
<1> QED BY <1>1

\* What a changed account holds.
LEMMA RecordFields ==
  ASSUME NEW n, NEW p, NEW o, NEW g, NEW k, NEW q, NEW b,
         b = [name |-> n, password |-> p, online |-> o, friends |-> g, asked |-> k, requests |-> q]
  PROVE  Fields(b) /\ b.friends = g /\ b.asked = k /\ b.requests = q
BY DEF Fields

\* An account with a field changed has the seven fields still.
LEMMA FieldsKept ==
  ASSUME NEW a, Fields(a), NEW v, NEW b
  PROVE  /\ b = [a EXCEPT !.asked = v] =>
              Fields(b) /\ b.friends = a.friends /\ b.asked = v /\ b.requests = a.requests
         /\ b = [a EXCEPT !.requests = v] =>
              Fields(b) /\ b.friends = a.friends /\ b.asked = a.asked /\ b.requests = v
         /\ b = [a EXCEPT !.friends = v] =>
              Fields(b) /\ b.friends = v /\ b.asked = a.asked /\ b.requests = a.requests
         /\ b = [a EXCEPT !.online = v] =>
              Fields(b) /\ b.friends = a.friends /\ b.asked = a.asked /\ b.requests = a.requests
<1>1. ASSUME b = [a EXCEPT !.asked = v]
      PROVE  Fields(b) /\ b.friends = a.friends /\ b.asked = v /\ b.requests = a.requests
  <2>1. b = [name |-> a.name, password |-> a.password, online |-> a.online,
             friends |-> a.friends, asked |-> v, requests |-> a.requests]
    BY <1>1, FieldKept
  <2> QED BY <2>1, RecordFields
<1>2. ASSUME b = [a EXCEPT !.requests = v]
      PROVE  Fields(b) /\ b.friends = a.friends /\ b.asked = a.asked /\ b.requests = v
  <2>1. b = [name |-> a.name, password |-> a.password, online |-> a.online,
             friends |-> a.friends, asked |-> a.asked, requests |-> v]
    BY <1>2, FieldKept
  <2> QED BY <2>1, RecordFields
<1>3. ASSUME b = [a EXCEPT !.friends = v]
      PROVE  Fields(b) /\ b.friends = v /\ b.asked = a.asked /\ b.requests = a.requests
  <2>1. b = [name |-> a.name, password |-> a.password, online |-> a.online,
             friends |-> v, asked |-> a.asked, requests |-> a.requests]
    BY <1>3, FieldKept
  <2> QED BY <2>1, RecordFields
<1>4. ASSUME b = [a EXCEPT !.online = v]
      PROVE  Fields(b) /\ b.friends = a.friends /\ b.asked = a.asked /\ b.requests = a.requests
  <2>1. b = [name |-> a.name, password |-> a.password, online |-> v,
             friends |-> a.friends, asked |-> a.asked, requests |-> a.requests]
    BY <1>4, FieldKept
  <2> QED BY <2>1, RecordFields
<1> QED BY <1>1, <1>2, <1>3, <1>4

\* Two or three fields changed at once are changed one after the other.
LEMMA FieldByField ==
  ASSUME NEW a, Fields(a), NEW t, NEW r, NEW f
  PROVE  /\ [a EXCEPT !.asked = t, !.requests = r] = [[a EXCEPT !.asked = t] EXCEPT !.requests = r]
         /\ [a EXCEPT !.asked = t, !.requests = r, !.friends = f] =
              [[[a EXCEPT !.asked = t] EXCEPT !.requests = r] EXCEPT !.friends = f]
         /\ [a EXCEPT !.name = t, !.password = r, !.online = f] =
              [[[a EXCEPT !.name = t] EXCEPT !.password = r] EXCEPT !.online = f]
OBVIOUS

\* A request from id that is left with another account.
LEMMA RequestFits ==
  ASSUME NEW users, Fit(users), NEW id \in DOMAIN users, NEW other \in DOMAIN users \ {id},
         other \notin FriendsOf(users[id]), other \notin users[id].requests,
         NEW R, R \subseteq users[other].requests \cup {id}
  PROVE  Fit(Put(users, other, [users[other] EXCEPT !.asked = TRUE, !.requests = R]))
<1> DEFINE a   == [users[other] EXCEPT !.asked = TRUE, !.requests = R]
           new == Put(users, other, a)
<1>1. /\ DOMAIN new = DOMAIN users /\ new[other] = a
      /\ \A i \in DOMAIN users : i # other => new[i] = users[i]
      /\ new = [i \in DOMAIN new |-> new[i]]
  BY DEF Put
<1>2. Fields(users[other])
  BY DEF Fit, Shaped
<1>3. /\ Fields(a) /\ a.friends = users[other].friends /\ a.requests = R /\ a.asked = TRUE
  <2> DEFINE b == [users[other] EXCEPT !.asked = TRUE]
  <2>1. /\ Fields(b) /\ b.asked = TRUE /\ b.friends = users[other].friends
        /\ a = [b EXCEPT !.requests = R]
    BY <1>2, FieldsKept, FieldByField
  <2> HIDE DEF a, b
  <2> QED BY <2>1, FieldsKept
<1>4. FriendsOf(a) = FriendsOf(users[other])
  BY <1>3 DEF FriendsOf
<1> HIDE DEF a, new
<1>5. Shaped(new)
  BY <1>1, <1>3 DEF Shaped, Fit
<1>6. /\ Closed(users) /\ Once(users) /\ Mutual(users) /\ OneWay(users) /\ Listed(users)
  BY DEF Fit, Sound
<1>7. \A i \in DOMAIN new : /\ FriendsOf(new[i]) = FriendsOf(users[i])
                            /\ new[i].friends = users[i].friends
  BY <1>1, <1>3, <1>4
<1>8. id \notin FriendsOf(users[other])
  BY <1>6 DEF Mutual
<1>9. Closed(new)
  <2> SUFFICES ASSUME NEW i \in DOMAIN new
               PROVE  /\ FriendsOf(new[i]) \subseteq DOMAIN new \ {i}
                      /\ new[i].requests \subseteq DOMAIN new \ {i}
    BY DEF Closed
  <2>1. CASE i = other
    BY <2>1, <1>1, <1>3, <1>4, <1>6 DEF Closed
  <2>2. CASE i # other
    BY <2>2, <1>1, <1>6 DEF Closed
  <2> QED BY <2>1, <2>2
<1>10. Once(new)
  BY <1>1, <1>6, <1>7 DEF Once
<1>11. Mutual(new)
  BY <1>1, <1>6, <1>7 DEF Mutual, Closed
<1>12. OneWay(new)
  <2> SUFFICES ASSUME NEW i \in DOMAIN new, NEW j \in new[i].requests
               PROVE  j \notin FriendsOf(new[i]) /\ i \notin new[j].requests
    BY DEF OneWay
  <2>1. j \in users[i].requests \/ (i = other /\ j = id)
    BY <1>1, <1>3
  <2>2. j \in DOMAIN users /\ j # i
    BY <2>1, <1>1, <1>6 DEF Closed
  <2>3. j \notin FriendsOf(users[i])
    BY <2>1, <1>1, <1>6, <1>8 DEF OneWay
  <2>4. i \notin users[j].requests
    BY <2>1, <1>1, <1>6 DEF OneWay
  <2>5. i \notin new[j].requests
    <3>1. CASE j = other
      <4>1. i # id
        BY <3>1, <2>1, <2>2
      <4> QED BY <3>1, <4>1, <2>4, <1>1, <1>3
    <3>2. CASE j # other
      BY <3>2, <2>2, <2>4, <1>1
    <3> QED BY <3>1, <3>2
  <2> QED BY <2>3, <2>5, <1>7
<1>13. Listed(new)
  BY <1>1, <1>3, <1>6 DEF Listed
<1> QED BY <1>5, <1>9, <1>10, <1>11, <1>12, <1>13 DEF Fit, Sound, new, a

\* Two accounts that become friends.
LEMMA AcceptFits ==
  ASSUME NEW users, Fit(users), NEW id \in DOMAIN users, NEW other \in users[id].requests
  PROVE  Fit(Accepted(users, id, other))
<1> DEFINE it  == [users[id] EXCEPT !.asked = TRUE, !.requests = @ \ {other},
                                    !.friends = Append(@, other)]
           you == [users[other] EXCEPT !.friends = Append(@, id)]
           new == Put(Put(users, id, it), other, you)
<1>1. /\ Closed(users) /\ Once(users) /\ Mutual(users) /\ OneWay(users) /\ Listed(users)
  BY DEF Fit, Sound
<1>2. other \in DOMAIN users /\ other # id
  BY <1>1 DEF Closed
<1>3. Accepted(users, id, other) = new
  BY <1>2 DEF Accepted, At
<1>4. /\ DOMAIN new = DOMAIN users /\ new[id] = it /\ new[other] = you
      /\ \A i \in DOMAIN users \ {id, other} : new[i] = users[i]
      /\ new = [i \in DOMAIN new |-> new[i]]
  BY <1>2 DEF Put
<1>5. /\ Fields(users[id]) /\ users[id].friends \in Seq(DOMAIN users)
      /\ Fields(users[other]) /\ users[other].friends \in Seq(DOMAIN users)
  BY <1>2 DEF Fit, Shaped
<1>6. /\ Fields(it) /\ it.friends = Append(users[id].friends, other)
      /\ it.requests = users[id].requests \ {other} /\ it.asked = TRUE
  <2> DEFINE x == users[id]
             b == [x EXCEPT !.asked = TRUE]
             R == users[id].requests \ {other}
             d == [b EXCEPT !.requests = R]
             F == Append(users[id].friends, other)
  <2>0. Fields(x)
    BY <1>5
  <2>2. it = [d EXCEPT !.friends = F]
    BY <1>5, FieldByField
  <2> HIDE DEF x
  <2>1. Fields(b) /\ b.asked = TRUE
    BY <2>0, FieldsKept
  <2> HIDE DEF it, b, R, d, F
  <2>3. Fields(d) /\ d.asked = TRUE /\ d.requests = R
    BY <2>1, FieldsKept DEF d
  <2>4. Fields(it) /\ it.asked = TRUE /\ it.requests = R /\ it.friends = F
    BY <2>2, <2>3, FieldsKept
  <2> QED BY <2>4 DEF R, F
<1>7. /\ Fields(you) /\ you.friends = Append(users[other].friends, id)
      /\ you.requests = users[other].requests /\ you.asked = users[other].asked
  <2> DEFINE x == users[other]
             F == Append(x.friends, id)
  <2>1. Fields(x) /\ you = [x EXCEPT !.friends = F]
    BY <1>5
  <2> HIDE DEF you, F, x
  <2>2. Fields(you) /\ you.friends = F /\ you.requests = x.requests /\ you.asked = x.asked
    BY <2>1, FieldsKept
  <2> QED BY <2>2 DEF F, x
<1> HIDE DEF it, you, new
<1>8. /\ other \notin FriendsOf(users[id]) /\ id \notin users[other].requests
      /\ id \notin FriendsOf(users[other])
  BY <1>1, <1>2 DEF OneWay, Mutual
<1>9. /\ it.friends \in Seq(DOMAIN users)
      /\ FriendsOf(it) = FriendsOf(users[id]) \cup {other}
      /\ Distinct(users[id].friends) => Distinct(it.friends)
  <2> DEFINE f == users[id].friends
  <2>1. /\ Append(f, other) \in Seq(DOMAIN users)
        /\ {Append(f, other)[k] : k \in DOMAIN Append(f, other)} = {f[k] : k \in DOMAIN f} \cup {other}
        /\ Distinct(f) /\ other \notin {f[k] : k \in DOMAIN f} => Distinct(Append(f, other))
    BY <1>2, <1>5, AppendDistinct
  <2> QED BY <2>1, <1>6, <1>8 DEF FriendsOf
<1>10. /\ you.friends \in Seq(DOMAIN users)
       /\ FriendsOf(you) = FriendsOf(users[other]) \cup {id}
       /\ Distinct(users[other].friends) => Distinct(you.friends)
  <2> DEFINE f == users[other].friends
  <2>1. /\ Append(f, id) \in Seq(DOMAIN users)
        /\ {Append(f, id)[k] : k \in DOMAIN Append(f, id)} = {f[k] : k \in DOMAIN f} \cup {id}
        /\ Distinct(f) /\ id \notin {f[k] : k \in DOMAIN f} => Distinct(Append(f, id))
    BY <1>5, AppendDistinct
  <2> QED BY <2>1, <1>7, <1>8 DEF FriendsOf
<1>11. Shaped(new)
  <2> SUFFICES ASSUME NEW i \in DOMAIN new
               PROVE  Fields(new[i]) /\ new[i].friends \in Seq(DOMAIN new)
    BY <1>4 DEF Shaped
  <2> QED BY <1>4, <1>6, <1>7, <1>9, <1>10 DEF Fit, Shaped
<1>12. \A i \in DOMAIN new :
         /\ FriendsOf(new[i]) = FriendsOf(users[i])
                                \cup (IF i = id THEN {other} ELSE IF i = other THEN {id} ELSE {})
         /\ new[i].requests = IF i = id THEN users[i].requests \ {other} ELSE users[i].requests
  BY <1>2, <1>4, <1>6, <1>7, <1>9, <1>10
<1>13. Closed(new)
  <2> SUFFICES ASSUME NEW i \in DOMAIN new
               PROVE  /\ FriendsOf(new[i]) \subseteq DOMAIN new \ {i}
                      /\ new[i].requests \subseteq DOMAIN new \ {i}
    BY DEF Closed
  <2>1. /\ FriendsOf(users[i]) \subseteq DOMAIN users \ {i}
        /\ users[i].requests \subseteq DOMAIN users \ {i}
    BY <1>1, <1>4 DEF Closed
  <2>2. new[i].requests \subseteq DOMAIN new \ {i}
    BY <2>1, <1>4, <1>12
  <2>3. FriendsOf(new[i]) \subseteq DOMAIN new \ {i}
    BY <2>1, <1>2, <1>4, <1>12
  <2> QED BY <2>2, <2>3
<1>14. Once(new)
  <2>1. \A i \in DOMAIN users : Distinct(users[i].friends)
    BY <1>1 DEF Once, Distinct
  <2>2. \A i \in DOMAIN new : Distinct(new[i].friends)
    BY <2>1, <1>2, <1>4, <1>9, <1>10
  <2> QED BY <2>2 DEF Once, Distinct
<1>15. Mutual(new)
  <2> SUFFICES ASSUME NEW i \in DOMAIN new, NEW j \in FriendsOf(new[i])
               PROVE  i \in FriendsOf(new[j])
    BY DEF Mutual
  <2>1. CASE j \in FriendsOf(users[i])
    <3>1. j \in DOMAIN users /\ i \in FriendsOf(users[j])
      BY <2>1, <1>1, <1>4 DEF Mutual, Closed
    <3> QED BY <3>1, <1>4, <1>12
  <2>2. CASE (i = id /\ j = other) \/ (i = other /\ j = id)
    BY <2>2, <1>2, <1>4, <1>12
  <2> QED BY <2>1, <2>2, <1>12
<1>16. OneWay(new)
  <2> SUFFICES ASSUME NEW i \in DOMAIN new, NEW j \in new[i].requests
               PROVE  j \notin FriendsOf(new[i]) /\ i \notin new[j].requests
    BY DEF OneWay
  <2>1. j \in users[i].requests /\ i \in DOMAIN users /\ (i = id => j # other)
    BY <1>4, <1>12
  <2>2. j \in DOMAIN users /\ j \notin FriendsOf(users[i]) /\ i \notin users[j].requests
    BY <2>1, <1>1 DEF OneWay, Closed
  <2>3. ~ (i = other /\ j = id)
    BY <2>1, <1>8
  <2> QED BY <2>1, <2>2, <2>3, <1>4, <1>12
<1>17. Listed(new)
  BY <1>1, <1>2, <1>4, <1>6, <1>7 DEF Listed
<1> QED BY <1>3, <1>11, <1>13, <1>14, <1>15, <1>16, <1>17 DEF Fit, Sound

\* Signing in and out, and a new account under an id that is free.
LEMMA SignFits ==
  ASSUME NEW users, Fit(users), NEW id
  PROVE  Fit(SignedIn(users, id)) /\ Fit(SignedOut(users, id))
<1> DEFINE a == At(users, id)
<1>1. Fields(a)
  BY AtFits
<1>2. ASSUME NEW on, NEW b, b = [a EXCEPT !.online = on] PROVE Fit(Put(users, id, b))
  <2>1. Fields(b) /\ b.friends = a.friends /\ b.asked = a.asked /\ b.requests = a.requests
    BY <1>1, <1>2, FieldsKept
  <2> QED BY <2>1, TouchFits
<1>3. SignedIn(users, id) = Put(users, id, [a EXCEPT !.online = TRUE])
      /\ SignedOut(users, id) = Put(users, id, [a EXCEPT !.online = FALSE])
  BY DEF SignedIn, SignedOut
<1> HIDE DEF a
<1> QED BY <1>2, <1>3

\* The fields of the account REGISTER makes.
LEMMA NewAccountIs ==
  ASSUME NEW name, NEW password
  PROVE  NewAccount(name, password) =
           [name |-> name, password |-> password, online |-> TRUE,
            friends |-> << >>, asked |-> FALSE, requests |-> {}]
<1>1. ASSUME NEW m, Fields(m), NEW o
      PROVE  [m EXCEPT !.name = name, !.password = password, !.online = o] =
               [name |-> name, password |-> password, online |-> o,
                friends |-> m.friends, asked |-> m.asked, requests |-> m.requests]
  <2>1. PICK n, p, t, g, k, q :
          m = [name |-> n, password |-> p, online |-> t, friends |-> g, asked |-> k, requests |-> q]
    BY <1>1 DEF Fields
  <2> DEFINE x == [m EXCEPT !.name = name]
             y == [x EXCEPT !.password = password]
             z == [y EXCEPT !.online = o]
  <2>2. [m EXCEPT !.name = name, !.password = password, !.online = o] = z
    BY <1>1, FieldByField
  <2>3. x = [name |-> name, password |-> p, online |-> t,
             friends |-> g, asked |-> k, requests |-> q]
    BY <2>1
  <2> HIDE DEF x
  <2>4. y = [name |-> name, password |-> password, online |-> t,
             friends |-> g, asked |-> k, requests |-> q]
    BY <2>3
  <2> HIDE DEF y
  <2>5. z = [name |-> name, password |-> password, online |-> o,
             friends |-> g, asked |-> k, requests |-> q]
    BY <2>4
  <2> HIDE DEF z
  <2>6. m.friends = g /\ m.asked = k /\ m.requests = q
    BY <2>1, RecordFields
  <2> QED BY <2>2, <2>5, <2>6
<1>2. Fields(Missing) /\ Missing.friends = << >> /\ Missing.asked = FALSE /\ Missing.requests = {}
  BY RecordFields DEF Missing
<1> QED BY <1>1, <1>2 DEF NewAccount

\* REGISTER with a number nobody has keeps the accounts fit.
LEMMA RegisterFits ==
  ASSUME NEW users, Fit(users), NewId(users) \notin DOMAIN users, NEW name, NEW password
  PROVE  Fit(Registered(users, name, password))
<1> DEFINE id == NewId(users)
           a  == NewAccount(name, password)
<1>1. At(users, id) = Missing
  BY DEF At
<1>2. Missing.friends = << >> /\ Missing.asked = FALSE /\ Missing.requests = {}
  BY DEF Missing
<1>3. Fields(a) /\ a.friends = << >> /\ a.asked = FALSE /\ a.requests = {}
  <2>1. a = [name |-> name, password |-> password, online |-> TRUE,
             friends |-> << >>, asked |-> FALSE, requests |-> {}]
    BY NewAccountIs
  <2> HIDE DEF a
  <2> QED BY <2>1, RecordFields
<1>4. Registered(users, name, password) = Put(users, id, a)
  BY DEF Registered
<1>5. /\ a.friends = At(users, id).friends /\ a.asked = At(users, id).asked
      /\ a.requests = At(users, id).requests
  <2> HIDE DEF a, id
  <2> QED BY <1>1, <1>2, <1>3, Zenon
<1> HIDE DEF a, id
<1>6. Fields(a)
  BY <1>3
<1>7. Fit(Put(users, id, a))
  BY <1>5, <1>6, TouchFits
<1> QED BY <1>4, <1>7

\* A friend or a request that ADD writes.  The other account is there and is not the
\* user's own, being what Named returned.
LEMMA NamedIsAnother ==
  ASSUME NEW users, NEW name, NEW id
  PROVE  Named(users, name, id) \in DOMAIN users \ {id} \/ Named(users, name, id) = Nobody
BY DEF Named, OneOf, LastOf

\* ADD keeps the accounts fit, whether it asks or accepts.
LEMMA BefriendFits ==
  ASSUME NEW users, Fit(users), NEW id, NEW other \in DOMAIN users \ {id},
         AddWrites(users, id, other)
  PROVE  Fit(Befriended(users, id, other))
<1> DEFINE mine == At(users, id)
           u1   == Put(users, id, mine)
<1>1. Fields(mine)
  BY AtFits
<1>2. other \notin FriendsOf(mine)
  BY DEF AddWrites, Entries, FriendsOf
<1>3. CASE other \in mine.requests
  <2>1. id \in DOMAIN users /\ other \in users[id].requests
    BY <1>3, AtFits DEF At
  <2> QED BY <1>3, <2>1, AcceptFits DEF Befriended
<1>4. CASE other \notin mine.requests
  <2>1. Fit(u1) /\ DOMAIN u1 = DOMAIN users \cup {id}
    BY <1>1, TouchFits
  <2>2. u1[id] = mine /\ u1[other] = users[other] /\ At(users, other) = users[other]
    BY DEF Put, At
  <2> DEFINE R == IF mine.asked THEN users[other].requests \cup {id} ELSE {id}
  <2>3. Befriended(users, id, other)
          = Put(u1, other, [users[other] EXCEPT !.asked = TRUE, !.requests = R])
    BY <1>4, <2>2 DEF Befriended, Asked
  <2>4. R \subseteq users[other].requests \cup {id}
    OBVIOUS
  <2>5. /\ id \in DOMAIN u1 /\ other \in DOMAIN u1 \ {id}
        /\ other \notin FriendsOf(u1[id]) /\ other \notin u1[id].requests
        /\ R \subseteq u1[other].requests \cup {id}
    BY <1>2, <1>4, <2>1, <2>2, <2>4
  <2> HIDE DEF mine, u1, R
  <2>6. Fit(Put(u1, other, [u1[other] EXCEPT !.asked = TRUE, !.requests = R]))
    BY <2>1, <2>5, RequestFits
  <2> QED BY <2>2, <2>3, <2>6
<1> QED BY <1>3, <1>4

\* An empty file, and a file the server may start with.
LEMMA EmptyFits == Fit(<< >>)
BY DEF Fit, Shaped, Sound, Closed, Once, Mutual, OneWay, Listed

\* The accounts a server starts with are fit.
LEMMA FirstFits ==
  ASSUME NEW users, IsPrivate(users), Sound(users)
  PROVE  Fit(users)
<1>1. users = [i \in DOMAIN users |-> users[i]]
  BY DEF IsPrivate
<1>2. \A i \in DOMAIN users : users[i] \in Account
  BY DEF IsPrivate
<1>3. \A i \in DOMAIN users : Fields(users[i]) /\ users[i].friends \in Seq(Ids)
  BY <1>2 DEF Account, Fields
<1>4. ASSUME NEW i \in DOMAIN users PROVE users[i].friends \in Seq(DOMAIN users)
  <2> DEFINE f == users[i].friends
  <2>1. f \in Seq(Ids) /\ \A j \in DOMAIN f : f[j] \in DOMAIN users
    BY <1>3 DEF Sound, Closed, FriendsOf
  <2>2. f \in [1 .. Len(f) -> Ids] /\ Len(f) \in Nat
    BY <2>1, LenProperties
  <2>3. f \in [1 .. Len(f) -> DOMAIN users]
    BY <2>1, <2>2
  <2> QED BY <2>2, <2>3
<1> QED BY <1>1, <1>3, <1>4 DEF Fit, Shaped

-----------------------------------------------------------------------------
(* The steps of the server.  What a thread writes is a field of its job.      *)

IsJob(j) == j = [req |-> j.req, users |-> j.users, todo |-> j.todo,
                 draft |-> j.draft, replies |-> j.replies]

Jobs == DOMAIN pc = Threads /\ DOMAIN job = Threads /\ \A c \in Threads : IsJob(job[c])

\* A thread moves on with no file to write, or finds one that does not parse.
Moves(c) ==
  /\ pc[c] \notin {"saving", "gone"}
  /\ \E step, j : /\ Goto(c, step, j) /\ step \notin {"none", "save", "saving"}
                  /\ IsJob(j) /\ (j.draft = NoDraft \/ j.draft = job[c].draft)
                  /\ mutex' = mutex \/ (mutex = Free /\ torn # {} /\ mutex' = c /\ step = "gone")
  /\ UNCHANGED << disk, torn, restarts, reused >>

\* A thread has made a new version of a file, one that parsed.
Drafts(c) ==
  /\ pc[c] \notin {"saving", "gone"}
  /\ \E j : /\ Goto(c, "save", j) /\ IsJob(j)
            /\ j.draft.file \in Files \ torn
            /\ j.draft.file = "private" /\ Fit(disk["private"]) /\ ~ reused' => Fit(j.draft.doc)
  /\ reused => reused'
  /\ UNCHANGED << disk, torn, mutex, restarts >>

Saved(c) ==
  /\ pc[c] = "saving"
  /\ \E step, j : /\ Goto(c, step, j) /\ step \notin {"none", "save", "saving"}
                  /\ IsJob(j) /\ j.draft = NoDraft
  /\ torn' = torn \ {job[c].draft.file} /\ mutex' = Free
  /\ disk' = [disk EXCEPT ![job[c].draft.file] = job[c].draft.doc]
  /\ UNCHANGED << restarts, reused >>

\* A job with some of its fields changed is a job.
LEMMA JobKept ==
  ASSUME NEW j, IsJob(j), NEW v, NEW b
  PROVE  /\ b = [j EXCEPT !.req = v] => IsJob(b) /\ b.draft = j.draft
         /\ b = [j EXCEPT !.users = v] => IsJob(b) /\ b.draft = j.draft
         /\ b = [j EXCEPT !.todo = v] => IsJob(b) /\ b.draft = j.draft
         /\ b = [j EXCEPT !.draft = v] => IsJob(b) /\ b.draft = v
         /\ b = [j EXCEPT !.replies = v] => IsJob(b) /\ b.draft = j.draft
<1>1. PICK r, u, t, d, a : j = [req |-> r, users |-> u, todo |-> t, draft |-> d, replies |-> a]
  BY DEF IsJob
<1>2. j.draft = d
  BY <1>1
<1>3. ASSUME NEW r1, NEW u1, NEW t1, NEW d1, NEW a1,
             b = [req |-> r1, users |-> u1, todo |-> t1, draft |-> d1, replies |-> a1]
      PROVE  IsJob(b) /\ b.draft = d1
  BY <1>3 DEF IsJob
<1>4. b = [j EXCEPT !.req = v] => IsJob(b) /\ b.draft = d
  <2>1. [j EXCEPT !.req = v] = [req |-> v, users |-> u, todo |-> t, draft |-> d, replies |-> a]
    BY <1>1
  <2> QED BY <2>1, <1>3
<1>5. b = [j EXCEPT !.users = v] => IsJob(b) /\ b.draft = d
  <2>1. [j EXCEPT !.users = v] = [req |-> r, users |-> v, todo |-> t, draft |-> d, replies |-> a]
    BY <1>1
  <2> QED BY <2>1, <1>3
<1>6. b = [j EXCEPT !.todo = v] => IsJob(b) /\ b.draft = d
  <2>1. [j EXCEPT !.todo = v] = [req |-> r, users |-> u, todo |-> v, draft |-> d, replies |-> a]
    BY <1>1
  <2> QED BY <2>1, <1>3
<1>7. b = [j EXCEPT !.draft = v] => IsJob(b) /\ b.draft = v
  <2>1. [j EXCEPT !.draft = v] = [req |-> r, users |-> u, todo |-> t, draft |-> v, replies |-> a]
    BY <1>1
  <2> QED BY <2>1, <1>3
<1>8. b = [j EXCEPT !.replies = v] => IsJob(b) /\ b.draft = d
  <2>1. [j EXCEPT !.replies = v] = [req |-> r, users |-> u, todo |-> t, draft |-> d, replies |-> v]
    BY <1>1
  <2> QED BY <2>1, <1>3
<1> QED BY <1>2, <1>4, <1>5, <1>6, <1>7, <1>8

\* Two fields of a job changed at once, or one after the other.
LEMMA JobTwice ==
  ASSUME NEW j, IsJob(j), NEW v, NEW w
  PROVE  /\ [j EXCEPT !.draft = v, !.replies = w] = [[j EXCEPT !.draft = v] EXCEPT !.replies = w]
         /\ [j EXCEPT !.todo = v, !.draft = w] = [[j EXCEPT !.todo = v] EXCEPT !.draft = w]
OBVIOUS

\* The jobs a thread starts with.
LEMMA JobOfIs ==
  ASSUME NEW req
  PROVE  /\ IsJob(NoJob) /\ NoJob.draft = NoDraft
         /\ IsJob(JobOf(req)) /\ JobOf(req).draft = NoDraft
<1>1. IsJob(NoJob) /\ NoJob.draft = NoDraft
  BY DEF NoJob, IsJob
<1>2. JobOf(req) = [NoJob EXCEPT !.req = req]
  BY DEF JobOf
<1> QED BY <1>1, <1>2, JobKept

\* A thread that goes to write has a draft.
LEMMA SavesDrafts ==
  ASSUME NEW c, NEW req, NEW f, NEW doc, NEW replies, Saves(c, req, f, doc, replies)
  PROVE  \E j : /\ Goto(c, "save", j) /\ IsJob(j)
                /\ j.draft.file = f /\ j.draft.doc = doc
<1> DEFINE d == Draft(f, doc)
           x == [JobOf(req) EXCEPT !.draft = d]
           y == [x EXCEPT !.replies = replies]
<1>1. IsJob(JobOf(req))
  BY JobOfIs
<1>2. Goto(c, "save", y)
  BY <1>1, JobTwice DEF Saves
<1> HIDE DEF d
<1>3. IsJob(x) /\ x.draft = d
  BY <1>1, JobKept
<1> HIDE DEF x
<1>4. IsJob(y) /\ y.draft = d
  BY <1>3, JobKept
<1>5. d.file = f /\ d.doc = doc
  BY DEF d, Draft
<1> HIDE DEF y
<1> QED BY <1>2, <1>4, <1>5

\* A thread with some receivers left, or none, has no new draft.
LEMMA SendsMoves ==
  ASSUME NEW c, NEW j, IsJob(j), NEW todo, Sends(c, j, todo)
  PROVE  \E step, k : /\ Goto(c, step, k) /\ step \in {"reading", "sending"}
                      /\ IsJob(k) /\ (k.draft = NoDraft \/ k.draft = j.draft)
<1>1. CASE todo = {}
  BY <1>1, JobOfIs DEF Sends
<1>2. CASE todo # {}
  <2> DEFINE k == [j EXCEPT !.todo = todo]
  <2>1. Goto(c, "sending", k)
    BY <1>2 DEF Sends
  <2>2. IsJob(k) /\ k.draft = j.draft
    BY JobKept
  <2> HIDE DEF k
  <2> QED BY <2>1, <2>2
<1> QED BY <1>1, <1>2

\* Saves with a file that parses is Drafts.
LEMMA SavesIsDrafts ==
  ASSUME NEW c, NEW req, NEW f \in Files \ torn, NEW doc, NEW replies,
         Saves(c, req, f, doc, replies), pc[c] \notin {"saving", "gone"},
         f = "private" /\ Fit(disk["private"]) /\ ~ reused' => Fit(doc),
         reused => reused', UNCHANGED << disk, torn, mutex, restarts >>
  PROVE  Drafts(c)
<1>1. PICK j : /\ Goto(c, "save", j) /\ IsJob(j)
               /\ j.draft.file = f /\ j.draft.doc = doc
  BY SavesDrafts
<1> QED BY <1>1 DEF Drafts

\* A thread that moves with no new draft.
LEMMA GotoMoves ==
  ASSUME NEW c, NEW step, step \notin {"none", "save", "saving"}, NEW j,
         Goto(c, step, j), IsJob(j), j.draft = NoDraft \/ j.draft = job[c].draft,
         pc[c] \notin {"saving", "gone"}, UNCHANGED << disk, torn, mutex, restarts, reused >>
  PROVE  Moves(c)
BY DEF Moves

\* What each step of the server does to the files, the mutex and the jobs.
LEMMA ServeKinds ==
  ASSUME Jobs, NEW c \in Threads, Serve(c)
  PROVE  \/ Moves(c) \/ Drafts(c) \/ BeginSave(c) \/ Saved(c)
         \/ UNCHANGED << disk, torn, mutex, restarts, reused, pc, job >>
<1> DEFINE Still == UNCHANGED << disk, torn, mutex, restarts >>
<1>1. IsJob(job[c])
  BY DEF Jobs
<1>2. ASSUME NEW cmd, Takes(c, cmd)
      PROVE  pc[c] \notin {"saving", "gone"} /\ "private" \in Files \ torn
  BY <1>2 DEF Takes, Files
<1>3. CASE Authenticate(c)
  <2> DEFINE req == Taken(c)
             id  == Authenticated(Accounts, req.arg[1], req.arg[2])
             doc == SignedIn(Accounts, id)
  <2>1. /\ pc[c] \notin {"saving", "gone"} /\ "private" \in Files \ torn /\ Still /\ UNCHANGED reused
        /\ Goto(c, "reading", NoJob) \/ Saves(c, req, "private", doc, << id >>)
    BY <1>2, <1>3 DEF Authenticate, sharedVars, historyVars, Answers
  <2>2. Fit(Accounts) => Fit(doc)
    BY SignFits
  <2> HIDE DEF doc, id, req
  <2>3. Fit(disk["private"]) => Fit(doc)
    BY <2>2 DEF Accounts
  <2> QED BY <2>1, <2>3, SavesIsDrafts, GotoMoves, JobOfIs
<1>4. CASE Ignore(c)
  BY <1>4 DEF Ignore, serverVars, sharedVars, historyVars
<1>5. CASE Register(c)
  <2> DEFINE req == Taken(c)
             doc == Registered(Accounts, req.arg[1], req.arg[2])
  <2>1. /\ pc[c] \notin {"saving", "gone"} /\ "private" \in Files \ torn /\ Still
        /\ reused' = (reused \/ NewId(Accounts) \in DOMAIN Accounts)
        /\ Saves(c, req, "private", doc, << NewId(Accounts) >>)
    BY <1>2, <1>5 DEF Register, sharedVars
  <2>2. Fit(Accounts) /\ NewId(Accounts) \notin DOMAIN Accounts => Fit(doc)
    BY RegisterFits
  <2>3. Fit(disk["private"]) /\ ~ reused' => Fit(doc)
    <3>1. Fit(disk["private"]) <=> Fit(Accounts)
      BY DEF Accounts
    <3> HIDE DEF doc
    <3> QED BY <3>1, <2>1, <2>2
  <2> HIDE DEF doc, req
  <2>4. reused => reused'
    BY <2>1
  <2> QED BY <2>1, <2>3, <2>4, SavesIsDrafts
<1>6. CASE Look(c)
  BY <1>2, <1>6, JobOfIs, GotoMoves DEF Look, Answers, sharedVars, historyVars
<1>7. CASE Add(c)
  <2> DEFINE req   == Taken(c)
             other == Named(Accounts, req.arg, req.id)
             all   == AddAnswers(Accounts, req.id, other)
             doc   == Befriended(Accounts, req.id, other)
  <2>1. /\ pc[c] \notin {"saving", "gone"} /\ "private" \in Files \ torn /\ Still /\ UNCHANGED reused
        /\ \/ AddWrites(Accounts, req.id, other) /\ Saves(c, req, "private", doc, all)
           \/ Goto(c, "reading", NoJob)
    BY <1>2, <1>7 DEF Add, sharedVars, historyVars, Answers
  <2>2. ASSUME AddWrites(Accounts, req.id, other), Fit(Accounts) PROVE Fit(doc)
    <3>1. other \in DOMAIN Accounts \ {req.id}
      BY <2>2, NamedIsAnother DEF AddWrites
    <3> HIDE DEF other, req
    <3> QED BY <2>2, <3>1, BefriendFits
  <2> HIDE DEF doc, all, other, req
  <2>3. AddWrites(Accounts, req.id, other) /\ Fit(disk["private"]) => Fit(doc)
    BY <2>2 DEF Accounts
  <2> QED BY <2>1, <2>3, SavesIsDrafts, GotoMoves, JobOfIs
<1>8. CASE Chat(c)
  <2>1. /\ pc[c] \notin {"saving", "gone"} /\ Still /\ UNCHANGED reused
        /\ Goto(c, "reading", NoJob) \/ Goto(c, "groups", JobOf(Taken(c)))
    BY <1>2, <1>8 DEF Chat, sharedVars, historyVars, Answers
  <2> QED BY <2>1, GotoMoves, JobOfIs
<1>9. CASE TakeGroups(c)
  <2> DEFINE j == [JobOf(Taken(c)) EXCEPT !.users = Accounts]
  <2>1. /\ pc[c] \notin {"saving", "gone"} /\ Still /\ UNCHANGED reused
        /\ Goto(c, "groups", j)
    BY <1>2, <1>9 DEF TakeGroups, sharedVars, historyVars
  <2>2. IsJob(j) /\ j.draft = NoDraft
    BY JobOfIs, JobKept
  <2> HIDE DEF j
  <2> QED BY <2>1, <2>2, GotoMoves
<1>10. CASE Send(c)
  <2> DEFINE j == [JobOf(Taken(c)) EXCEPT !.users = Accounts]
  <2>1. /\ pc[c] \notin {"saving", "gone"} /\ Still /\ UNCHANGED reused
        /\ Goto(c, "groups", j) \/ \E todo : Sends(c, j, todo)
    BY <1>2, <1>10 DEF Send, sharedVars, historyVars
  <2>2. IsJob(j) /\ j.draft = NoDraft
    BY JobOfIs, JobKept
  <2> HIDE DEF j
  <2>3. CASE Goto(c, "groups", j)
    BY <2>1, <2>2, <2>3, GotoMoves
  <2>4. CASE \E todo : Sends(c, j, todo)
    BY <2>1, <2>2, <2>4, SendsMoves, GotoMoves
  <2> QED BY <2>1, <2>3, <2>4
<1>11. CASE Map(c)
  BY <1>2, <1>11, GotoMoves, JobOfIs DEF Map, historyVars
<1>12. CASE Exit(c)
  <2> DEFINE req == Taken(c)
             doc == SignedOut(Accounts, req.id)
  <2>1. /\ pc[c] \notin {"saving", "gone"} /\ "private" \in Files \ torn /\ Still /\ UNCHANGED reused
        /\ Saves(c, req, "private", doc, << >>)
    BY <1>2, <1>12 DEF Exit, sharedVars, historyVars
  <2>2. Fit(Accounts) => Fit(doc)
    BY SignFits
  <2> HIDE DEF doc, req
  <2>3. Fit(disk["private"]) => Fit(doc)
    BY <2>2 DEF Accounts
  <2> QED BY <2>1, <2>3, SavesIsDrafts
<1>13. CASE ParseFails(c)
  <2>1. /\ pc[c] \notin {"saving", "gone"} /\ torn # {} /\ mutex = Free /\ mutex' = c
        /\ Goto(c, "gone", NoJob) /\ UNCHANGED << disk, torn, restarts, reused >>
    BY <1>13 DEF ParseFails, historyVars
  <2> QED BY <2>1, JobOfIs DEF Moves
<1>14. CASE ListGroups(c)
  BY <1>14, JobOfIs, GotoMoves DEF ListGroups, Parses, Answers, sharedVars, historyVars
<1>15. CASE ChatGroup(c)
  BY <1>15, JobOfIs, GotoMoves DEF ChatGroup, Parses, Answers, sharedVars, historyVars
<1>16. CASE MakeGroup(c)
  <2>1. /\ pc[c] \notin {"saving", "gone"} /\ "groups" \in Files \ torn /\ Still /\ UNCHANGED reused
        /\ \/ Goto(c, "reading", NoJob)
           \/ \E req, doc, replies : Saves(c, req, "groups", doc, replies)
    BY <1>16 DEF MakeGroup, Parses, Files, sharedVars, historyVars, Answers
  <2>2. CASE Goto(c, "reading", NoJob)
    BY <2>1, <2>2, JobOfIs, GotoMoves
  <2>3. CASE \E req, doc, replies : Saves(c, req, "groups", doc, replies)
    <3>1. PICK req, doc, replies : Saves(c, req, "groups", doc, replies)
      BY <2>3
    <3> QED BY <2>1, <3>1, SavesIsDrafts
  <2> QED BY <2>1, <2>2, <2>3
<1>17. CASE SendGroup(c)
  <2>1. /\ pc[c] \notin {"saving", "gone"} /\ Still /\ UNCHANGED reused
        /\ \E todo : Sends(c, job[c], todo)
    BY <1>17 DEF SendGroup, Parses, sharedVars, historyVars
  <2> QED BY <1>1, <2>1, SendsMoves, GotoMoves
<1>18. CASE Leave(c)
  <2>1. PICK to, doc :
          Goto(c, "save", [job[c] EXCEPT !.todo = @ \ {to}, !.draft = Draft("messages", doc)])
    BY <1>18 DEF Leave
  <2>2. /\ pc[c] \notin {"saving", "gone"} /\ "messages" \in Files \ torn /\ Still /\ UNCHANGED reused
    BY <1>18 DEF Leave, Parses, Files, sharedVars, historyVars
  <2> DEFINE rest == job[c].todo \ {to}
             d    == Draft("messages", doc)
             x    == [job[c] EXCEPT !.todo = rest]
             y    == [x EXCEPT !.draft = d]
  <2>3. Goto(c, "save", y)
    BY <1>1, <2>1, JobTwice
  <2>4. d.file = "messages"
    BY DEF Draft
  <2> HIDE DEF d, rest
  <2>5. IsJob(x)
    BY <1>1, JobKept
  <2> HIDE DEF x
  <2>6. IsJob(y) /\ y.draft = d
    BY <2>5, JobKept
  <2> HIDE DEF y
  <2> QED BY <2>2, <2>3, <2>4, <2>6 DEF Drafts
<1>19. CASE Deliver(c)
  <2>1. /\ pc[c] \notin {"saving", "gone"} /\ Still /\ UNCHANGED reused
        /\ \E todo : Sends(c, job[c], todo)
    BY <1>19 DEF Deliver, sharedVars
  <2> QED BY <1>1, <2>1, SendsMoves, GotoMoves
<1>20. CASE Pending(c)
  <2>1. /\ pc[c] \notin {"saving", "gone"} /\ "messages" \in Files \ torn /\ Still /\ UNCHANGED reused
        /\ \E req, doc, replies : Saves(c, req, "messages", doc, replies)
    BY <1>20 DEF Pending, Files, sharedVars
  <2>2. PICK req, doc, replies : Saves(c, req, "messages", doc, replies)
    BY <2>1
  <2> QED BY <2>1, <2>2, SavesIsDrafts
<1>21. CASE PendingFails(c)
  BY <1>21, JobOfIs, GotoMoves DEF PendingFails, sharedVars, historyVars
<1>22. CASE BeginSave(c)
  BY <1>22
<1>23. CASE EndSave(c)
  <2>1. /\ pc[c] = "saving" /\ torn' = torn \ {job[c].draft.file} /\ mutex' = Free
        /\ disk' = [disk EXCEPT ![job[c].draft.file] = job[c].draft.doc]
        /\ UNCHANGED << restarts, reused >>
    BY <1>23 DEF EndSave
  <2> DEFINE x == [job[c] EXCEPT !.draft = NoDraft]
  <2>2. \/ \E todo : Sends(c, x, todo)
        \/ Goto(c, "gone", NoJob) \/ Goto(c, "reading", NoJob)
    BY <1>23 DEF EndSave, Answers
  <2>3. IsJob(x) /\ x.draft = NoDraft
    BY <1>1, JobKept
  <2> HIDE DEF x
  <2>4. \E step, j : /\ Goto(c, step, j) /\ step \notin {"none", "save", "saving"}
                     /\ IsJob(j) /\ j.draft = NoDraft
    <3>1. CASE \E todo : Sends(c, x, todo)
      BY <2>3, <3>1, SendsMoves
    <3>2. CASE Goto(c, "gone", NoJob) \/ Goto(c, "reading", NoJob)
      BY <3>2, JobOfIs
    <3> QED BY <2>2, <3>1, <3>2
  <2> QED BY <2>1, <2>4 DEF Saved
<1>24. CASE EndOfStream(c)
  BY <1>24, JobOfIs, GotoMoves DEF EndOfStream, historyVars
<1> QED
  BY <1>3, <1>4, <1>5, <1>6, <1>7, <1>8, <1>9, <1>10, <1>11, <1>12, <1>13, <1>14, <1>15, <1>16,
     <1>17, <1>18, <1>19, <1>20, <1>21, <1>22, <1>23, <1>24 DEF Serve, Requests

\* What Goto does to each thread.
LEMMA GotoIs ==
  ASSUME Jobs, NEW c \in Threads, NEW step, NEW j, Goto(c, step, j), IsJob(j)
  PROVE  /\ Jobs' /\ pc'[c] = step /\ job'[c] = j
         /\ \A d \in Threads \ {c} : pc'[d] = pc[d] /\ job'[d] = job[d]
<1>1. /\ DOMAIN pc' = Threads /\ DOMAIN job' = Threads /\ pc'[c] = step /\ job'[c] = j
      /\ \A d \in Threads \ {c} : pc'[d] = pc[d] /\ job'[d] = job[d]
  BY DEF Goto, Jobs
<1> QED BY <1>1 DEF Jobs, IsJob

-----------------------------------------------------------------------------
(* A connection is new when its thread starts.                                *)

Asking(s)   == user[s] = "wait" /\ asked[s].cmd \in {"AUTHENTICATE", "AUTHENTICATE_WORDS", "REGISTER"}
Newcomer(s) == user[s] \in {"off", "denied"} \/ Asking(s)

Fresh ==
  /\ DOMAIN user = Sessions /\ DOMAIN asked = Sessions
  /\ \A s \in Sessions : /\ user[s] = "off" => pc[Main(s)] = "none"
                         /\ Newcomer(s) => pc[Inbox(s)] = "none"

Connected(s) ==
  /\ \/ user[s] = "off" /\ Goto(Main(s), "reading", NoJob)
     \/ Asking(s) /\ Goto(Inbox(s), "reading", NoJob)
  /\ UNCHANGED << disk, torn, mutex, restarts, reused >>

\* The two threads of a client.
LEMMA Ends ==
  ASSUME NEW s \in Sessions
  PROVE  Main(s) \in Threads /\ Inbox(s) \in Threads /\ Main(s) # Inbox(s)
BY DEF Main, Inbox, Threads

\* What each step of a client does to the files, the mutex and the jobs.
LEMMA ClientKinds ==
  ASSUME NEW s \in Sessions, Client(s)
  PROVE  Connected(s) \/ UNCHANGED << disk, torn, mutex, restarts, reused, pc, job >>
<1>1. CASE LogIn(s)
  BY <1>1 DEF LogIn, Connects, Connected, serverVars, sharedVars, historyVars
<1>2. CASE SignUp(s)
  BY <1>2 DEF SignUp, Connects, Connected, historyVars
<1>3. CASE ReadAnswer(s)
  BY <1>3 DEF ReadAnswer, LoggedIn, Stays, Connected, Asking
<1>4. CASE Command(s) \/ Misuse(s) \/ Say(s) \/ LeaveChat(s) \/ Quit(s) \/ Killed(s)
  BY <1>4 DEF Command, Misuse, Say, LeaveChat, Quit, Killed, Leaves, serverVars, sharedVars, historyVars
<1> QED BY <1>1, <1>2, <1>3, <1>4 DEF Client

\* A thread of the server changes nothing of a client, and nothing of a thread that
\* is not running.
LEMMA ServeIsOwn ==
  ASSUME Jobs, NEW c \in Threads, Serve(c)
  PROVE  /\ pc[c] # "none" /\ UNCHANGED << user, asked >>
         /\ \A d \in Threads \ {c} : pc'[d] = pc[d]
<1>1. (\E step, j : Goto(c, step, j)) \/ pc' = [pc EXCEPT ![c] = "saving"] \/ pc' = pc
        => \A d \in Threads \ {c} : pc'[d] = pc[d]
  BY DEF Goto, Jobs
<1>2. CASE Requests(c)
  <2>1. pc[c] # "none" /\ UNCHANGED << user, asked >>
    BY <1>2 DEF Requests, Authenticate, Ignore, Register, Look, Add, Chat, TakeGroups, Send, Map, Exit,
                Takes, clientVars
  <2>2. (\E step, j : Goto(c, step, j)) \/ pc' = pc
    BY <1>2 DEF Requests, Authenticate, Ignore, Register, Look, Add, Chat, TakeGroups, Send, Map, Exit,
                Saves, Answers, Sends, serverVars
  <2> QED BY <1>1, <2>1, <2>2
<1>3. CASE ParseFails(c) \/ ListGroups(c) \/ ChatGroup(c) \/ MakeGroup(c) \/ SendGroup(c)
  <2>1. pc[c] # "none" /\ UNCHANGED << user, asked >>
    BY <1>3 DEF ParseFails, ListGroups, ChatGroup, MakeGroup, SendGroup, Parses, clientVars
  <2>2. \E step, j : Goto(c, step, j)
    BY <1>3 DEF ParseFails, ListGroups, ChatGroup, MakeGroup, SendGroup, Saves, Answers, Sends
  <2> QED BY <1>1, <2>1, <2>2
<1>4. CASE Leave(c) \/ Deliver(c) \/ Pending(c) \/ PendingFails(c) \/ EndSave(c) \/ EndOfStream(c)
  <2>1. pc[c] # "none" /\ UNCHANGED << user, asked >>
    BY <1>4 DEF Leave, Deliver, Pending, PendingFails, EndSave, EndOfStream, Parses, clientVars
  <2>2. \E step, j : Goto(c, step, j)
    BY <1>4 DEF Leave, Deliver, Pending, PendingFails, EndSave, EndOfStream, Saves, Answers, Sends
  <2> QED BY <1>1, <2>1, <2>2
<1>5. CASE BeginSave(c)
  BY <1>1, <1>5 DEF BeginSave, clientVars
<1> QED BY <1>2, <1>3, <1>4, <1>5 DEF Serve

\* A step of a client leaves the other clients and their connections alone.
LEMMA ClientIsOwn ==
  ASSUME Jobs, Fresh, NEW s \in Sessions, Client(s)
  PROVE  /\ DOMAIN user' = Sessions /\ DOMAIN asked' = Sessions
         /\ \A t \in Sessions \ {s} :
              /\ user'[t] = user[t] /\ asked'[t] = asked[t]
              /\ pc'[Main(t)] = pc[Main(t)] /\ pc'[Inbox(t)] = pc[Inbox(t)]
<1>1. \A t \in Sessions \ {s} : Main(t) \notin {Main(s), Inbox(s)} /\ Inbox(t) \notin {Main(s), Inbox(s)}
  BY DEF Main, Inbox
<1>2. \A t \in Sessions \ {s} : pc'[Main(t)] = pc[Main(t)] /\ pc'[Inbox(t)] = pc[Inbox(t)]
  BY <1>1, ClientKinds, Ends DEF Connected, Goto, Jobs
<1>3. (user' = user \/ \E v : user' = [user EXCEPT ![s] = v])
      /\ (asked' = asked \/ \E v : asked' = [asked EXCEPT ![s] = v])
  BY DEF Client, LogIn, SignUp, Connects, Asks, Command, Misuse, ReadAnswer, LoggedIn,
         Say, LeaveChat, Quit, Killed, Leaves
<1> QED BY <1>2, <1>3 DEF Fresh

\* Fresh is kept by every step.
LEMMA FreshKept ==
  ASSUME Jobs, Fresh, [Next]_vars
  PROVE  Fresh'
<1>1. ASSUME NEW c \in Threads, Serve(c) PROVE Fresh'
  BY <1>1, ServeIsOwn, Ends DEF Fresh, Newcomer, Asking
<1>2. ASSUME NEW s \in Sessions, Client(s) PROVE Fresh'
  <2>1. (user'[s] = "off" => pc'[Main(s)] = "none") /\ (Newcomer(s)' => pc'[Inbox(s)] = "none")
    <3>1. CASE LogIn(s) \/ SignUp(s)
      <4>1. user[s] \in {"off", "denied"} /\ user' = [user EXCEPT ![s] = "wait"]
        BY <3>1 DEF LogIn, SignUp, Connects, Asks
      <4>2. pc' = pc \/ pc' = [pc EXCEPT ![Main(s)] = "reading"]
        BY <3>1 DEF LogIn, SignUp, Connects, Goto, serverVars
      <4>3. user'[s] = "wait" /\ pc'[Inbox(s)] = pc[Inbox(s)]
        BY <4>1, <4>2, Ends DEF Fresh, Jobs
      <4> QED BY <4>1, <4>3 DEF Fresh, Newcomer
    <3>2. CASE Command(s)
      <4>1. PICK req \in Commands(s) : user'[s] = "wait" /\ asked'[s] = req
        BY <3>2 DEF Command, Asks, Fresh
      <4>2. req.cmd \notin {"AUTHENTICATE", "AUTHENTICATE_WORDS", "REGISTER"}
        BY DEF Commands
      <4> QED BY <4>1, <4>2 DEF Newcomer, Asking
    <3>3. CASE Misuse(s)
      <4>1. user'[s] = "wait" /\ asked'[s] = NoRequest
        BY <3>3 DEF Misuse, Fresh
      <4> QED BY <4>1 DEF Newcomer, Asking, NoRequest
    <3>4. CASE ReadAnswer(s)
      <4>1. user'[s] \in {"menu", "chat"}
            \/ (user'[s] = "denied" /\ user[s] = "wait" /\ asked[s].cmd = "AUTHENTICATE" /\ pc' = pc)
        BY <3>4 DEF ReadAnswer, LoggedIn, Stays, Fresh
      <4> QED BY <4>1 DEF Fresh, Newcomer, Asking
    <3>5. CASE Say(s)
      BY <3>5 DEF Say, serverVars, Fresh, Newcomer, Asking
    <3>6. CASE LeaveChat(s) \/ Quit(s) \/ Killed(s)
      <4>1. user'[s] \in {"menu", "over"}
        BY <3>6 DEF LeaveChat, Quit, Killed, Leaves, Fresh
      <4> QED BY <4>1 DEF Newcomer, Asking
    <3> QED BY <1>2, <3>1, <3>2, <3>3, <3>4, <3>5, <3>6 DEF Client
  <2> QED BY <1>2, <2>1, ClientIsOwn DEF Fresh, Newcomer, Asking
<1>3. ASSUME Crash PROVE Fresh'
  <2>1. /\ DOMAIN user' = Sessions /\ DOMAIN asked' = Sessions
        /\ \A s \in Sessions : user'[s] = IF user[s] = "off" THEN "off" ELSE "over"
        /\ \A c \in Threads : pc[c] = "none" => pc'[c] = "none"
    BY <1>3 DEF Crash
  <2> QED BY <2>1, Ends DEF Fresh, Newcomer, Asking
<1>4. CASE UNCHANGED vars
  BY <1>4 DEF vars, serverVars, clientVars, Fresh, Newcomer, Asking
<1> QED BY <1>1, <1>2, <1>3, <1>4 DEF Next

-----------------------------------------------------------------------------
(* The mutex.  A thread that has it is writing a file, or was stopped by a file *)
(* a crash had torn; a file is torn while it is written, or since a crash.    *)

Writer(c)  == pc[c] = "saving" => mutex = c
Drafted(c) == pc[c] = "save" => LET f == job[c].draft.file IN f \in Files /\ (f \in torn => Saving(f))
Holder(c)  == mutex = c => pc[c] = "saving" \/ (pc[c] = "gone" /\ restarts > 0)

Locks ==
  /\ restarts \in Nat
  /\ \A c \in Threads : Writer(c) /\ Drafted(c) /\ Holder(c)
  /\ \A f \in torn : restarts > 0 \/ Saving(f)

\* What each kind of step does to Locks, and that it leaves a file torn for good that
\* nobody is writing.
Torn(f) == f \in torn /\ ~ Saving(f)
Kept    == Jobs' /\ Locks' /\ \A f \in torn : Torn(f) => Torn(f)'

\* No thread is taken for the absence of a holder.
LEMMA FreeIsNoThread == Free \notin Threads
BY ChatappServerAssumption DEF Threads, Sessions

\* Locks is kept by a thread that moves on.
LEMMA MovesKeep ==
  ASSUME Jobs, Locks, NEW c \in Threads, Moves(c)
  PROVE  Kept
<1>1. PICK step, j :
        /\ Goto(c, step, j) /\ step \notin {"none", "save", "saving"} /\ IsJob(j)
        /\ mutex' = mutex \/ (mutex = Free /\ torn # {} /\ mutex' = c /\ step = "gone")
  BY DEF Moves
<1>2. /\ pc[c] \notin {"saving", "gone"} /\ UNCHANGED << torn, restarts >>
  BY DEF Moves
<1>3. /\ Jobs' /\ pc'[c] = step
      /\ \A d \in Threads \ {c} : pc'[d] = pc[d] /\ job'[d] = job[d]
  BY <1>1, GotoIs
<1>4. \A f : Saving(f)' <=> Saving(f)
  BY <1>1, <1>2, <1>3 DEF Saving
<1>5. ASSUME NEW d \in Threads PROVE Writer(d)' /\ Holder(d)'
  <2>1. CASE mutex' = mutex
    BY <2>1, <1>1, <1>2, <1>3 DEF Locks, Writer, Holder
  <2>2. CASE mutex = Free /\ torn # {} /\ mutex' = c /\ step = "gone"
    <3>1. \A e \in Threads : pc[e] # "saving"
      BY <2>2, FreeIsNoThread DEF Locks, Writer
    <3>2. restarts > 0
      BY <2>2, <3>1 DEF Locks, Saving
    <3>3. pc'[d] # "saving"
      BY <3>1, <1>1, <1>3
    <3> QED BY <2>2, <3>2, <3>3, <1>2, <1>3 DEF Writer, Holder
  <2> QED BY <1>1, <2>1, <2>2
<1>6. ASSUME NEW d \in Threads PROVE Drafted(d)'
  <2>1. CASE d = c
    BY <2>1, <1>1, <1>3 DEF Drafted
  <2>2. CASE d # c
    BY <2>2, <1>2, <1>3, <1>4 DEF Locks, Drafted
  <2> QED BY <2>1, <2>2
<1> QED BY <1>2, <1>3, <1>4, <1>5, <1>6 DEF Kept, Locks, Torn

\* Locks is kept by a thread that goes to write.
LEMMA DraftsKeep ==
  ASSUME Jobs, Locks, NEW c \in Threads, Drafts(c)
  PROVE  Kept
<1>1. PICK j : Goto(c, "save", j) /\ IsJob(j) /\ j.draft.file \in Files \ torn
  BY DEF Drafts
<1>2. /\ pc[c] \notin {"saving", "gone"} /\ UNCHANGED << torn, mutex, restarts >>
  BY DEF Drafts
<1>3. /\ Jobs' /\ pc'[c] = "save" /\ job'[c] = j
      /\ \A d \in Threads \ {c} : pc'[d] = pc[d] /\ job'[d] = job[d]
  BY <1>1, GotoIs
<1>4. \A f : Saving(f)' <=> Saving(f)
  BY <1>2, <1>3 DEF Saving
<1>5. ASSUME NEW d \in Threads PROVE Writer(d)' /\ Holder(d)' /\ Drafted(d)'
  <2>1. CASE d = c
    BY <2>1, <1>1, <1>2, <1>3 DEF Locks, Writer, Holder, Drafted
  <2>2. CASE d # c
    BY <2>2, <1>2, <1>3, <1>4 DEF Locks, Writer, Holder, Drafted
  <2> QED BY <2>1, <2>2
<1> QED BY <1>2, <1>3, <1>4, <1>5 DEF Kept, Locks, Torn

\* Locks is kept by a thread that begins to write.
LEMMA BeginSaveKeeps ==
  ASSUME Jobs, Locks, NEW c \in Threads, BeginSave(c)
  PROVE  Kept
<1> DEFINE g == job[c].draft.file
<1>1. /\ pc[c] = "save" /\ mutex = Free /\ mutex' = c /\ torn' = torn \cup {g}
      /\ pc' = [pc EXCEPT ![c] = "saving"] /\ UNCHANGED << job, restarts >>
  BY DEF BeginSave
<1>2. /\ DOMAIN pc' = Threads /\ pc'[c] = "saving" /\ \A d \in Threads \ {c} : pc'[d] = pc[d]
  BY <1>1 DEF Jobs
<1>3. Jobs'
  BY <1>1, <1>2 DEF Jobs
<1>4. \A d \in Threads : pc[d] # "saving"
  BY <1>1, FreeIsNoThread DEF Locks, Writer
<1>5. \A f : ~ Saving(f)
  BY <1>4 DEF Saving
<1>6. \A f : Saving(f)' <=> f = g
  BY <1>1, <1>2, <1>4 DEF Saving
<1>7. g \notin torn
  BY <1>1, <1>5 DEF Locks, Drafted
<1> HIDE DEF g
<1>8. ASSUME NEW d \in Threads PROVE Writer(d)' /\ Holder(d)' /\ Drafted(d)'
  <2>1. CASE d = c
    BY <2>1, <1>1, <1>2 DEF Writer, Holder, Drafted
  <2>2. CASE d # c
    <3>1. pc'[d] # "saving" /\ mutex' # d
      BY <2>2, <1>1, <1>2, <1>4
    <3>2. Drafted(d)'
      BY <2>2, <1>1, <1>2, <1>5, <1>6 DEF Locks, Drafted
    <3> QED BY <3>1, <3>2 DEF Writer, Holder
  <2> QED BY <2>1, <2>2
<1>9. \A f \in torn' : restarts' > 0 \/ Saving(f)'
  BY <1>1, <1>5, <1>6 DEF Locks
<1>10. \A f \in torn : Torn(f) => Torn(f)'
  BY <1>1, <1>6, <1>7 DEF Torn
<1> QED BY <1>1, <1>3, <1>8, <1>9, <1>10 DEF Kept, Locks

\* Locks is kept by a thread that has written.
LEMMA SavedKeeps ==
  ASSUME Jobs, Locks, NEW c \in Threads, Saved(c)
  PROVE  Kept
<1> DEFINE g == job[c].draft.file
<1>1. PICK step, j : Goto(c, step, j) /\ step \notin {"none", "save", "saving"} /\ IsJob(j)
  BY DEF Saved
<1>2. /\ pc[c] = "saving" /\ torn' = torn \ {g} /\ mutex' = Free /\ UNCHANGED restarts
  BY DEF Saved
<1>3. /\ Jobs' /\ pc'[c] = step
      /\ \A d \in Threads \ {c} : pc'[d] = pc[d] /\ job'[d] = job[d]
  BY <1>1, GotoIs
<1>4. \A d \in Threads \ {c} : pc[d] # "saving"
  BY <1>2 DEF Locks, Writer
<1>5. \A f : Saving(f) <=> f = g
  BY <1>2, <1>4 DEF Saving
<1>6. \A d \in Threads : pc'[d] # "saving"
  BY <1>1, <1>3, <1>4
<1>7. \A f : ~ Saving(f)'
  BY <1>6 DEF Saving
<1> HIDE DEF g
<1>8. ASSUME NEW d \in Threads PROVE Writer(d)' /\ Holder(d)' /\ Drafted(d)'
  <2>1. Writer(d)' /\ Holder(d)'
    BY <1>2, <1>6, FreeIsNoThread DEF Writer, Holder
  <2>2. Drafted(d)'
    <3>1. CASE d = c
      BY <3>1, <1>1, <1>3 DEF Drafted
    <3>2. CASE d # c
      BY <3>2, <1>2, <1>3, <1>5 DEF Locks, Drafted
    <3> QED BY <3>1, <3>2
  <2> QED BY <2>1, <2>2
<1>9. \A f \in torn' : restarts' > 0 \/ Saving(f)'
  BY <1>2, <1>5 DEF Locks
<1>10. \A f \in torn : Torn(f) => Torn(f)'
  BY <1>2, <1>5, <1>7 DEF Torn
<1> QED BY <1>2, <1>3, <1>8, <1>9, <1>10 DEF Kept, Locks

\* Locks is kept by a client that connects.
LEMMA ConnectedKeeps ==
  ASSUME Jobs, Locks, Fresh, NEW s \in Sessions, Connected(s)
  PROVE  Kept
<1>1. PICK c \in Threads : pc[c] = "none" /\ Goto(c, "reading", NoJob)
  BY Ends DEF Connected, Fresh, Newcomer
<1>2. Moves(c)
  BY <1>1, JobOfIs DEF Moves, Connected
<1> QED BY <1>2, MovesKeep

\* Locks is kept by a crash.
LEMMA CrashKeeps ==
  ASSUME Jobs, Locks, Crash
  PROVE  Kept
<1>1. /\ restarts' = restarts + 1 /\ mutex' = Free /\ UNCHANGED torn
      /\ pc' = [c \in Threads |-> IF pc[c] = "none" THEN "none" ELSE "gone"]
      /\ job' = [c \in Threads |-> NoJob]
  BY DEF Crash
<1>2. Jobs'
  BY <1>1, JobOfIs DEF Jobs
<1>3. \A c \in Threads : pc'[c] \in {"none", "gone"}
  BY <1>1
<1>4. restarts' \in Nat /\ restarts' > 0
  BY <1>1 DEF Locks
<1>5. \A f : ~ Saving(f)'
  BY <1>3 DEF Saving
<1> QED BY <1>1, <1>2, <1>3, <1>4, <1>5, FreeIsNoThread DEF Kept, Locks, Writer, Holder, Drafted, Torn

\* Locks is kept by a step that touches nothing of it.
LEMMA StillKeeps ==
  ASSUME Jobs, Locks, UNCHANGED << torn, mutex, restarts, pc, job >>
  PROVE  Kept
BY DEF Kept, Jobs, Locks, Writer, Holder, Drafted, Torn, Saving

\* Locks is kept by every step.
LEMMA LocksKept ==
  ASSUME Jobs, Locks, Fresh, [Next]_vars
  PROVE  Kept
<1>1. ASSUME NEW c \in Threads, Serve(c) PROVE Kept
  BY <1>1, ServeKinds, MovesKeep, DraftsKeep, BeginSaveKeeps, SavedKeeps, StillKeeps
<1>2. ASSUME NEW s \in Sessions, Client(s) PROVE Kept
  BY <1>2, ClientKinds, ConnectedKeeps, StillKeeps
<1>3. CASE Crash
  BY <1>3, CrashKeeps
<1>4. CASE UNCHANGED vars
  BY <1>4, StillKeeps DEF vars, serverVars, sharedVars
<1> QED BY <1>1, <1>2, <1>3, <1>4 DEF Next

Structure == Jobs /\ Fresh /\ Locks

\* At first there are no threads and the mutex is free.
LEMMA InitStructure == Init => Structure
<1> SUFFICES ASSUME Init PROVE Structure
  OBVIOUS
<1>1. Jobs
  BY JobOfIs DEF Init, Jobs
<1>2. Fresh
  BY Ends DEF Init, Fresh
<1>3. Locks
  BY FreeIsNoThread DEF Init, Locks, Writer, Holder, Drafted
<1> QED BY <1>1, <1>2, <1>3 DEF Structure

\* The structure holds always, for any number of clients, accounts and restarts.
THEOREM StructureHolds == Spec => []Structure
<1>1. Structure /\ [Next]_vars => Structure'
  BY FreshKept, LocksKept DEF Structure, Kept
<1> QED BY InitStructure, <1>1, PTL DEF Spec

\* Only a crash leaves a file that makes a thread end with the mutex locked: the code
\* returns from a failed parse without unlocking, in each of its requests.
THEOREM WedgedOnlyByCrashHolds == Spec => []WedgedOnlyByCrash
<1>1. Structure => WedgedOnlyByCrash
  BY DEF Structure, Locks, Holder, Wedged, WedgedOnlyByCrash
<1> QED BY StructureHolds, <1>1, PTL

\* No thread writes over what a crash has torn.
THEOREM TornStaysHolds == Spec => TornStays
<1>1. Structure /\ [Next]_vars => [\A f \in torn : ~ Saving(f) => f \in torn' /\ ~ Saving(f)']_vars
  BY LocksKept DEF Structure, Kept, Torn
<1> QED BY StructureHolds, <1>1, PTL DEF Spec, TornStays

-----------------------------------------------------------------------------
(* Friendships.  Every version of private.json, on disk or about to be, fits. *)

Versions ==
  /\ Fit(disk["private"])
  /\ \A c \in Threads : job[c].draft.file = "private" => Fit(job[c].draft.doc)

FitFiles == DOMAIN disk = Files /\ (~ reused => Versions)

\* A job without a draft is none of the accounts.
LEMMA NoDraftOfAccounts == NoDraft.file # "private"
BY DEF NoDraft

\* A thread that moves keeps the versions of the accounts fit.
LEMMA GotoFits ==
  ASSUME Jobs, Versions, NEW c \in Threads, NEW step, NEW j, Goto(c, step, j), IsJob(j),
         disk'["private"] = disk["private"] \/ Fit(disk'["private"]),
         j.draft.file = "private" => Fit(j.draft.doc)
  PROVE  Versions'
BY GotoIs DEF Versions

\* A step of the server keeps the versions of the accounts fit.
LEMMA ServeFits ==
  ASSUME Jobs, FitFiles, NEW c \in Threads,
         Moves(c) \/ Drafts(c) \/ BeginSave(c) \/ Saved(c)
  PROVE  FitFiles'
<1>1. CASE Moves(c)
  <2>1. PICK step, j :
          Goto(c, step, j) /\ IsJob(j) /\ (j.draft = NoDraft \/ j.draft = job[c].draft)
    BY <1>1 DEF Moves
  <2>2. UNCHANGED << disk, reused >>
    BY <1>1 DEF Moves
  <2>3. Versions => (j.draft.file = "private" => Fit(j.draft.doc))
    BY <2>1, NoDraftOfAccounts DEF Versions
  <2> QED BY <2>1, <2>2, <2>3, GotoFits DEF FitFiles
<1>2. CASE Drafts(c)
  <2>1. PICK j :
          /\ Goto(c, "save", j) /\ IsJob(j)
          /\ j.draft.file = "private" /\ Fit(disk["private"]) /\ ~ reused' => Fit(j.draft.doc)
    BY <1>2 DEF Drafts
  <2>2. UNCHANGED disk /\ (reused => reused')
    BY <1>2 DEF Drafts
  <2>3. Versions /\ ~ reused' => (j.draft.file = "private" => Fit(j.draft.doc))
    BY <2>1 DEF Versions
  <2> QED BY <2>1, <2>2, <2>3, GotoFits DEF FitFiles
<1>3. CASE BeginSave(c)
  <2> DEFINE g == job[c].draft.file
  <2>1. disk' = [disk EXCEPT ![g] = << >>] /\ UNCHANGED << job, reused >>
    BY <1>3 DEF BeginSave, historyVars
  <2> HIDE DEF g
  <2>2. DOMAIN disk' = DOMAIN disk
    BY <2>1
  <2>3. disk'["private"] = disk["private"] \/ disk'["private"] = << >>
    BY <2>1 DEF FitFiles, Files
  <2> QED BY <2>1, <2>2, <2>3, EmptyFits DEF FitFiles, Versions
<1>4. CASE Saved(c)
  <2> DEFINE g == job[c].draft.file
             d == job[c].draft.doc
  <2>1. PICK step, j : Goto(c, step, j) /\ IsJob(j) /\ j.draft = NoDraft
    BY <1>4 DEF Saved
  <2>2. disk' = [disk EXCEPT ![g] = d] /\ UNCHANGED reused
    BY <1>4 DEF Saved
  <2>3. Versions => (g = "private" => Fit(d))
    BY DEF Versions
  <2> HIDE DEF g, d
  <2>4. DOMAIN disk' = DOMAIN disk
    BY <2>2
  <2>5. disk'["private"] = disk["private"] \/ (g = "private" /\ disk'["private"] = d)
    BY <2>2 DEF FitFiles, Files
  <2> QED BY <2>1, <2>2, <2>3, <2>4, <2>5, GotoFits, NoDraftOfAccounts DEF FitFiles
<1> QED BY <1>1, <1>2, <1>3, <1>4

\* The versions are those of the files and of the jobs only.
LEMMA StillFits ==
  ASSUME FitFiles, UNCHANGED << disk, reused, job >>
  PROVE  FitFiles'
BY DEF FitFiles, Versions

\* Every step keeps the versions of the accounts fit.
LEMMA FitFilesKept ==
  ASSUME Structure, FitFiles, [Next]_vars
  PROVE  FitFiles'
<1>1. ASSUME NEW c \in Threads, Serve(c) PROVE FitFiles'
  BY <1>1, ServeKinds, ServeFits, StillFits DEF Structure
<1>2. ASSUME NEW s \in Sessions, Client(s) PROVE FitFiles'
  <2>1. CASE Connected(s)
    <3>1. PICK c \in Threads : Goto(c, "reading", NoJob) /\ UNCHANGED << disk, reused >>
      BY <2>1, Ends DEF Connected
    <3> QED BY <3>1, JobOfIs, NoDraftOfAccounts, GotoFits DEF FitFiles, Structure
  <2> QED BY <1>2, <2>1, ClientKinds, StillFits
<1>3. CASE Crash
  <2>1. UNCHANGED << disk, reused >> /\ \A c \in Threads : job'[c] = NoJob
    BY <1>3 DEF Crash, historyVars
  <2> QED BY <2>1, JobOfIs, NoDraftOfAccounts DEF FitFiles, Versions
<1>4. CASE UNCHANGED vars
  BY <1>4, StillFits DEF vars, serverVars, sharedVars, historyVars
<1> QED BY <1>1, <1>2, <1>3, <1>4 DEF Next

\* The versions are fit at first.
LEMMA InitFits == Init => FitFiles
<1> SUFFICES ASSUME Init PROVE FitFiles
  OBVIOUS
<1>1. /\ DOMAIN disk = Files /\ IsPrivate(disk["private"]) /\ Sound(disk["private"])
  BY ChatappServerAssumption DEF Init, Files, Holds
<1>2. \A c \in Threads : job[c].draft = NoDraft
  BY JobOfIs DEF Init
<1> QED BY <1>1, <1>2, FirstFits, NoDraftOfAccounts DEF FitFiles, Versions

\* Every version of private.json is fit until REGISTER gives an account away.
THEOREM FitFilesHolds == Spec => []FitFiles
<1>1. Structure /\ FitFiles /\ [Next]_vars => FitFiles'
  BY FitFilesKept
<1> QED BY InitFits, StructureHolds, <1>1, PTL DEF Spec

\* ADD and REGISTER work on copies that others overwrite, and each writes two accounts
\* or creates one nobody asked for: still no version of private.json has a friendship
\* on one side only, a friend twice, or a request between friends, until REGISTER
\* takes an id that is in use.
THEOREM FriendshipsSoundHolds == Spec => []FriendshipsSound
<1>1. FitFiles => FriendshipsSound
  BY DEF FitFiles, Versions, Fit, FriendshipsSound
<1> QED BY FitFilesHolds, <1>1, PTL
=============================================================================
