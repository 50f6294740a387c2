-------------------------- MODULE MCChatappServer --------------------------
(* Model-checking instances of ChatappServer. *)
EXTENDS ChatappServer, TLC

CONSTANTS ali, bora,  \* user names
          secret,     \* the one password
          cool,       \* the group
          hi          \* the one text

User(name, online, friends, requests) ==
  [name |-> name, password |-> secret, online |-> online, friends |-> friends,
   asked |-> requests # {}, requests |-> requests]

Start(users, groups) ==
  ("private" :> users) @@ ("groups" :> groups) @@ ("messages" :> << >>)

\* Two friends, and a third user with the name of one of them who has asked the
\* other; the group is the one of the repository's groups.json.  And two friends
\* of one name whose ids leave a gap, as stale copies leave one when the account
\* between is lost; nobody can log in as bora.
Three == (1 :> User(ali, FALSE, << 2 >>, {})) @@ (2 :> User(bora, FALSE, << 1 >>, {3}))
         @@ (3 :> User(ali, FALSE, << >>, {}))
Gap   == (1 :> User(ali, FALSE, << 3 >>, {})) @@ (3 :> User(ali, FALSE, << 1 >>, {}))

AllFiles == {Start(Three, cool :> {1, 2}), Start(Gap, << >>)}
OneUser  == {Start(1 :> User(ali, FALSE, << >>, {}), << >>)}

Words == {{bora}}
=============================================================================
