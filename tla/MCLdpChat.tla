------------------------------ MODULE MCLdpChat ------------------------------
(* Model-checking instances of LdpChat. *)
EXTENDS LdpChat

\* The client talks most, the server answers, or only the client talks.
Talk     == [e \in Endpoints |-> IF e = Client THEN 3 ELSE 1]
Dialogue == [e \in Endpoints |-> IF e = Client THEN 3 ELSE 2]
Monologue == [e \in Endpoints |-> IF e = Client THEN 3 ELSE 0]

Nobody == {}

\* Setting up succeeds, or comes to anything it may come to.
Smooth     == [e \in Endpoints |-> IF e = Client THEN {"known"} ELSE {"unknown"}]
AnyOutcome == [e \in Endpoints |-> IF e = Client THEN Outcomes ELSE {"unknown", "unbound"}]
=============================================================================
