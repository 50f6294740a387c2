-------------------------- MODULE MCLdpReceivePath --------------------------
(* Model-checking instances of LdpReceivePath. *)
EXTENDS LdpReceivePath

CONSTANTS c1, c2   \* two payloads that are told apart

TwoContents == {c1, c2}
=============================================================================
