--------------------------- MODULE MCLdpSendPath ---------------------------
(* Model-checking instances of LdpSendPath. *)
EXTENDS LdpSendPath

\* Lines of one packet, filled to its last byte or not; of two packets, the second
\* with the NUL alone; and of three packets, more than any window of the runs
\* holds.
FewLengths  == {7, 8}
AllLengths  == {0, 7, 8, 23}
=============================================================================
