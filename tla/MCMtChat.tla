------------------------------ MODULE MCMtChat ------------------------------
(* A model-checking instance of MtChat. *)
EXTENDS MtChat

\* Memory that is all zero; junk in the first slot, with the bit of descriptor 0 set
\* until FD_ZERO; and the number of the first descriptor in the last slot.
Zero        == { << [i \in Slots |-> Nothing], {} >> }
AnyContents ==
  Zero \cup { << [i \in Slots |-> IF i = 0 THEN Junk ELSE Nothing], {Nothing} >>,
            << [i \in Slots |-> IF i = MaxBuffer - 1 THEN 1 ELSE Nothing], {} >> }
=============================================================================
