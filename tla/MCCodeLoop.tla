----------------------------- MODULE MCCodeLoop -----------------------------
(***************************************************************************)
(* CodeLoop for TLC.                                                       *)
(***************************************************************************)
EXTENDS CodeLoop, TLC

Symmetry == Permutations(Gateways)

=============================================================================
