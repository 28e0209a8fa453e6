--------------------------- MODULE MCMutationLock ---------------------------
(***************************************************************************)
(* MutationLock for TLC: interchangeable processes.                        *)
(***************************************************************************)
EXTENDS MutationLock, TLC

Symmetry == Permutations(Proc)

=============================================================================
