----------------------------- MODULE MCGpuLease ------------------------------
(***************************************************************************)
(* GpuLease for TLC.                                                       *)
(***************************************************************************)
EXTENDS GpuLease, TLC

Symmetry == Permutations(Proc)

=============================================================================
