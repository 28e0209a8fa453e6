------------------------- MODULE MCAdoptionWatchdog -------------------------
(***************************************************************************)
(* Two task types and two runs of the watch.                               *)
(***************************************************************************)
EXTENDS AdoptionWatchdog

Symmetry == Permutations(Runner) \cup Permutations(Axis)
=============================================================================
