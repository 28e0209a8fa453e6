------------------------- MODULE MCMaintenanceWindow -------------------------
(***************************************************************************)
(* MaintenanceWindow for TLC: two owners of one key and a guest.           *)
(***************************************************************************)
EXTENDS MaintenanceWindow

CONSTANTS a1, a2, g1, ka, kc

MCkeyId == [r \in Request |-> IF r = g1 THEN kc ELSE ka]

MClane == [r \in Request |-> IF r = g1 THEN "guest" ELSE "owner"]

MCmaxParallel == [k \in Key |-> 2]

=============================================================================
