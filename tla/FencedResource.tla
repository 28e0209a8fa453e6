--------------------------- MODULE FencedResource ---------------------------
(***************************************************************************)
(* What the routing-table mutation lease promises the resource it guards.  *)
(* Tokens are minted one after the other, and a write is only ever made    *)
(* under the newest token: once token t+1 exists, no holder of t or of an  *)
(* older token writes again.  MutationLock implements this specification.  *)
(***************************************************************************)
EXTENDS Integers

VARIABLES
    minted,   \* the newest token handed out so far, 0 before the first
    written   \* the token the resource was last written under, 0 if never

Init ==
    /\ minted = 0
    /\ written = 0

Mint ==
    /\ minted' = minted + 1
    /\ UNCHANGED written

Write ==
    /\ minted > 0
    /\ written' = minted
    /\ UNCHANGED minted

Next == Mint \/ Write

Spec == Init /\ [][Next]_<<minted, written>>

=============================================================================
