------------------------- MODULE MCRoutingAdoption --------------------------
(***************************************************************************)
(* RoutingAdoption for TLC: interchangeable ticks and table contents.      *)
(***************************************************************************)
EXTENDS RoutingAdoption, TLC

\* Not an invariant: the same as UnconfirmedIsJournalled of a candidate that replaced
\* no table.  The rollback inside adoptRoutingTable has nothing to restore, counts
\* that as done, and the intent is closed with the candidate live
\* (MCRoutingAdoptionFirst.cfg).
FirstIsJournalled ==
    ~clobbered /\ trial = "first" => intent.status = "pending" /\ intent.cand = table

\* Not an invariant: saveAdoptionIntent's "at most one adoption intent in flight at a
\* time" (MCRoutingAdoptionSlot.cfg).
JournalIsSingleSlot == ~clobbered

Symmetry == Permutations(Tick) \cup Permutations(Content)

=============================================================================
