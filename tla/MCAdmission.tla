----------------------------- MODULE MCAdmission -----------------------------
(***************************************************************************)
(* Admission for TLC: three owner requests of key ka, one owner of kb, one *)
(* guest of kc.  Requests alike in key and lane are interchangeable.       *)
(***************************************************************************)
EXTENDS Admission, TLC

CONSTANTS a1, a2, a3, b1, g1, ka, kb, kc

MCkeyId == [r \in Request |-> CASE r \in {a1, a2, a3} -> ka [] r = b1 -> kb [] r = g1 -> kc]

MClane == [r \in Request |-> IF r = g1 THEN "guest" ELSE "owner"]

MCmaxParallel == [k \in Key |-> IF k = ka THEN 2 ELSE 1]

Symmetry == Permutations({a1, a2, a3} \cap Request)

=============================================================================
