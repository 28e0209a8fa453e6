------------------------ MODULE MCConstitutionalRoute ------------------------
(***************************************************************************)
(* ConstitutionalRoute for TLC.                                            *)
(***************************************************************************)
EXTENDS ConstitutionalRoute

=============================================================================
