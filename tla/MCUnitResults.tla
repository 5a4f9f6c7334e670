---------------------------- MODULE MCUnitResults ----------------------------
(* Small instances of UnitResults. *)
EXTENDS UnitResults, TLC

ResultsSymmetry == Permutations(Athletes) \union Permutations(Calls)
=============================================================================
