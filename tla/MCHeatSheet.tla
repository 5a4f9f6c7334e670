----------------------------- MODULE MCHeatSheet -----------------------------
(* Small instances of HeatSheet: entries are their rank. *)
EXTENDS HeatSheet, TLC

CONSTANTS a, none

ByNumber == [e \in Entries |-> e]
TwoClubMaps == {[e \in Entries |-> IF e \in 2..3 THEN a ELSE none],
                [e \in Entries |-> IF e <= 3 THEN a ELSE none]}
OfficeSymmetry == Permutations(Offices)
TwoRequests == {[size |-> 2, lanes |-> 2], [size |-> 4, lanes |-> 0]}
=============================================================================
