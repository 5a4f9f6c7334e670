--------------------------- MODULE MCRoundProgress ---------------------------
(* Small instances of RoundProgress: two heats of two. *)
EXTENDS RoundProgress

TwoByTwo == [e \in Entries |-> (e + 1) \div 2]
ByNumber == [e \in Entries |-> e]
TwoTrackRules == {[topN |-> 1, fastestK |-> 1], [topN |-> 0, fastestK |-> 2]}
TwoStandards == {[standard |-> 2, capacity |-> 2, lower |-> FALSE],
                 [standard |-> 0, capacity |-> 1, lower |-> TRUE]}
=============================================================================
