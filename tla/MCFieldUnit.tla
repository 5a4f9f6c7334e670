----------------------------- MODULE MCFieldUnit -----------------------------
(* Small instances of FieldUnit. *)
EXTENDS FieldUnit, TLC

\* Bar heights go up: one to three of them.
Rising == {<<1>>, <<1, 2>>, <<1, 3>>, <<1, 2, 3>>}
TwoHeights == {<<1, 2>>}

FieldSymmetry == Permutations(Athletes) \union Permutations(Calls)
=============================================================================
