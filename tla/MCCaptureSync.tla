---------------------------- MODULE MCCaptureSync ----------------------------
(* Small instances of CaptureSync: values typed in two spellings of one mark, *)
(* a second mark, and one that validation refuses.                            *)
EXTENDS CaptureSync, TLC

Spelling == [r \in Raws |-> IF r = "6.1" THEN "6.10" ELSE r]

SyncSymmetry == Permutations(Requests) \union Permutations(Ops) \union Permutations(Items)
=============================================================================
