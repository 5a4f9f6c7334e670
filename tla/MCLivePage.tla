------------------------------ MODULE MCLivePage ------------------------------
(* Small instances of LivePage. *)
EXTENDS LivePage, TLC

CONSTANTS de

OneLocale == [v \in Viewers |-> de]
=============================================================================
