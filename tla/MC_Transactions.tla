--------------------------- MODULE MC_Transactions ---------------------------
(* Transactions with a few workers on one small electorate. *)
EXTENDS Transactions, TLC

Symmetry == Permutations(Workers) \cup Permutations(Voters)
=============================================================================
