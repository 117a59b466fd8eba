--------------------------- MODULE MC_LegacyVoting ---------------------------
(* Two requests, two ballots, one voter and one polling unit. *)
EXTENDS LegacyVoting, TLC

Symmetry == Permutations(Requests) \cup Permutations(Ballots)
=============================================================================
