-------------------------- MODULE MC_Administration --------------------------
(* Two administrators, two requests in hand and one officer. *)
EXTENDS Administration, TLC

Symmetry == Permutations(Requests) \cup Permutations(Usernames)
=============================================================================
