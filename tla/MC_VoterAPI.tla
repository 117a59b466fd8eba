----------------------------- MODULE MC_VoterAPI -----------------------------
(* The voter API on two voters, two elections and a short clock. *)
EXTENDS VoterAPI, TLC

Symmetry ==
  Permutations(Voters) \cup Permutations(Elections) \cup Permutations(PollingUnits)
=============================================================================
