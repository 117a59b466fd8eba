----------------------- MODULE MC_LegacyAccreditation -----------------------
(* Three requests for one voter. *)
EXTENDS LegacyAccreditation, TLC

Symmetry == Permutations(Requests) \cup Permutations(Codes)
=============================================================================
