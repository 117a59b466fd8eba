----------------------------- MODULE MC_Merkle -----------------------------
(* Merkle with every number of sheets up to MaxLeaves. *)
EXTENDS Merkle
=============================================================================
