---------------------------- MODULE MC_VoterPage ----------------------------
(* Two voters who use one page, and the sessions they open. *)
EXTENDS VoterPage
=============================================================================
