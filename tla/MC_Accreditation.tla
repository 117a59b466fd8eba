-------------------------- MODULE MC_Accreditation --------------------------
(* Accreditation with few voters, few tokens and a short clock. *)
EXTENDS Accreditation
=============================================================================
