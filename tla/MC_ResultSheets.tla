-------------------------- MODULE MC_ResultSheets --------------------------
(* ResultSheets with few officers, and figures at and around the overvote. *)
EXTENDS ResultSheets, TLC

(* One vote for every party. *)
OneEach == [p \in Parties |-> 1]

Exact == [accredited |-> Cardinality(Parties), rejected |-> 0, scores |-> OneEach]
OneOver == [accredited |-> Cardinality(Parties), rejected |-> 1, scores |-> OneEach]

MCReports == {Exact, OneOver}

Symmetry == Permutations(Officers) \cup Permutations(Units) \cup Permutations(Elections)
=============================================================================
