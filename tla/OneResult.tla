------------------------------ MODULE OneResult ------------------------------
(***************************************************************************)
(* What the collation of result sheets promises: a polling unit reports    *)
(* one set of figures per election, once it has opened; figures that add   *)
(* up are counted at once and for good; figures that do not are held until *)
(* one decision, which is final, counts or voids them.                     *)
(***************************************************************************)
EXTENDS Integers, FiniteSetsExt

CONSTANTS
  Elections, Units, Parties,
  Reports    \* the figures that units report

VARIABLES
  status,    \* PENDING, OPEN or CLOSED, per election
  outcome    \* per election and unit: what the tally makes of its figures

vars == <<status, outcome>>

Cells == Elections \X Units

(* sum(scores) + rejected > accredited: more ballots than voters. *)
Overvote(f) ==
  MapThenSumSet(LAMBDA p : f.scores[p], Parties) + f.rejected > f.accredited

NoResult == [state |-> "none"]

Init ==
  /\ status = [e \in Elections |-> "PENDING"]
  /\ outcome = [c \in Cells |-> NoResult]

Advance(e) ==
  /\ \/ status[e] = "PENDING" /\ status' = [status EXCEPT ![e] = "OPEN"]
     \/ status[e] = "OPEN" /\ status' = [status EXCEPT ![e] = "CLOSED"]
  /\ UNCHANGED outcome

(* Sheets still arrive after the close: units report at the end of the day. *)
Report(c, f) ==
  /\ status[c[1]] # "PENDING"
  /\ outcome[c] = NoResult
  /\ outcome' = [outcome EXCEPT ![c] =
                   [state |-> IF Overvote(f) THEN "held" ELSE "counted", figures |-> f]]
  /\ UNCHANGED status

Decide(c, decision) ==
  /\ outcome[c] # NoResult /\ outcome[c].state = "held"
  /\ outcome' = [outcome EXCEPT ![c].state = decision]
  /\ UNCHANGED status

Next ==
  \/ \E e \in Elections : Advance(e)
  \/ \E c \in Cells, f \in Reports : Report(c, f)
  \/ \E c \in Cells, decision \in {"counted", "void"} : Decide(c, decision)

Spec == Init /\ [][Next]_vars
=============================================================================
