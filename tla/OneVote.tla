------------------------------- MODULE OneVote -------------------------------
(***************************************************************************)
(* What the ballot box promises, without a ledger, a hash or a session: a  *)
(* registered voter adds one to one cell of the count, once per election,  *)
(* while that election is open.  The count is kept per polling unit because *)
(* the unit is "taken from the register, never from the client" (main.py). *)
(* BallotBox implements this module, and through it VoterAPI and           *)
(* Transactions do.                                                        *)
(***************************************************************************)
EXTENDS Integers, FiniteSets

CONSTANTS Voters, Elections, Parties, PollingUnits, Unregistered

VARIABLES
  register,   \* the polling unit of every registered voter
  status,     \* PENDING, OPEN or CLOSED, per election
  voted,      \* who has voted in what
  count       \* count[<<e, u, p>>]: ballots for party p at unit u in election e

vars == <<register, status, voted, count>>

Cells == Elections \X PollingUnits \X Parties

Init ==
  /\ register \in [Voters -> PollingUnits \cup {Unregistered}]
  /\ status = [e \in Elections |-> "PENDING"]
  /\ voted = {}
  /\ count = [c \in Cells |-> 0]

Enrol(v, u) ==
  /\ register[v] = Unregistered
  /\ register' = [register EXCEPT ![v] = u]
  /\ UNCHANGED <<status, voted, count>>

(* The only two changes of status there are; nothing reopens an election. *)
Advance(e) ==
  /\ \/ status[e] = "PENDING" /\ status' = [status EXCEPT ![e] = "OPEN"]
     \/ status[e] = "OPEN" /\ status' = [status EXCEPT ![e] = "CLOSED"]
  /\ UNCHANGED <<register, voted, count>>

Vote(v, e, p) ==
  /\ register[v] # Unregistered
  /\ status[e] = "OPEN"
  /\ <<v, e>> \notin voted
  /\ voted' = voted \cup {<<v, e>>}
  /\ count' = [count EXCEPT ![<<e, register[v], p>>] = @ + 1]
  /\ UNCHANGED <<register, status>>

Next ==
  \/ \E v \in Voters, u \in PollingUnits : Enrol(v, u)
  \/ \E e \in Elections : Advance(e)
  \/ \E v \in Voters, e \in Elections, p \in Parties : Vote(v, e, p)

Spec == Init /\ [][Next]_vars
=============================================================================
