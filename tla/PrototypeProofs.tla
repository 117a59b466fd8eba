-------------------------- MODULE PrototypeProofs --------------------------
(***************************************************************************)
(* What holds of the prototype although nothing in it is one transaction,  *)
(* for any number of voters, ballots, units and requests.                  *)
(*                                                                         *)
(* Casting rests on the UNIQUE columns of ballot_ledger and                *)
(* ballot_receipts alone: whatever a request has read before, of the       *)
(* commits of one ballot only one succeeds.  Every entry of the ledger     *)
(* therefore belongs to one request, and all else follows from where that  *)
(* request is, but for the state tally, for which sums over finite sets    *)
(* are needed.  Accreditation, at the end, rests on the two marks no       *)
(* operation takes back: a voter accredited, a code used.                  *)
(***************************************************************************)
EXTENDS LegacyVoting, LegacyAccreditation, FiniteSetTheorems, TLAPS

-----------------------------------------------------------------------------
(* Types. *)

Early == {"idempotency", "forget", "session", "lock", "take", "state", "engine", "ballot",
          "commit"}
Late == {"transition", "move", "log", "record", "unlock", "done", "left locked"}
Replies == {"none", "failed", "in_progress", "error", "success"}

Request ==
  [pc : Early \cup {"tally"} \cup Late, secure : BOOLEAN, keyed : BOOLEAN, voter : Voters,
   ballot : Ballots, unit : Units, party : Parties, head : Nat, reply : Replies]
Entry == [ballot : Ballots, voter : Voters, unit : Units, party : Parties, previous : Nat]
Reply == [voter : Voters, reply : Replies, expires_at : Nat]

(* Before its ballot is counted a request has no reply, and it moves the   *)
(* voter's state only after.                                               *)
RequestTypes ==
  /\ requests \in [Requests -> Request \cup {NewRequest}]
  /\ \A r \in Started :
       /\ requests[r].pc \in Early \cup {"tally"} => requests[r].reply = "none"
       /\ requests[r].pc \in {"transition", "move"} =>
            requests[r].secure /\ requests[r].reply = "success"

(* Whoever commits has seen that the ballot was issued to her. *)
CommitsIssued ==
  \A r \in Started : requests[r].pc = "commit" =>
    issued[requests[r].ballot] # None /\ issued[requests[r].ballot].voter = requests[r].voter

TypeInv ==
  /\ TypeOK /\ RequestTypes /\ CommitsIssued
  /\ ledger \in Seq(Entry)
  /\ idempotency \in [Ballots -> Reply \cup {None}]

LEMMA StartedTypes ==
  ASSUME RequestTypes, NEW r \in Requests
  PROVE  /\ requests[r].pc # "new" => requests[r] \in Request
         /\ requests[r].pc = "new" => requests[r] = NewRequest
         /\ r \in Started <=> requests[r].pc # "new"
<1>1. requests[r] \in Request \cup {NewRequest}  BY DEF RequestTypes
<1>2. \A q \in Request : q.pc # "new"  BY DEF Request, Early, Late
<1>3. NewRequest.pc = "new"  BY DEF NewRequest
<1> QED  BY <1>1, <1>2, <1>3 DEF Started

(* A request that goes on keeps its arguments. *)
Same(q, p) ==
  /\ p.secure = q.secure /\ p.keyed = q.keyed /\ p.voter = q.voter /\ p.ballot = q.ballot
  /\ p.unit = q.unit /\ p.party = q.party

(* Request r goes to pc with a reply; nothing becomes of the others. *)
Moves(r, pc, reply) ==
  /\ requests' = [requests EXCEPT ![r] = requests'[r]]
  /\ requests[r] \in Request /\ requests'[r] \in Request
  /\ Same(requests[r], requests'[r])
  /\ requests'[r].pc = pc /\ requests'[r].reply = reply

LEMMA GotoMoves ==
  ASSUME RequestTypes, NEW r \in Requests, requests[r].pc # "new",
         NEW pc \in Early \cup {"tally"} \cup Late, Goto(r, pc)
  PROVE  Moves(r, pc, requests[r].reply)
<1>1. requests[r] \in Request  BY StartedTypes
<1>2. requests'[r] = [requests[r] EXCEPT !.pc = pc]  BY DEF Goto, RequestTypes
<1>3. requests' = [requests EXCEPT ![r] = requests'[r]]  BY <1>2 DEF Goto, RequestTypes
<1> QED  BY <1>1, <1>2, <1>3 DEF Moves, Same, Request

LEMMA AnswerMoves ==
  ASSUME RequestTypes, NEW r \in Requests, requests[r].pc # "new",
         NEW pc \in Early \cup {"tally"} \cup Late, NEW reply \in Replies, Answer(r, pc, reply)
  PROVE  Moves(r, pc, reply)
<1>1. requests[r] \in Request  BY StartedTypes
<1>2. requests'[r] = [[requests[r] EXCEPT !.pc = pc] EXCEPT !.reply = reply]
  BY DEF Answer, RequestTypes
<1>3. requests' = [requests EXCEPT ![r] = requests'[r]]  BY <1>2 DEF Answer, RequestTypes
<1> QED  BY <1>1, <1>2, <1>3 DEF Moves, Same, Request

Typed(q) ==
  /\ q.pc \in Early \cup {"tally"} => q.reply = "none"
  /\ q.pc \in {"transition", "move"} => q.secure /\ q.reply = "success"

LEMMA MovesTyped ==
  ASSUME RequestTypes, NEW r \in Requests, NEW pc, NEW reply, Moves(r, pc, reply),
         Typed(requests'[r])
  PROVE  RequestTypes'
<1>1. requests' \in [Requests -> Request \cup {NewRequest}]  BY DEF Moves, RequestTypes
<1>2. \A s \in Requests : s # r => requests'[s] = requests[s]  BY DEF Moves, RequestTypes
<1> QED  BY <1>1, <1>2 DEF RequestTypes, Typed, Started

-----------------------------------------------------------------------------
(* What one step of a request does: it commits its ballot, it ends its     *)
(* tally one way or the other, or it does neither and is quiet.            *)

Counts(r) ==
  LET q == requests[r]
  IN /\ q.pc = "commit" /\ IsUnique(q.ballot)
     /\ Moves(r, "tally", "none")
     /\ ledger' = Append(ledger, [ballot |-> q.ballot, voter |-> q.voter, unit |-> q.unit,
                                  party |-> q.party, previous |-> q.head])
     /\ issued' = [issued EXCEPT ![q.ballot].is_used = TRUE]
     /\ receipts' = receipts \cup {q.ballot}
     /\ UNCHANGED <<tallies, workflow>>

Tallies(r) ==
  LET q == requests[r]
      c == <<q.unit, q.party>>
  IN /\ q.pc = "tally"
     /\ Moves(r, IF q.secure THEN "transition" ELSE "done", "success")
     /\ tally' = [tally EXCEPT ![c] = tally[c] + 1]
     /\ has_voted' = has_voted \cup {q.voter}
     /\ UNCHANGED <<untallied, box, workflow>>

Fails(r) ==
  /\ requests[r].pc = "tally"
  /\ \E pc \in {"unlock", "done"} : Moves(r, pc, "error")
  /\ untallied' = untallied \cup {requests[r].ballot}
  /\ UNCHANGED <<tally, has_voted, box, workflow>>

(* A reply is kept or is an error, but for a hit of the idempotency table. *)
RepliesKept(r) ==
  LET q == requests[r]
      row == idempotency[q.ballot]
      p == requests'[r]
  IN /\ p.reply = "success" =>
          q.reply = "success" \/ (row # None /\ row.voter = q.voter /\ row.reply = "success")
     /\ q.pc \in Late => p.pc \in Late /\ p.reply \in {q.reply, "error"}
     /\ \A b \in Ballots : \/ idempotency'[b] \in {idempotency[b], None}
                           \/ /\ b = q.ballot /\ idempotency'[b].voter = q.voter
                              /\ idempotency'[b].reply = q.reply

(* The voter's state is what the request needs, or needs no more.          *)
StateFollowed(r) ==
  LET q == requests[r]
      p == requests'[r]
  IN /\ \A v \in Voters : voter_state'[v] \in {voter_state[v], "VOTE_CAST"}
     /\ p.pc \in {"engine", "ballot", "commit"} /\ p.secure =>
          q.pc \in {"engine", "ballot"} \/ voter_state[q.voter] = "BALLOT_ISSUED"
     /\ q.pc \in {"transition", "move"} /\ p.pc \notin {"transition", "move"}
          /\ p.reply = "success" =>
          \/ voter_state'[q.voter] = "VOTE_CAST"
          \/ voter_state[q.voter] \notin {None, "BALLOT_ISSUED"} /\ UNCHANGED voter_state

Quiet(r) ==
  /\ requests[r].pc # "tally" /\ requests'[r].pc # "tally"
  /\ \E pc, reply : Moves(r, pc, reply)
  /\ requests'[r].pc = "commit" => Unused(r)
  /\ RepliesKept(r) /\ StateFollowed(r)
  /\ UNCHANGED <<tally, has_voted, untallied, box>>

(* An action that leaves state and replies to others. *)
LEMMA QuietMove ==
  ASSUME TypeInv, NEW r \in Requests,
         NEW pc \in (Early \ {"commit"}) \cup Late, NEW reply \in Replies,
         Moves(r, pc, reply), requests[r].pc \in Early \cup Late,
         requests[r].pc \in Late => pc \in Late /\ reply \in {requests[r].reply, "error"},
         requests[r].pc \notin Late => reply # "success",
         pc \in {"engine", "ballot"} /\ requests[r].secure =>
           requests[r].pc = "engine" \/ voter_state[requests[r].voter] = "BALLOT_ISSUED",
         requests[r].pc \in {"transition", "move"} => pc = "move" \/ reply = "error"
           \/ voter_state[requests[r].voter] \notin {None, "BALLOT_ISSUED"},
         \A b \in Ballots : idempotency'[b] \in {idempotency[b], None},
         UNCHANGED <<voter_state, tally, has_voted, untallied, box>>
  PROVE  Quiet(r)
<1>1. pc # "tally" /\ pc # "commit" /\ requests[r].pc # "tally"  BY DEF Early, Late
<1>2. requests[r] \in Request  BY DEF Moves
<1>3. RepliesKept(r)
  BY <1>2 DEF RepliesKept, Moves, TypeInv, RequestTypes
<1>4. StateFollowed(r)
  <2>1. /\ requests'[r].pc = pc /\ requests'[r].reply = reply
        /\ requests'[r].secure = requests[r].secure
    BY DEF Moves, Same
  <2>2. \A v \in Voters : voter_state'[v] \in {voter_state[v], "VOTE_CAST"}  OBVIOUS
  <2> QED  BY <1>1, <2>1, <2>2 DEF StateFollowed
<1> QED  BY <1>1, <1>3, <1>4 DEF Quiet, Moves

LEMMA StepEffect ==
  ASSUME TypeInv, NEW r \in Requests, Step(r)
  PROVE  RequestTypes' /\ (Counts(r) \/ Tallies(r) \/ Fails(r) \/ Quiet(r))
<1> DEFINE q == requests[r]
           Kind == Counts(r) \/ Tallies(r) \/ Fails(r) \/ Quiet(r)
           Goal == RequestTypes' /\ Kind
<1> USE DEF box, tallies, workflow, env, At
<1>a. RequestTypes  BY DEF TypeInv
<1>b. ASSUME q.pc # "new" PROVE q \in Request /\ q.reply \in Replies /\ Typed(q)
  BY <1>a, <1>b, StartedTypes DEF Request, RequestTypes, Typed, Started
<1>c. ASSUME NEW pc, NEW reply, Moves(r, pc, reply), pc \notin Early,
             pc = "tally" => reply = "none",
             pc \in {"transition", "move"} => q.secure /\ reply = "success"
      PROVE  RequestTypes'
  <2>1. Typed(requests'[r])  BY <1>c DEF Typed, Moves, Same
  <2> QED  BY <1>a, <1>c, <2>1, MovesTyped
<1>d. ASSUME NEW pc \in Early, Moves(r, pc, "none") PROVE RequestTypes'
  <2>1. Typed(requests'[r])  BY <1>d DEF Typed, Moves, Early
  <2> QED  BY <1>a, <1>d, <2>1, MovesTyped
<1> HIDE DEF q
<1>1. CASE CheckIdempotency(r)
  <2> DEFINE row == idempotency[q.ballot]
             hit == row # None /\ row.voter = q.voter
  <2>0. q.pc = "idempotency" /\ q \in Request /\ q.reply = "none"
    BY <1>1, <1>b DEF CheckIdempotency, q, Typed, Early
  <2>1. CASE hit /\ Answer(r, "done", row.reply)
    <3>1. row \in Reply  BY <2>0, <2>1 DEF TypeInv, Request
    <3>2. Moves(r, "done", row.reply)
      BY <1>a, <2>0, <2>1, <3>1, AnswerMoves DEF q, Reply, Late
    <3>3. RequestTypes'  BY <1>c, <3>2 DEF Early
    <3>4. RepliesKept(r)
      BY <1>1, <2>0, <2>1, <3>2 DEF RepliesKept, Moves, CheckIdempotency, Late, q
    <3>5. StateFollowed(r)
      BY <1>1, <2>0, <3>2 DEF StateFollowed, Moves, CheckIdempotency, q
    <3>6. Quiet(r)
      BY <1>1, <2>0, <3>2, <3>4, <3>5 DEF Quiet, Moves, CheckIdempotency, q
    <3> QED  BY <3>3, <3>6
  <2>2. CASE \E pc \in {"forget", "session"} : Goto(r, pc)
    <3>1. PICK pc \in {"forget", "session"} : Goto(r, pc)  BY <2>2
    <3>2. Moves(r, pc, "none")
      BY <1>a, <2>0, <3>1, GotoMoves DEF q, Early
    <3>3. RequestTypes'  BY <1>d, <3>2 DEF Early
    <3>4. Quiet(r)
      BY <1>1, <2>0, <3>2, QuietMove DEF q, Early, Late, Replies, CheckIdempotency
    <3> QED  BY <3>3, <3>4
  <2> QED  BY <1>1, <2>1, <2>2 DEF CheckIdempotency, q
<1>2. CASE ForgetReply(r)
  <2>0. q.pc = "forget" /\ q \in Request /\ q.reply = "none"
    BY <1>2, <1>b DEF ForgetReply, q, Typed, Early
  <2>1. Moves(r, "session", "none")
    BY <1>2, <1>a, <2>0, GotoMoves DEF q, Early, ForgetReply
  <2>2. \A b \in Ballots : idempotency'[b] \in {idempotency[b], None}
    BY <1>2 DEF ForgetReply, TypeInv
  <2>3. Quiet(r)
    BY <1>2, <2>0, <2>1, <2>2, QuietMove DEF q, Early, Late, Replies, ForgetReply
  <2> QED  BY <1>d, <2>1, <2>3 DEF Early
<1>3. CASE CheckSession(r) \/ ReadLock(r)
  <2>0. /\ q.pc \in {"session", "lock"} /\ q \in Request /\ q.reply = "none"
        /\ UNCHANGED <<voter_state, tally, has_voted, untallied, box, idempotency>>
    BY <1>3, <1>b DEF CheckSession, ReadLock, q, Typed, Early
  <2>1. \/ Moves(r, "lock", "none") \/ Moves(r, "take", "none")
        \/ Moves(r, "done", "failed") \/ Moves(r, "done", "in_progress")
    BY <1>3, <1>a, <2>0, GotoMoves, AnswerMoves DEF q, Early, Late, Replies, CheckSession, ReadLock
  <2>2. Quiet(r)
    BY <2>0, <2>1, QuietMove DEF q, Early, Late, Replies
  <2> QED  BY <1>c, <1>d, <2>1, <2>2 DEF Early
<1>4. CASE TakeLock(r)
  <2>0. /\ q.pc = "take" /\ q \in Request /\ q.reply = "none"
        /\ UNCHANGED <<voter_state, tally, has_voted, untallied, box, idempotency>>
    BY <1>4, <1>b DEF TakeLock, q, Typed, Early
  <2>1. Moves(r, "state", "none")
    BY <1>4, <1>a, <2>0, GotoMoves DEF q, Early, TakeLock
  <2>2. Quiet(r)
    BY <2>0, <2>1, QuietMove DEF q, Early, Late, Replies
  <2> QED  BY <1>d, <2>1, <2>2 DEF Early
<1>5. CASE CheckState(r) \/ EngineSession(r)
  <2>0. /\ q.pc \in {"state", "engine"} /\ q \in Request /\ q.reply = "none"
        /\ UNCHANGED <<voter_state, tally, has_voted, untallied, box, idempotency>>
    BY <1>5, <1>b DEF CheckState, EngineSession, q, Typed, Early
  <2>1. \/ Moves(r, "engine", "none") /\ voter_state[q.voter] = "BALLOT_ISSUED"
        \/ Moves(r, "ballot", "none") /\ q.pc = "engine"
        \/ \E pc \in {"unlock", "done", "log"} : Moves(r, pc, "failed")
    BY <1>5, <1>a, <2>0, GotoMoves, AnswerMoves
    DEF q, Early, Late, Replies, CheckState, EngineSession, Leave, Result
  <2>2. Quiet(r)
    BY <2>0, <2>1, QuietMove DEF q, Early, Late, Replies
  <2> QED  BY <1>c, <1>d, <2>1, <2>2 DEF Early
<1>6. CASE ReadBallot(r)
  <2>0. /\ q.pc = "ballot" /\ q \in Request /\ q.reply = "none"
        /\ UNCHANGED <<voter_state, tally, has_voted, untallied, box, idempotency>>
    BY <1>6, <1>b DEF ReadBallot, q, Typed, Early
  <2>1. CASE Unused(r)
    <3>1. requests'[r] = [[q EXCEPT !.pc = "commit"] EXCEPT !.head = HeadHash]
      BY <1>6, <2>1, <1>a DEF ReadBallot, RequestTypes, q
    <3>2. HeadHash \in Nat  BY DEF HeadHash, TypeInv
    <3>3. requests' = [requests EXCEPT ![r] = requests'[r]]
      BY <1>6, <2>1, <3>1, <1>a DEF ReadBallot, RequestTypes, q
    <3>4. Moves(r, "commit", "none")
      BY <2>0, <3>1, <3>2, <3>3 DEF Moves, Same, Request, Early, q
    <3>5. RepliesKept(r)
      BY <2>0, <3>4 DEF RepliesKept, Moves, Late, q
    <3>6. StateFollowed(r)
      BY <2>0, <3>4 DEF StateFollowed, Moves, q
    <3>7. Quiet(r)
      BY <2>0, <2>1, <3>4, <3>5, <3>6 DEF Quiet, Moves, q
    <3> QED  BY <1>d, <3>4, <3>7 DEF Early
  <2>2. CASE ~Unused(r)
    <3>1. \E pc \in {"done", "log"} : Moves(r, pc, "failed")
      BY <1>6, <1>a, <2>0, <2>2, AnswerMoves DEF q, Late, Replies, ReadBallot, Result
    <3>2. Quiet(r)
      BY <2>0, <3>1, QuietMove DEF q, Early, Late, Replies
    <3> QED  BY <1>c, <3>1, <3>2 DEF Early
  <2> QED  BY <2>1, <2>2
<1>7. CASE CommitBallot(r)
  <2>0. q.pc = "commit" /\ q \in Request /\ q.reply = "none"
    BY <1>7, <1>b DEF CommitBallot, q, Typed, Early
  <2>1. CASE IsUnique(q.ballot)
    <3>1. Moves(r, "tally", "none")
      BY <1>7, <1>a, <2>0, <2>1, GotoMoves DEF q, CommitBallot
    <3>2. Counts(r)
      BY <1>7, <2>0, <2>1, <3>1 DEF Counts, CommitBallot, q
    <3> QED  BY <1>c, <3>1, <3>2 DEF Early
  <2>2. CASE ~IsUnique(q.ballot)
    <3>1. \E pc \in {"unlock", "done"} : Moves(r, pc, "error")
      BY <1>7, <1>a, <2>0, <2>2, AnswerMoves DEF q, Late, Replies, CommitBallot, Leave
    <3>2. UNCHANGED <<voter_state, tally, has_voted, untallied, box, idempotency>>
      BY <1>7, <2>2 DEF CommitBallot, q
    <3>3. Quiet(r)
      BY <2>0, <3>1, <3>2, QuietMove DEF q, Early, Late, Replies
    <3> QED  BY <1>c, <3>1, <3>3 DEF Early
  <2> QED  BY <2>1, <2>2
<1>8. CASE UpdateTally(r)
  <2>0. q.pc = "tally" /\ q \in Request
    BY <1>8, <1>b DEF UpdateTally, q
  <2>1. Moves(r, IF q.secure THEN "transition" ELSE "done", "success")
    BY <1>8, <1>a, <2>0, AnswerMoves DEF q, Late, Replies, UpdateTally
  <2>2. Tallies(r)
    BY <1>8, <2>0, <2>1 DEF Tallies, UpdateTally, Incremented, q
  <2>3. RequestTypes'
    <3> DEFINE pc == IF q.secure THEN "transition" ELSE "done"
    <3>1. pc \notin Early /\ pc # "tally" /\ (pc \in {"transition", "move"} => q.secure)
      BY DEF Early
    <3>2. Moves(r, pc, "success")  BY <2>1
    <3> HIDE DEF pc
    <3> QED  BY <1>c, <3>1, <3>2
  <2> QED  BY <2>2, <2>3
<1>9. CASE ReadState(r)
  <2>0. /\ q.pc = "transition" /\ q \in Request /\ q.reply = "success" /\ q.secure
        /\ UNCHANGED <<voter_state, tally, has_voted, untallied, box, idempotency>>
    BY <1>9, <1>b DEF ReadState, q, Typed
  <2>1. \/ Moves(r, "move", "success")
        \/ Moves(r, "log", "success") /\ voter_state[q.voter] \notin {None, "BALLOT_ISSUED"}
    BY <1>9, <1>a, <2>0, GotoMoves DEF q, Late, ReadState
  <2>2. Quiet(r)
    BY <2>0, <2>1, QuietMove DEF q, Early, Late, Replies
  <2> QED  BY <1>c, <2>0, <2>1, <2>2 DEF Early
<1>10. CASE MoveState(r)
  <2>0. q.pc = "move" /\ q \in Request /\ q.reply = "success"
    BY <1>10, <1>b DEF MoveState, q, Typed
  <2>1. Moves(r, "log", "success")
    BY <1>10, <1>a, <2>0, GotoMoves DEF q, Late, MoveState
  <2>2. voter_state' = [voter_state EXCEPT ![q.voter] = "VOTE_CAST"] /\ q.voter \in Voters
    BY <1>10, <2>0 DEF MoveState, Target, Request, q
  <2>3. StateFollowed(r)
    BY <2>0, <2>1, <2>2 DEF StateFollowed, Moves, TypeInv, TypeOK, q
  <2>4. RepliesKept(r)
    BY <1>10, <2>0, <2>1 DEF RepliesKept, Moves, MoveState, Late, q
  <2>5. Quiet(r)
    BY <1>10, <2>0, <2>1, <2>3, <2>4 DEF Quiet, Moves, MoveState, q
  <2> QED  BY <1>c, <2>1, <2>5 DEF Early
<1>11. CASE LogResult(r) \/ Unlock(r)
  <2>0. /\ q.pc \in {"log", "unlock"} /\ q \in Request /\ q.reply \in Replies
        /\ UNCHANGED <<voter_state, tally, has_voted, untallied, box, idempotency>>
    BY <1>11, <1>b DEF LogResult, Unlock, q
  <2>1. \E pc \in {"record", "unlock", "done"} : Moves(r, pc, q.reply)
    BY <1>11, <1>a, <2>0, GotoMoves DEF q, Late, LogResult, Unlock, Record, Leave
  <2>2. Quiet(r)
    BY <2>0, <2>1, QuietMove DEF q, Early, Late, Replies
  <2> QED  BY <1>c, <2>1, <2>2 DEF Early
<1>12. CASE RecordReply(r)
  <2>0. /\ q.pc = "record" /\ q \in Request /\ q.reply \in Replies
        /\ UNCHANGED <<voter_state, tally, has_voted, untallied, box>>
    BY <1>12, <1>b DEF RecordReply, q
  <2>1. CASE idempotency[q.ballot] = None
    <3>1. \E pc \in {"unlock", "done"} : Moves(r, pc, q.reply)
      BY <1>12, <1>a, <2>0, <2>1, GotoMoves DEF q, Late, RecordReply, Leave
    <3>2. idempotency' = [idempotency EXCEPT ![q.ballot] =
            [voter |-> q.voter, reply |-> q.reply, expires_at |-> now + IDEM_TTL]]
      BY <1>12, <2>1 DEF RecordReply, q
    <3>3. \A b \in Ballots : \/ idempotency'[b] = idempotency[b]
                             \/ /\ b = q.ballot /\ idempotency'[b].voter = q.voter
                                /\ idempotency'[b].reply = q.reply
      BY <3>2 DEF TypeInv
    <3>4. RepliesKept(r)
      BY <2>0, <3>1, <3>3 DEF RepliesKept, Moves, Late, q
    <3>5. StateFollowed(r)
      BY <2>0, <3>1 DEF StateFollowed, Moves, q
    <3>6. Quiet(r)
      BY <2>0, <3>1, <3>4, <3>5 DEF Quiet, Moves, q
    <3> QED  BY <1>c, <3>1, <3>6 DEF Early
  <2>2. CASE idempotency[q.ballot] # None
    <3>1. \E pc \in {"unlock", "done"} : Moves(r, pc, "error")
      BY <1>12, <1>a, <2>0, <2>2, AnswerMoves DEF q, Late, Replies, RecordReply, Leave
    <3>2. UNCHANGED idempotency  BY <1>12, <2>2 DEF RecordReply, q
    <3>3. Quiet(r)
      BY <2>0, <3>1, <3>2, QuietMove DEF q, Early, Late, Replies
    <3> QED  BY <1>c, <3>1, <3>3 DEF Early
  <2> QED  BY <2>1, <2>2
<1>13. CASE Busy(r)
  <2>0. /\ q.pc \in {"commit", "tally", "move", "log", "record", "forget", "take", "unlock"}
        /\ q \in Request /\ UNCHANGED <<tally, has_voted, box, workflow>>
        /\ untallied' = IF q.pc = "tally" THEN untallied \cup {q.ballot} ELSE untallied
    BY <1>13, <1>b DEF Busy, q
  <2>1. \/ q.pc # "unlock" /\ \E pc \in {"unlock", "done"} : Moves(r, pc, "error")
        \/ q.pc = "unlock" /\ Moves(r, "left locked", "error")
    BY <1>13, <1>a, <2>0, AnswerMoves DEF q, Late, Replies, Busy, Leave, Raised
  <2>2. RequestTypes'  BY <1>c, <2>1 DEF Early
  <2>3. CASE q.pc = "tally"
    BY <2>0, <2>1, <2>2, <2>3 DEF Fails, q
  <2>4. CASE q.pc # "tally"
    <3>1. Quiet(r)
      BY <2>0, <2>1, <2>4, QuietMove DEF q, Early, Late, Replies
    <3> QED  BY <2>2, <3>1
  <2> QED  BY <2>3, <2>4
<1> QED
  BY <1>1, <1>2, <1>3, <1>4, <1>5, <1>6, <1>7, <1>8, <1>9, <1>10, <1>11, <1>12, <1>13 DEF Step

-----------------------------------------------------------------------------
(* Steps from outside the requests, and the arrival of one. *)

Arrival(r) ==
  /\ requests[r] = NewRequest
  /\ requests' = [requests EXCEPT ![r] = requests'[r]]
  /\ requests'[r] \in Request
  /\ requests'[r].pc \in {"idempotency", "session", "engine"} /\ requests'[r].reply = "none"
  /\ requests'[r].secure => requests'[r].pc # "engine"

LEMMA ArriveEffect ==
  ASSUME TypeInv, NEW r \in Requests, NEW secure \in BOOLEAN, NEW keyed \in BOOLEAN,
         NEW v \in Voters, NEW b \in Ballots, NEW u \in Units, NEW p \in Parties,
         Arrive(r, secure, keyed, v, b, u, p)
  PROVE  Arrival(r) /\ RequestTypes'
<1> DEFINE pc == IF keyed THEN "idempotency" ELSE IF secure THEN "session" ELSE "engine"
           q == [pc |-> pc, secure |-> secure, keyed |-> keyed, voter |-> v, ballot |-> b,
                 unit |-> u, party |-> p, head |-> GENESIS, reply |-> "none"]
<1>a. RequestTypes  BY DEF TypeInv
<1>1. requests[r] = NewRequest
  BY <1>a, StartedTypes DEF Arrive, At
<1>2. requests' = [requests EXCEPT ![r] = q]  BY DEF Arrive
<1>3. q \in Request /\ q.pc = pc /\ q.reply = "none" /\ q.secure = secure
  BY DEF Request, GENESIS, Early, Replies
<1>4. pc \in {"idempotency", "session", "engine"} /\ (secure => pc # "engine")
  BY DEF Arrive
<1> HIDE DEF q, pc
<1>5. requests'[r] = q  BY <1>a, <1>2 DEF RequestTypes
<1>6. \A s \in Requests : s # r => requests'[s] = requests[s]  BY <1>2, <1>a DEF RequestTypes
<1>7. requests' \in [Requests -> Request \cup {NewRequest}]
  BY <1>2, <1>3, <1>a DEF RequestTypes
<1>8. RequestTypes'
  BY <1>a, <1>3, <1>4, <1>5, <1>6, <1>7 DEF RequestTypes, Started
<1> QED  BY <1>1, <1>2, <1>3, <1>4, <1>5, <1>8 DEF Arrival

Arrives(r) ==
  \E secure, keyed \in BOOLEAN, v \in Voters, b \in Ballots, u \in Units, p \in Parties :
    Arrive(r, secure, keyed, v, b, u, p)

LEMMA IssuedKept ==
  ASSUME TypeInv, NEW r \in Requests, Arrives(r) \/ Step(r)
  PROVE  CommitsIssued'
<1> USE DEF box, tallies, workflow, env
<1>a. RequestTypes /\ CommitsIssued  BY DEF TypeInv
<1>1. CASE Arrives(r)
  <2>1. PICK secure, keyed \in BOOLEAN, v \in Voters, b \in Ballots, u \in Units, p \in Parties :
               Arrive(r, secure, keyed, v, b, u, p)
    BY <1>1 DEF Arrives
  <2>2. Arrival(r)  BY <2>1, ArriveEffect
  <2>3. issued' = issued  BY <2>1 DEF Arrive
  <2> QED  BY <1>a, <2>2, <2>3 DEF Arrival, CommitsIssued, RequestTypes, Started
<1>2. CASE Counts(r) \/ Tallies(r) \/ Fails(r) \/ Quiet(r)
  <2>1. \A s \in Requests : s # r => requests'[s] = requests[s]
    BY <1>2, <1>a DEF Counts, Tallies, Fails, Quiet, Moves, RequestTypes
  <2>2. \A b \in Ballots : issued[b] # None =>
          issued'[b] # None /\ issued'[b].voter = issued[b].voter
    <3>1. CASE issued' = issued  BY <3>1
    <3>2. CASE Counts(r)
      <4> DEFINE c == requests[r].ballot
      <4>1. c \in Ballots /\ issued[c] # None
        BY <1>a, <3>2 DEF Counts, Moves, Request, CommitsIssued, Started
      <4>2. issued' = [issued EXCEPT ![c] = [issued[c] EXCEPT !.is_used = TRUE]]
        BY <3>2 DEF Counts
      <4>3. issued[c] \in [voter : Voters, is_used : BOOLEAN]
        BY <4>1 DEF TypeInv, TypeOK
      <4>4. /\ [issued[c] EXCEPT !.is_used = TRUE] \in [voter : Voters, is_used : BOOLEAN]
            /\ [issued[c] EXCEPT !.is_used = TRUE].voter = issued[c].voter
        BY <4>3
      <4> QED  BY <4>1, <4>2, <4>4, LegacyVotingAssumptions DEF TypeInv, TypeOK
    <3> QED  BY <1>2, <3>1, <3>2 DEF Tallies, Fails, Quiet
  <2>3. \A s \in Started : s # r /\ requests[s].pc = "commit" =>
          requests[s].ballot \in Ballots
    BY <1>a, StartedTypes DEF Request, Started
  <2>4. requests'[r].pc = "commit" =>
          /\ issued'[requests'[r].ballot] # None
          /\ issued'[requests'[r].ballot].voter = requests'[r].voter
    <3>1. CASE Quiet(r)  BY <3>1 DEF Quiet, Moves, Same, Unused
    <3>2. CASE ~Quiet(r)
      <4>1. requests'[r].pc # "commit"  BY <1>2, <3>2 DEF Counts, Tallies, Fails, Moves
      <4> QED  BY <4>1
    <3> QED  BY <3>1, <3>2
  <2> QED
    BY <1>a, <2>1, <2>2, <2>3, <2>4 DEF CommitsIssued, Started
<1> QED  BY <1>1, <1>2, StepEffect

LEMMA TypeKept == TypeInv /\ [Next]_vars => TypeInv'
<1> SUFFICES ASSUME TypeInv, [Next]_vars PROVE TypeInv'  OBVIOUS
<1> USE LegacyVotingAssumptions DEF box, tallies, workflow, env
<1>a. RequestTypes /\ TypeOK /\ CommitsIssued  BY DEF TypeInv
<1>1. CASE Tick \/ SessionEnds
  <2>1. /\ UNCHANGED <<box, tallies, workflow, requests>> /\ session' \in BOOLEAN
        /\ now' \in 0..MaxTime
    <3>1. CASE Tick  BY <3>1 DEF Tick, TypeInv, TypeOK
    <3>2. CASE SessionEnds  BY <3>2 DEF SessionEnds, TypeInv, TypeOK
    <3> QED  BY <1>1, <3>1, <3>2
  <2> QED  BY <1>a, <2>1 DEF TypeInv, TypeOK, RequestTypes, CommitsIssued, Started
<1>2. ASSUME NEW v \in Voters, NEW b \in Ballots, IssueBallot(v, b) PROVE TypeInv'
  <2>1. issued' \in [Ballots -> [voter : Voters, is_used : BOOLEAN] \cup {None}]
    BY <1>2 DEF IssueBallot, TypeInv, TypeOK
  <2>2. CommitsIssued'
    BY <1>2, <1>a DEF IssueBallot, CommitsIssued, Started, TypeOK
  <2> QED  BY <1>2, <2>1, <2>2 DEF IssueBallot, TypeInv, TypeOK, RequestTypes, Started
<1>3. ASSUME NEW u \in Units, RegisterPollingUnit(u) PROVE TypeInv'
  <2>1. polling_units' \in [Units -> [voted_count : Nat] \cup {None}]
    BY <1>3 DEF RegisterPollingUnit, TypeInv, TypeOK
  <2>2. UNCHANGED <<now, session, tally, state_tally, has_voted, untallied, box, workflow,
                    requests>>
    BY <1>3 DEF RegisterPollingUnit
  <2> QED  BY <1>a, <2>1, <2>2 DEF TypeInv, TypeOK, RequestTypes, CommitsIssued, Started
<1>4. ASSUME NEW v \in Voters, Walk(v) PROVE TypeInv'
  <2>1. voter_state' \in [Voters -> VoterStates \cup {None}]
    BY <1>4 DEF Walk, TypeInv, TypeOK, VoterStates, NextState
  <2> QED  BY <1>4, <2>1 DEF Walk, TypeInv, TypeOK, RequestTypes, CommitsIssued, Started
<1>5. ASSUME NEW r \in Requests, NEW secure \in BOOLEAN, NEW keyed \in BOOLEAN,
             NEW v \in Voters, NEW b \in Ballots, NEW u \in Units, NEW p \in Parties,
             Arrive(r, secure, keyed, v, b, u, p)
      PROVE  TypeInv'
  <2>1. RequestTypes' /\ CommitsIssued'  BY <1>5, ArriveEffect, IssuedKept DEF Arrives
  <2> QED  BY <1>5, <2>1 DEF Arrive, TypeInv, TypeOK
<1>6. ASSUME NEW r \in Requests, Step(r) PROVE TypeInv'
  <2>1. RequestTypes' /\ CommitsIssued'  BY <1>6, StepEffect, IssuedKept
  <2>2. requests[r].pc # "new" => requests[r] \in Request  BY <1>a, StartedTypes
  <2> USE DEF At
  <2>3. CASE \/ CheckIdempotency(r) \/ CheckSession(r) \/ ReadLock(r) \/ CheckState(r)
             \/ EngineSession(r) \/ ReadBallot(r) \/ ReadState(r) \/ LogResult(r)
    <3>1. UNCHANGED <<now, session, box, tallies, workflow>>
      BY <2>3 DEF CheckIdempotency, CheckSession, ReadLock, CheckState, EngineSession,
         ReadBallot, ReadState, LogResult
    <3> QED  BY <2>1, <3>1 DEF TypeInv, TypeOK
  <2>4. CASE ForgetReply(r)
    <3>1. UNCHANGED <<now, session, box, tallies, voter_state, locks>>
          /\ idempotency' \in [Ballots -> Reply \cup {None}]
      BY <2>4 DEF ForgetReply, TypeInv
    <3> QED  BY <2>1, <3>1 DEF TypeInv, TypeOK
  <2>5. CASE TakeLock(r) \/ Unlock(r)
    <3>1. UNCHANGED <<now, session, box, tallies, voter_state, idempotency>>
      BY <2>5 DEF TakeLock, Unlock
    <3>2. \A l \in locks' : l \in [voter : Voters, ballot : Ballots, expires_at : Nat]
      <4>1. requests[r] \in Request  BY <2>2, <2>5 DEF TakeLock, Unlock
      <4>2. now + LOCK_TTL \in Nat  BY DEF TypeInv, TypeOK
      <4>3. CASE TakeLock(r)
        BY <4>1, <4>2, <4>3 DEF TakeLock, Request, TypeInv, TypeOK
      <4>4. CASE Unlock(r)
        BY <4>4 DEF Unlock, TypeInv, TypeOK
      <4> QED  BY <2>5, <4>3, <4>4
    <3> QED  BY <2>1, <3>1, <3>2 DEF TypeInv, TypeOK
  <2>6. CASE CommitBallot(r)
    <3> DEFINE q == requests[r]
               e == [ballot |-> q.ballot, voter |-> q.voter, unit |-> q.unit,
                     party |-> q.party, previous |-> q.head]
    <3>0. q \in Request  BY <2>2, <2>6 DEF CommitBallot
    <3>1. UNCHANGED <<now, session, tallies, workflow>>  BY <2>6 DEF CommitBallot
    <3>2. CASE ledger' = Append(ledger, e) /\ receipts' = receipts \cup {q.ballot}
                 /\ issued' = [issued EXCEPT ![q.ballot].is_used = TRUE]
      <4>1. e \in Entry  BY <3>0 DEF Request, Entry
      <4> HIDE DEF e
      <4>2. ledger' \in Seq(Entry)  BY <3>2, <4>1 DEF TypeInv
      <4>3. \A i \in DOMAIN ledger' : ledger'[i] \in Entry  BY <4>2
      <4>4. issued' \in [Ballots -> [voter : Voters, is_used : BOOLEAN] \cup {None}]
        <5>1. issued[q.ballot] \in [voter : Voters, is_used : BOOLEAN]
          BY <1>a, <2>6, <3>0 DEF CommitBallot, CommitsIssued, Started, TypeOK, Request
        <5>2. [issued[q.ballot] EXCEPT !.is_used = TRUE] \in [voter : Voters, is_used : BOOLEAN]
          BY <5>1
        <5>3. issued' = [issued EXCEPT ![q.ballot] = [issued[q.ballot] EXCEPT !.is_used = TRUE]]
          BY <3>2
        <5> QED  BY <3>0, <5>2, <5>3 DEF TypeInv, TypeOK, Request
      <4>5. receipts' \subseteq Ballots  BY <3>0, <3>2 DEF TypeInv, TypeOK, Request
      <4> QED  BY <2>1, <3>1, <4>2, <4>3, <4>4, <4>5 DEF TypeInv, TypeOK, Entry
    <3>3. CASE UNCHANGED box
      BY <2>1, <3>1, <3>3 DEF TypeInv, TypeOK
    <3> QED  BY <2>6, <3>2, <3>3 DEF CommitBallot
  <2>7. CASE UpdateTally(r)
    <3>0. requests[r] \in Request  BY <2>2, <2>7 DEF UpdateTally
    <3>1. UNCHANGED <<now, session, untallied, box, workflow>>  BY <2>7 DEF UpdateTally
    <3>2. tally' \in [Units \X Parties -> Nat]
      BY <2>7, <3>0 DEF UpdateTally, Incremented, TypeInv, TypeOK, Request
    <3>3. state_tally' \in [Parties -> Nat]
      BY <2>7, <3>0 DEF UpdateTally, TypeInv, TypeOK, Request
    <3>4. polling_units' \in [Units -> [voted_count : Nat] \cup {None}]
      BY <2>7, <3>0 DEF UpdateTally, TypeInv, TypeOK, Request
    <3>5. has_voted' \subseteq Voters
      BY <2>7, <3>0 DEF UpdateTally, TypeInv, TypeOK, Request
    <3> QED  BY <2>1, <3>1, <3>2, <3>3, <3>4, <3>5 DEF TypeInv, TypeOK
  <2>8. CASE MoveState(r)
    <3>0. requests[r] \in Request  BY <2>2, <2>8 DEF MoveState
    <3>1. /\ UNCHANGED <<now, session, box, tallies, locks, idempotency>>
          /\ voter_state' \in [Voters -> VoterStates \cup {None}]
      BY <2>8, <3>0 DEF MoveState, Target, TypeInv, TypeOK, Request, VoterStates
    <3> QED  BY <2>1, <3>1 DEF TypeInv, TypeOK
  <2>9. CASE RecordReply(r)
    <3>0. requests[r] \in Request  BY <2>2, <2>9 DEF RecordReply
    <3>1. now + IDEM_TTL \in Nat  BY DEF TypeInv, TypeOK
    <3>2. /\ UNCHANGED <<now, session, box, tallies, voter_state, locks>>
          /\ idempotency' \in [Ballots -> Reply \cup {None}]
      BY <2>9, <3>0, <3>1 DEF RecordReply, TypeInv, Request, Reply
    <3> QED  BY <2>1, <3>2 DEF TypeInv, TypeOK
  <2>10. CASE Busy(r)
    <3>0. requests[r] \in Request  BY <2>2, <2>10 DEF Busy
    <3>1. /\ UNCHANGED <<now, session, polling_units, tally, state_tally, has_voted, box,
                         workflow>>
          /\ untallied' \subseteq Ballots
      BY <2>10, <3>0 DEF Busy, TypeInv, TypeOK, Request
    <3> QED  BY <2>1, <3>1 DEF TypeInv, TypeOK
  <2> QED
    BY <1>6, <2>3, <2>4, <2>5, <2>6, <2>7, <2>8, <2>9, <2>10 DEF Step
<1>7. ASSUME NEW r \in Requests, Die(r) PROVE TypeInv'
  BY <1>7 DEF Die, TypeInv, TypeOK, RequestTypes, CommitsIssued, Started
<1>8. CASE UNCHANGED vars
  BY <1>8 DEF vars, TypeInv, TypeOK, RequestTypes, CommitsIssued, Started
<1> QED  BY <1>1, <1>2, <1>3, <1>4, <1>5, <1>6, <1>7, <1>8 DEF Next

LEMMA TypeInvHolds == Spec => []TypeInv
<1>1. Init => TypeInv
  <2> SUFFICES ASSUME Init PROVE TypeInv  OBVIOUS
  <2>1. RequestTypes /\ CommitsIssued
    BY DEF Init, RequestTypes, CommitsIssued, Started, NewRequest
  <2>2. TypeOK  BY LegacyVotingAssumptions DEF Init, TypeOK
  <2> QED  BY <2>1, <2>2 DEF Init, TypeInv
<1> QED  BY <1>1, TypeKept, PTL DEF Spec

(* Type correctness: every table of the prototype, and what each request   *)
(* has read, keep their types.                                             *)
THEOREM TypeCorrect == Spec => []TypeOK
<1>1. TypeInv => TypeOK  BY DEF TypeInv
<1> QED  BY <1>1, TypeInvHolds, PTL

-----------------------------------------------------------------------------
(* All steps, as far as ballots, tallies and states are concerned. *)

Nothing == UNCHANGED <<tally, has_voted, untallied, box, workflow, requests>>

LEMMA NextEffect ==
  ASSUME TypeInv, [Next]_vars
  PROVE  \/ \E r \in Requests : Counts(r) \/ Tallies(r) \/ Fails(r) \/ Quiet(r)
         \/ \E r \in Requests : /\ Arrival(r)
                                /\ UNCHANGED <<tally, has_voted, untallied, box, workflow>>
         \/ \E v \in Voters, b \in Ballots : IssueBallot(v, b)
         \/ \E v \in Voters : Walk(v)
         \/ Nothing
<1> USE DEF box, tallies, workflow, env, Nothing
<1>1. CASE Tick \/ SessionEnds  BY <1>1 DEF Tick, SessionEnds
<1>2. ASSUME NEW u \in Units, RegisterPollingUnit(u) PROVE Nothing
  BY <1>2 DEF RegisterPollingUnit
<1>3. ASSUME NEW r \in Requests, NEW secure \in BOOLEAN, NEW keyed \in BOOLEAN,
             NEW v \in Voters, NEW b \in Ballots, NEW u \in Units, NEW p \in Parties,
             Arrive(r, secure, keyed, v, b, u, p)
      PROVE  Arrival(r) /\ UNCHANGED <<tally, has_voted, untallied, box, workflow>>
  BY <1>3, ArriveEffect DEF Arrive
<1>4. ASSUME NEW r \in Requests, Die(r) PROVE Nothing
  BY <1>4 DEF Die
<1>5. CASE UNCHANGED vars  BY <1>5 DEF vars
<1> HIDE DEF Nothing
<1> QED
  BY <1>1, <1>2, <1>3, <1>4, <1>5, StepEffect DEF Next

-----------------------------------------------------------------------------
(* The ledger, the issue log and the receipts. *)

InBox(b) == \E i \in DOMAIN ledger : ledger[i].ballot = b
Used(b) == issued[b] # None /\ issued[b].is_used

BoxInv ==
  /\ \A i, j \in DOMAIN ledger : ledger[i].ballot = ledger[j].ballot => i = j
  /\ \A b \in Ballots : (b \in receipts <=> InBox(b)) /\ (b \in receipts <=> Used(b))
  /\ \A i \in DOMAIN ledger : issued[ledger[i].ballot].voter = ledger[i].voter

EntryOf(q) == [ballot |-> q.ballot, voter |-> q.voter, unit |-> q.unit,
               party |-> q.party, previous |-> q.head]

(* The ledger after a commit. *)
LEMMA Appended ==
  ASSUME TypeInv, NEW r \in Requests, Counts(r)
  PROVE  /\ requests[r] \in Request
         /\ DOMAIN ledger' = DOMAIN ledger \cup {Len(ledger) + 1}
         /\ Len(ledger) + 1 \notin DOMAIN ledger
         /\ \A i \in DOMAIN ledger : ledger'[i] = ledger[i]
         /\ ledger'[Len(ledger) + 1] = EntryOf(requests[r])
         /\ \A i \in DOMAIN ledger : ledger[i] \in Entry
<1> DEFINE e == EntryOf(requests[r])
<1>1. requests[r] \in Request  BY DEF Counts, Moves
<1>2. e \in Entry  BY <1>1 DEF Request, Entry, EntryOf
<1>3. ledger' = Append(ledger, e)  BY DEF Counts, EntryOf
<1> HIDE DEF e
<1>4. /\ DOMAIN ledger' = 1..(Len(ledger) + 1) /\ DOMAIN ledger = 1..Len(ledger)
      /\ Len(ledger) \in Nat
  BY <1>2, <1>3 DEF TypeInv
<1>5. \A i \in 1..Len(ledger) : ledger'[i] = ledger[i] /\ ledger[i] \in Entry
  BY <1>2, <1>3 DEF TypeInv
<1>6. ledger'[Len(ledger) + 1] = e  BY <1>2, <1>3 DEF TypeInv
<1> QED  BY <1>1, <1>4, <1>5, <1>6 DEF e

LEMMA BoxKept == TypeInv /\ BoxInv /\ [Next]_vars => BoxInv'
<1> SUFFICES ASSUME TypeInv, BoxInv, [Next]_vars PROVE BoxInv'  OBVIOUS
<1> USE DEF box
<1>1. ASSUME NEW r \in Requests, Counts(r) PROVE BoxInv'
  <2> DEFINE q == requests[r]
             n == Len(ledger) + 1
             b == q.ballot
  <2>1. /\ b \in Ballots /\ b \notin receipts /\ \A i \in DOMAIN ledger : ledger[i].ballot # b
        /\ receipts' = receipts \cup {b}
    BY <1>1, Appended DEF Counts, IsUnique, Request
  <2>2. ledger'[n].ballot = b /\ ledger'[n].voter = q.voter
    <3>1. ledger'[n] = EntryOf(q)  BY <1>1, Appended
    <3> QED  BY <3>1 DEF EntryOf
  <2>3. issued[b] \in [voter : Voters, is_used : BOOLEAN] /\ issued[b].voter = q.voter
    <3>1. r \in Started /\ q.pc = "commit"  BY <1>1 DEF Counts, Started
    <3>2. issued[b] # None /\ issued[b].voter = q.voter
      BY <3>1 DEF TypeInv, CommitsIssued
    <3> QED  BY <2>1, <3>2 DEF TypeInv, TypeOK
  <2>4. /\ issued' = [issued EXCEPT ![b] = [issued[b] EXCEPT !.is_used = TRUE]]
        /\ \A c \in Ballots : c # b => issued'[c] = issued[c]
    BY <1>1 DEF Counts, TypeInv, TypeOK
  <2>5. issued'[b] = [issued[b] EXCEPT !.is_used = TRUE]
    BY <2>1, <2>4 DEF TypeInv, TypeOK
  <2>6. issued'[b].voter = q.voter /\ issued'[b].is_used /\ issued'[b] # None
    <3>1. issued'[b] \in [voter : Voters, is_used : BOOLEAN]  BY <2>3, <2>5
    <3> QED  BY <2>3, <2>5, <3>1, LegacyVotingAssumptions
  <2> HIDE DEF n, b, q
  <2>7. /\ DOMAIN ledger' = DOMAIN ledger \cup {n} /\ n \notin DOMAIN ledger
        /\ \A i \in DOMAIN ledger : ledger'[i] = ledger[i] /\ ledger[i] \in Entry
    BY <1>1, Appended DEF n
  <2>8. \A i, j \in DOMAIN ledger' : ledger'[i].ballot = ledger'[j].ballot => i = j
    BY <2>1, <2>2, <2>7 DEF BoxInv
  <2>9. \A c \in Ballots : InBox(c)' <=> InBox(c) \/ c = b
    BY <2>2, <2>7 DEF InBox
  <2>10. \A c \in Ballots : Used(c)' <=> Used(c) \/ c = b
    BY <2>4, <2>6 DEF Used
  <2>11. \A i \in DOMAIN ledger' : issued'[ledger'[i].ballot].voter = ledger'[i].voter
    <3> SUFFICES ASSUME NEW i \in DOMAIN ledger'
                 PROVE  issued'[ledger'[i].ballot].voter = ledger'[i].voter
      OBVIOUS
    <3>1. CASE i = n  BY <2>2, <2>6, <3>1
    <3>2. CASE i \in DOMAIN ledger
      <4>1. ledger'[i] = ledger[i] /\ ledger[i].ballot \in Ballots /\ ledger[i].ballot # b
        BY <2>1, <2>7, <3>2 DEF Entry
      <4> QED  BY <2>4, <3>2, <4>1 DEF BoxInv
    <3> QED  BY <2>7, <3>1, <3>2
  <2> QED  BY <2>1, <2>8, <2>9, <2>10, <2>11 DEF BoxInv
<1>2. ASSUME NEW v \in Voters, NEW b \in Ballots, IssueBallot(v, b) PROVE BoxInv'
  <2>1. /\ UNCHANGED <<ledger, receipts>> /\ issued[b] = None
        /\ issued'[b] = [voter |-> v, is_used |-> FALSE]
        /\ \A c \in Ballots : c # b => issued'[c] = issued[c]
    BY <1>2 DEF IssueBallot, TypeInv, TypeOK
  <2>2. \A c \in Ballots : Used(c)' <=> Used(c)  BY <2>1 DEF Used
  <2>3. \A i \in DOMAIN ledger : ledger[i].ballot \in Ballots /\ ledger[i].ballot # b
    <3> SUFFICES ASSUME NEW i \in DOMAIN ledger
                 PROVE  ledger[i].ballot \in Ballots /\ ledger[i].ballot # b
      OBVIOUS
    <3>1. ledger[i].ballot \in Ballots  BY DEF TypeInv, TypeOK
    <3>2. Used(ledger[i].ballot)  BY <3>1 DEF BoxInv, InBox
    <3> QED  BY <2>1, <3>1, <3>2 DEF Used
  <2> QED  BY <2>1, <2>2, <2>3 DEF BoxInv, InBox
<1>3. CASE UNCHANGED box  BY <1>3 DEF BoxInv, InBox, Used
<1> QED
  BY <1>1, <1>2, <1>3, NextEffect DEF Tallies, Fails, Quiet, Walk, Nothing

LEMMA BoxInvHolds == Spec => []BoxInv
<1>1. Init => BoxInv
  BY LegacyVotingAssumptions DEF Init, BoxInv, InBox, Used
<1> QED  BY <1>1, BoxKept, TypeInvHolds, PTL DEF Spec

(* A ballot is counted at most once, for the voter it was issued to,       *)
(* although every request reads the issue log before its transaction.      *)
THEOREM BallotsAlwaysCountOnce == Spec => []BallotsCountOnce
<1>1. TypeInv /\ BoxInv => BallotsCountOnce
  <2> SUFFICES ASSUME TypeInv, BoxInv, NEW b \in Ballots
               PROVE  /\ Cardinality(Counted(b)) = IF Used(b) THEN 1 ELSE 0
                      /\ Used(b) = (b \in receipts)
                      /\ \A i \in Counted(b) : ledger[i].voter = issued[b].voter
    BY DEF BallotsCountOnce, Used
  <2>1. Used(b) = (b \in receipts)  BY DEF BoxInv, Used
  <2>2. \A i \in Counted(b) : ledger[i].voter = issued[b].voter
    BY DEF BoxInv, Counted
  <2>3. CASE Used(b)
    <3>1. PICK i \in DOMAIN ledger : ledger[i].ballot = b  BY <2>3 DEF BoxInv, InBox
    <3>2. Counted(b) = {i}  BY <3>1 DEF Counted, BoxInv
    <3>3. Cardinality(Counted(b)) = 1  BY <3>2, FS_Singleton
    <3> QED  BY <2>1, <2>2, <2>3, <3>3
  <2>4. CASE ~Used(b)
    <3>1. Counted(b) = {}  BY <2>4 DEF Counted, BoxInv, InBox
    <3>2. Cardinality(Counted(b)) = 0  BY <3>1, FS_EmptySet
    <3> QED  BY <2>1, <2>2, <2>4, <3>2
  <2> QED  BY <2>3, <2>4
<1> QED  BY <1>1, TypeInvHolds, BoxInvHolds, PTL

-----------------------------------------------------------------------------
(* Who is told of success. *)

Told(v, b) == b \in receipts /\ v \in has_voted /\ b \notin untallied

Says(b) ==
  \/ \E r \in Started : requests[r].ballot = b /\ requests[r].reply = "success"
  \/ idempotency[b] # None /\ idempotency[b].reply = "success"

(* An entry of the ledger with what the request brought. *)
Entered(q) ==
  \E i \in DOMAIN ledger : /\ ledger[i].ballot = q.ballot /\ ledger[i].voter = q.voter
                           /\ ledger[i].unit = q.unit /\ ledger[i].party = q.party

(* A ballot is with one request only between its two transactions, and     *)
(* nobody has been told of it then.                                        *)
OutstandingAlone(r) ==
  LET q == requests[r]
  IN q.pc = "tally" =>
       /\ q.ballot \notin untallied /\ ~Says(q.ballot) /\ Entered(q)
       /\ \A s \in Started : s # r /\ requests[s].pc = "tally" => requests[s].ballot # q.ballot

SuccessInv ==
  /\ \A r \in Started :
       requests[r].reply = "success" => Told(requests[r].voter, requests[r].ballot)
  /\ \A b \in Ballots :
       idempotency[b] # None /\ idempotency[b].reply = "success" => Told(idempotency[b].voter, b)
  /\ \A r \in Started : OutstandingAlone(r)
  /\ untallied \subseteq receipts

LEMMA StartedKept ==
  ASSUME RequestTypes, NEW r \in Requests, NEW pc, NEW reply, Moves(r, pc, reply)
  PROVE  /\ Started' = Started /\ r \in Started
         /\ requests[r] \in Request /\ requests'[r] \in Request
         /\ requests'[r].voter = requests[r].voter /\ requests'[r].ballot = requests[r].ballot
         /\ requests'[r].unit = requests[r].unit /\ requests'[r].party = requests[r].party
         /\ requests'[r].secure = requests[r].secure
         /\ requests'[r].pc = pc /\ requests'[r].reply = reply
         /\ \A s \in Requests : s # r => requests'[s] = requests[s]
<1>1. \A q \in Request : q.pc # "new"  BY DEF Request, Early, Late
<1>2. \A s \in Requests : s # r => requests'[s] = requests[s]  BY DEF Moves, RequestTypes
<1> QED  BY <1>1, <1>2 DEF Moves, Same, Started

LEMMA SuccessKept == TypeInv /\ BoxInv /\ SuccessInv /\ [Next]_vars => SuccessInv'
<1> SUFFICES ASSUME TypeInv, BoxInv, SuccessInv, [Next]_vars PROVE SuccessInv'  OBVIOUS
<1> USE DEF box, workflow
<1>a. RequestTypes  BY DEF TypeInv
<1>b. \A r \in Started : r \in Requests /\ requests[r] \in Request
  BY <1>a, StartedTypes DEF Started
<1>c. \A b \in Ballots : Says(b) => b \in receipts /\ b \notin untallied
  <2>1. \A r \in Started : requests[r].ballot \in Ballots  BY <1>b DEF Request
  <2> QED  BY <2>1 DEF SuccessInv, Says, Told
<1>d. \A r \in Started : requests[r].pc = "tally" => requests[r].ballot \in receipts
  BY <1>b DEF SuccessInv, OutstandingAlone, Entered, BoxInv, InBox, Request
<1>1. ASSUME NEW r \in Requests, Counts(r) PROVE SuccessInv'
  <2> DEFINE q == requests[r]
             b == q.ballot
  <2>1. /\ b \in Ballots /\ b \notin receipts /\ receipts' = receipts \cup {b}
        /\ Moves(r, "tally", "none")
        /\ UNCHANGED <<has_voted, untallied, idempotency>>
    BY <1>1, Appended DEF Counts, IsUnique, Request, tallies
  <2>2. /\ Started' = Started /\ r \in Started /\ requests'[r].ballot = b
        /\ requests'[r].voter = q.voter /\ requests'[r].unit = q.unit
        /\ requests'[r].party = q.party
        /\ requests'[r].pc = "tally" /\ requests'[r].reply = "none"
        /\ \A s \in Started : s # r => requests'[s] = requests[s]
    BY <1>a, <1>b, <2>1, StartedKept
  <2>3. \A v, c : Told(v, c) => Told(v, c)'  BY <2>1 DEF Told
  <2>4. \A c \in Ballots : Says(c)' => Says(c)  BY <2>1, <2>2 DEF Says
  <2>5. \A s \in Started : Entered(requests[s]) => Entered(requests[s])' \/ s = r
    BY <1>1, <2>2, Appended DEF Entered
  <2>6. Entered(requests[r])'
    <3>1. /\ Len(ledger) + 1 \in DOMAIN ledger'
          /\ ledger'[Len(ledger) + 1] = EntryOf(requests[r])
      BY <1>1, Appended
    <3> QED  BY <2>2, <3>1 DEF Entered, EntryOf
  <2>7. OutstandingAlone(r)'
    BY <1>c, <1>d, <2>1, <2>2, <2>4, <2>6 DEF OutstandingAlone, SuccessInv
  <2>8. ASSUME NEW s \in Started, s # r PROVE OutstandingAlone(s)'
    <3> SUFFICES ASSUME requests[s].pc = "tally" PROVE OutstandingAlone(s)'
      BY <2>2, <2>8 DEF OutstandingAlone
    <3>1. OutstandingAlone(s) /\ requests[s].ballot \in Ballots /\ requests[s].ballot # b
      BY <1>b, <1>d, <2>1 DEF SuccessInv, Request
    <3> QED
      BY <2>1, <2>2, <2>4, <2>5, <2>8, <3>1 DEF OutstandingAlone
  <2>9. \A s \in Started' : OutstandingAlone(s)'  BY <2>2, <2>7, <2>8
  <2>10. \A s \in Started' : requests'[s].reply = "success" =>
           Told(requests[s].voter, requests[s].ballot)'
    BY <2>2, <2>3 DEF SuccessInv
  <2> QED
    BY <2>1, <2>3, <2>9, <2>10 DEF SuccessInv
<1>2. ASSUME NEW r \in Requests, Tallies(r) PROVE SuccessInv'
  <2> DEFINE q == requests[r]
             b == q.ballot
  <2>0. PICK pc : Moves(r, pc, "success") /\ pc # "tally"
    BY <1>2 DEF Tallies
  <2>1. /\ q.pc = "tally" /\ has_voted' = has_voted \cup {q.voter}
        /\ UNCHANGED <<untallied, ledger, receipts, idempotency>>
    BY <1>2 DEF Tallies
  <2>2. /\ Started' = Started /\ r \in Started /\ requests'[r].ballot = b
        /\ requests'[r].voter = q.voter
        /\ requests'[r].pc # "tally" /\ requests'[r].reply = "success"
        /\ \A s \in Started : s # r => requests'[s] = requests[s]
    BY <1>a, <1>b, <2>0, StartedKept
  <2>3. OutstandingAlone(r) /\ b \in receipts  BY <1>d, <2>1, <2>2 DEF SuccessInv
  <2>4. \A v, c : Told(v, c) => Told(v, c)'  BY <2>1 DEF Told
  <2>5. Told(requests[r].voter, requests[r].ballot)'
    BY <2>1, <2>2, <2>3 DEF Told, OutstandingAlone
  <2>6. \A c \in Ballots : c # b /\ Says(c)' => Says(c)  BY <2>1, <2>2 DEF Says
  <2>7. ASSUME NEW s \in Started PROVE OutstandingAlone(s)'
    <3> SUFFICES ASSUME s # r, requests[s].pc = "tally" PROVE OutstandingAlone(s)'
      BY <2>2, <2>7 DEF OutstandingAlone
    <3>1. OutstandingAlone(s) /\ requests[s].ballot \in Ballots /\ requests[s].ballot # b
      BY <1>b, <2>1, <2>2, <2>3 DEF SuccessInv, Request, OutstandingAlone
    <3> QED
      BY <2>1, <2>2, <2>6, <2>7, <3>1 DEF OutstandingAlone, Entered
  <2>8. \A s \in Started' : requests'[s].reply = "success" =>
          Told(requests[s].voter, requests[s].ballot)'
    BY <2>2, <2>4, <2>5 DEF SuccessInv
  <2> QED  BY <2>1, <2>2, <2>4, <2>7, <2>8 DEF SuccessInv
<1>3. ASSUME NEW r \in Requests, Fails(r) PROVE SuccessInv'
  <2> DEFINE q == requests[r]
             b == q.ballot
  <2>0. PICK pc : Moves(r, pc, "error") /\ pc # "tally"
    BY <1>3 DEF Fails
  <2>1. /\ q.pc = "tally" /\ untallied' = untallied \cup {b}
        /\ UNCHANGED <<has_voted, ledger, receipts, idempotency>>
    BY <1>3 DEF Fails
  <2>2. /\ Started' = Started /\ r \in Started /\ requests'[r].ballot = b
        /\ requests'[r].pc # "tally" /\ requests'[r].reply = "error"
        /\ \A s \in Started : s # r => requests'[s] = requests[s]
    BY <1>a, <1>b, <2>0, StartedKept
  <2>3. OutstandingAlone(r) /\ b \in receipts  BY <1>d, <2>1, <2>2 DEF SuccessInv
  <2>4. \A v, c : c # b /\ Told(v, c) => Told(v, c)'  BY <2>1 DEF Told
  <2>5. ~Says(b)  BY <2>1, <2>3 DEF OutstandingAlone
  <2>6. \A c \in Ballots : Says(c)' => Says(c)  BY <2>1, <2>2 DEF Says
  <2>7. ASSUME NEW s \in Started PROVE OutstandingAlone(s)'
    <3> SUFFICES ASSUME s # r, requests[s].pc = "tally" PROVE OutstandingAlone(s)'
      BY <2>2, <2>7 DEF OutstandingAlone
    <3>1. OutstandingAlone(s) /\ requests[s].ballot \in Ballots /\ requests[s].ballot # b
      BY <1>b, <2>1, <2>2, <2>3 DEF SuccessInv, Request, OutstandingAlone
    <3> QED
      BY <2>1, <2>2, <2>6, <2>7, <3>1 DEF OutstandingAlone, Entered
  <2>8. \A s \in Started' : requests'[s].reply = "success" =>
          Told(requests[s].voter, requests[s].ballot)'
    BY <2>2, <2>4, <2>5 DEF SuccessInv, Says
  <2>9. \A c \in Ballots : idempotency[c] # None /\ idempotency[c].reply = "success" => c # b
    BY <2>5 DEF Says
  <2> QED  BY <2>1, <2>2, <2>3, <2>4, <2>7, <2>8, <2>9 DEF SuccessInv
<1>4. ASSUME NEW r \in Requests, Quiet(r) PROVE SuccessInv'
  <2> DEFINE q == requests[r]
             b == q.ballot
  <2>0. PICK pc, reply : Moves(r, pc, reply)  BY <1>4 DEF Quiet
  <2>1. q.pc # "tally" /\ requests'[r].pc # "tally"
        /\ UNCHANGED <<has_voted, untallied, ledger, receipts>>
    BY <1>4 DEF Quiet
  <2>2. /\ Started' = Started /\ r \in Started /\ requests'[r].ballot = b
        /\ requests'[r].voter = q.voter
        /\ \A s \in Started : s # r => requests'[s] = requests[s]
    BY <1>a, <1>b, <2>0, StartedKept
  <2>3. \A v, c : Told(v, c)' = Told(v, c)  BY <2>1 DEF Told
  <2>4. RepliesKept(r) /\ b \in Ballots  BY <1>4, <1>b, <2>2 DEF Quiet, Request
  <2>5. requests'[r].reply = "success" => Says(b) /\ Told(q.voter, b)
    BY <2>2, <2>4 DEF RepliesKept, SuccessInv, Says
  <2>6. \A c \in Ballots : idempotency'[c] # None /\ idempotency'[c].reply = "success" =>
          Says(c) /\ Told(idempotency'[c].voter, c)
    BY <2>2, <2>4 DEF RepliesKept, SuccessInv, Says
  <2>7. \A c \in Ballots : Says(c)' => Says(c)  BY <2>2, <2>5, <2>6 DEF Says
  <2>8. ASSUME NEW s \in Started PROVE OutstandingAlone(s)'
    <3> SUFFICES ASSUME s # r, requests[s].pc = "tally" PROVE OutstandingAlone(s)'
      BY <2>1, <2>2, <2>8 DEF OutstandingAlone
    <3>1. OutstandingAlone(s) /\ requests[s].ballot \in Ballots
      BY <1>b DEF SuccessInv, Request
    <3> QED
      BY <2>1, <2>2, <2>7, <2>8, <3>1 DEF OutstandingAlone, Entered
  <2>9. \A s \in Started' : requests'[s].reply = "success" =>
          Told(requests[s].voter, requests[s].ballot)'
    BY <2>2, <2>3, <2>5 DEF SuccessInv
  <2>10. \A c \in Ballots : idempotency'[c] # None /\ idempotency'[c].reply = "success" =>
           Told(idempotency[c].voter, c)'
    BY <2>1, <2>6 DEF Told
  <2> QED  BY <2>1, <2>2, <2>8, <2>9, <2>10 DEF SuccessInv
<1>5. ASSUME NEW r \in Requests, Arrival(r),
             UNCHANGED <<tally, has_voted, untallied, box, workflow>>
      PROVE  SuccessInv'
  <2>1. /\ Started' = Started \cup {r} /\ r \notin Started
        /\ requests'[r].pc # "tally" /\ requests'[r].reply = "none"
        /\ \A s \in Started : requests'[s] = requests[s]
    <3>1. \A q \in Request : q.pc # "new"  BY DEF Request, Early, Late
    <3> QED  BY <1>5, <1>a, <3>1 DEF Arrival, Started, RequestTypes, NewRequest
  <2>2. \A v, c : Told(v, c)' = Told(v, c)  BY <1>5 DEF Told
  <2>3. \A c \in Ballots : Says(c)' => Says(c)  BY <1>5, <2>1 DEF Says
  <2>4. ASSUME NEW s \in Started PROVE OutstandingAlone(s)'
    <3> SUFFICES ASSUME requests[s].pc = "tally" PROVE OutstandingAlone(s)'
      BY <2>1, <2>4 DEF OutstandingAlone
    <3>1. OutstandingAlone(s) /\ requests[s].ballot \in Ballots
      BY <1>b DEF SuccessInv, Request
    <3> QED  BY <1>5, <2>1, <2>3, <2>4, <3>1 DEF OutstandingAlone, Entered
  <2>5. \A s \in Started' : OutstandingAlone(s)'
    BY <2>1, <2>4 DEF OutstandingAlone
  <2>6. \A s \in Started' : requests'[s].reply = "success" =>
          Told(requests[s].voter, requests[s].ballot)'
    BY <2>1, <2>2 DEF SuccessInv
  <2> QED  BY <1>5, <2>2, <2>5, <2>6 DEF SuccessInv
<1>6. CASE UNCHANGED <<has_voted, untallied, ledger, receipts, idempotency, requests>>
  <2>1. Started' = Started  BY <1>6 DEF Started
  <2> QED  BY <1>6, <2>1 DEF SuccessInv, OutstandingAlone, Told, Says, Entered
<1> QED
  BY <1>1, <1>2, <1>3, <1>4, <1>5, <1>6, NextEffect DEF IssueBallot, Walk, Nothing, tallies

LEMMA SuccessInvHolds == Spec => []SuccessInv
<1>1. Init => SuccessInv
  <2> SUFFICES ASSUME Init PROVE SuccessInv  OBVIOUS
  <2>1. Started = {}  BY DEF Init, Started, NewRequest
  <2>2. \A b \in Ballots : idempotency[b] = None /\ untallied = {}  BY DEF Init
  <2>3. untallied = {}  BY DEF Init
  <2> QED  BY <2>1, <2>2, <2>3 DEF SuccessInv
<1> QED  BY <1>1, SuccessKept, TypeInvHolds, BoxInvHolds, PTL DEF Spec

(* Whoever is told that her ballot counted, by the request itself or from  *)
(* the idempotency table, has it in the ledger, in the tally and in her    *)
(* receipt, whatever failed, was retried or died in between.               *)
THEOREM SuccessAlwaysCounted == Spec => []SuccessIsCounted
<1>1. TypeInv /\ BoxInv /\ SuccessInv => SuccessIsCounted
  <2> SUFFICES ASSUME TypeInv, BoxInv, SuccessInv, NEW r \in Started,
                      requests[r].reply = "success"
               PROVE  /\ Counted(requests[r].ballot) # {} /\ requests[r].ballot \in receipts
                      /\ requests[r].voter \in has_voted
                      /\ requests[r].ballot \notin untallied
    BY DEF SuccessIsCounted
  <2>1. Told(requests[r].voter, requests[r].ballot)  BY DEF SuccessInv
  <2>2. requests[r].ballot \in Ballots
    <3>1. requests[r] \in Request  BY StartedTypes DEF TypeInv, Started
    <3> QED  BY <3>1 DEF Request
  <2>3. Counted(requests[r].ballot) # {}
    BY <2>1, <2>2 DEF Told, BoxInv, InBox, Counted
  <2> QED  BY <2>1, <2>3 DEF Told
<1> QED  BY <1>1, TypeInvHolds, BoxInvHolds, SuccessInvHolds, PTL

-----------------------------------------------------------------------------
(* The unit tallies and the marks on the voters. *)

TallyInv == UnitTalliesLag /\ MarkedHaveBallots

LEMMA LedgerSets ==
  ASSUME TypeInv, NEW u, NEW p
  PROVE  /\ IsFiniteSet(InLedger(u, p)) /\ IsFiniteSet(Missing(u, p))
         /\ Cardinality(InLedger(u, p)) \in Nat /\ Cardinality(Missing(u, p)) \in Nat
<1>1. DOMAIN ledger = 1..Len(ledger) /\ Len(ledger) \in Nat  BY DEF TypeInv
<1>2. IsFiniteSet(DOMAIN ledger)  BY <1>1, FS_Interval
<1>3. IsFiniteSet(InLedger(u, p))  BY <1>2, FS_Subset DEF InLedger
<1>4. IsFiniteSet(Missing(u, p))  BY <1>2, FS_Subset DEF Missing
<1> QED  BY <1>3, <1>4, FS_CardinalityType

(* An entry whose request has its tally before it, or has failed to add it. *)
Lags(b) ==
  b \in untallied \/ \E r \in Started : requests[r].pc = "tally" /\ requests[r].ballot = b

LEMMA MissingLags ==
  \A u, p : Missing(u, p) = {i \in InLedger(u, p) : Lags(ledger[i].ballot)}
BY DEF Missing, InLedger, Lags

LEMMA TallyKept == TypeInv /\ BoxInv /\ SuccessInv /\ TallyInv /\ [Next]_vars => TallyInv'
<1> SUFFICES ASSUME TypeInv, BoxInv, SuccessInv, TallyInv, [Next]_vars PROVE TallyInv'
  OBVIOUS
<1> USE DEF box, workflow
<1>a. RequestTypes  BY DEF TypeInv
<1>b. \A r \in Started : r \in Requests /\ requests[r] \in Request
  BY <1>a, StartedTypes DEF Started
<1>c. TypeInv'  BY TypeKept
<1>1. ASSUME NEW r \in Requests, Counts(r) PROVE TallyInv'
  <2>0. PICK q, b, n : q = requests[r] /\ b = q.ballot /\ n = Len(ledger) + 1  OBVIOUS
  <2>1. /\ b \in Ballots /\ Moves(r, "tally", "none") /\ UNCHANGED <<tally, has_voted, untallied>>
        /\ \A i \in DOMAIN ledger : ledger[i].ballot # b
    BY <1>1, <2>0, Appended DEF Counts, IsUnique, Request, tallies
  <2>2. /\ Started' = Started /\ r \in Started /\ requests'[r].ballot = b
        /\ q.pc = "commit" /\ requests'[r].pc = "tally"
        /\ \A s \in Started : s # r => requests'[s] = requests[s]
    BY <1>1, <1>a, <1>b, <2>0, <2>1, StartedKept DEF Counts
  <2>3. /\ DOMAIN ledger' = DOMAIN ledger \cup {n} /\ n \notin DOMAIN ledger
        /\ \A i \in DOMAIN ledger : ledger'[i] = ledger[i]
        /\ ledger'[n].ballot = b /\ ledger'[n].unit = q.unit /\ ledger'[n].party = q.party
    <3>1. ledger'[n] = EntryOf(q)  BY <1>1, <2>0, Appended
    <3>2. ledger'[n].ballot = b /\ ledger'[n].unit = q.unit /\ ledger'[n].party = q.party
      BY <2>0, <3>1 DEF EntryOf
    <3> QED  BY <1>1, <2>0, <3>2, Appended
  <2>4. \A c : c # b => (Lags(c)' <=> Lags(c))  BY <2>0, <2>1, <2>2 DEF Lags
  <2>5. Lags(b)'  BY <2>2 DEF Lags
  <2>6. ASSUME NEW u \in Units, NEW p \in Parties
        PROVE  tally'[<<u, p>>] = Cardinality(InLedger(u, p)') - Cardinality(Missing(u, p)')
    <3> DEFINE L == InLedger(u, p)
               M == Missing(u, p)
    <3>1. tally[<<u, p>>] = Cardinality(L) - Cardinality(M)  BY DEF TallyInv, UnitTalliesLag
    <3>2. IsFiniteSet(L) /\ IsFiniteSet(M) /\ Cardinality(L) \in Nat /\ Cardinality(M) \in Nat
      BY LedgerSets
    <3>3. n \notin L /\ n \notin M  BY <2>3 DEF InLedger, Missing
    <3>4. CASE q.unit = u /\ q.party = p
      <4>1. InLedger(u, p)' = L \cup {n}  BY <2>3, <3>4 DEF InLedger
      <4>2. Missing(u, p)' = {i \in InLedger(u, p)' : Lags(ledger[i].ballot)'}
        BY DEF Missing, InLedger, Lags
      <4>3. M = {i \in L : Lags(ledger[i].ballot)}  BY MissingLags
      <4>4. \A i \in L : ledger'[i] = ledger[i] /\ ledger[i].ballot # b
        BY <2>1, <2>3 DEF InLedger
      <4>5. \A i \in L : Lags(ledger[i].ballot)' <=> Lags(ledger[i].ballot)
        BY <2>4, <4>4 DEF Lags
      <4>6. Lags(ledger[n].ballot)'  BY <2>3, <2>5 DEF Lags
      <4>7. Missing(u, p)' = M \cup {n}  BY <4>1, <4>2, <4>3, <4>5, <4>6
      <4>8. /\ Cardinality(L \cup {n}) = Cardinality(L) + 1
            /\ Cardinality(M \cup {n}) = Cardinality(M) + 1
        BY <3>2, <3>3, FS_AddElement
      <4> QED  BY <2>1, <3>1, <3>2, <4>1, <4>7, <4>8
    <3>5. CASE ~(q.unit = u /\ q.party = p)
      <4>1. InLedger(u, p)' = L  BY <2>3, <3>5 DEF InLedger
      <4>2. Missing(u, p)' = {i \in InLedger(u, p)' : Lags(ledger[i].ballot)'}
        BY DEF Missing, InLedger, Lags
      <4>3. M = {i \in L : Lags(ledger[i].ballot)}  BY MissingLags
      <4>4. \A i \in L : ledger'[i] = ledger[i] /\ ledger[i].ballot # b
        BY <2>1, <2>3 DEF InLedger
      <4>5. \A i \in L : Lags(ledger[i].ballot)' <=> Lags(ledger[i].ballot)
        BY <2>4, <4>4 DEF Lags
      <4>6. Missing(u, p)' = M  BY <4>1, <4>2, <4>3, <4>5
      <4> QED  BY <2>1, <3>1, <4>1, <4>6
    <3> QED  BY <3>4, <3>5
  <2>7. MarkedHaveBallots'  BY <2>1, <2>3 DEF TallyInv, MarkedHaveBallots
  <2> QED  BY <2>6, <2>7 DEF TallyInv, UnitTalliesLag
<1>2. ASSUME NEW r \in Requests, Tallies(r) PROVE TallyInv'
  <2>0. PICK q, b, c : q = requests[r] /\ b = q.ballot /\ c = <<q.unit, q.party>>  OBVIOUS
  <2>1. PICK pc : Moves(r, pc, "success") /\ pc # "tally"
    BY <1>2 DEF Tallies
  <2>2. /\ q.pc = "tally" /\ has_voted' = has_voted \cup {q.voter}
        /\ tally' = [tally EXCEPT ![c] = tally[c] + 1]
        /\ UNCHANGED <<untallied, ledger>>
    BY <1>2, <2>0 DEF Tallies
  <2>3. /\ Started' = Started /\ r \in Started /\ requests'[r].pc # "tally"
        /\ \A s \in Started : s # r => requests'[s] = requests[s]
    BY <1>a, <1>b, <2>1, StartedKept
  <2>4. /\ b \notin untallied
        /\ \A s \in Started : s # r /\ requests[s].pc = "tally" => requests[s].ballot # b
        /\ Entered(q)
    BY <2>0, <2>2, <2>3 DEF SuccessInv, OutstandingAlone
  <2>5. PICK n \in DOMAIN ledger : /\ ledger[n].ballot = b /\ ledger[n].voter = q.voter
                                   /\ ledger[n].unit = q.unit /\ ledger[n].party = q.party
    BY <2>0, <2>4 DEF Entered
  <2>6. \A d : d # b => (Lags(d)' <=> Lags(d))  BY <2>0, <2>2, <2>3 DEF Lags
  <2>7. Lags(b) /\ ~Lags(b)'  BY <2>0, <2>2, <2>3, <2>4 DEF Lags
  <2>8. ASSUME NEW u \in Units, NEW p \in Parties
        PROVE  tally'[<<u, p>>] = Cardinality(InLedger(u, p)') - Cardinality(Missing(u, p)')
    <3> DEFINE L == InLedger(u, p)
               M == Missing(u, p)
    <3>1. tally[<<u, p>>] = Cardinality(L) - Cardinality(M)  BY DEF TallyInv, UnitTalliesLag
    <3>2. IsFiniteSet(L) /\ IsFiniteSet(M) /\ Cardinality(L) \in Nat /\ Cardinality(M) \in Nat
      BY LedgerSets
    <3>3. InLedger(u, p)' = L  BY <2>2 DEF InLedger
    <3>4. M = {i \in L : Lags(ledger[i].ballot)}  BY MissingLags
    <3>5. Missing(u, p)' = {i \in L : Lags(ledger[i].ballot)'}
      BY <2>2 DEF Missing, InLedger, Lags
    <3>6. \A i \in L : ledger[i].ballot = b => i = n
      BY <2>5 DEF BoxInv, InLedger
    <3>7. \A i \in L : i # n => (Lags(ledger[i].ballot)' <=> Lags(ledger[i].ballot))
      BY <2>2, <2>6, <3>6 DEF Lags
    <3>8. Lags(ledger[n].ballot) /\ ~Lags(ledger[n].ballot)'
      BY <2>2, <2>5, <2>7 DEF Lags
    <3>9. Missing(u, p)' = M \ {n}  BY <3>4, <3>5, <3>7, <3>8
    <3>10. CASE q.unit = u /\ q.party = p
      <4>1. n \in M  BY <2>5, <3>4, <3>8, <3>10 DEF InLedger
      <4>2. Cardinality(M \ {n}) = Cardinality(M) - 1
        BY <3>2, <4>1, FS_RemoveElement
      <4>3. tally'[<<u, p>>] = tally[<<u, p>>] + 1
        BY <2>0, <2>2, <3>10 DEF TypeInv, TypeOK
      <4> QED  BY <3>1, <3>2, <3>3, <3>9, <4>2, <4>3
    <3>11. CASE ~(q.unit = u /\ q.party = p)
      <4>1. n \notin M  BY <2>5, <3>11 DEF Missing
      <4>2. M \ {n} = M  BY <4>1
      <4>3. tally'[<<u, p>>] = tally[<<u, p>>]
        BY <2>0, <2>2, <3>11 DEF TypeInv, TypeOK
      <4> QED  BY <3>1, <3>3, <3>9, <4>2, <4>3
    <3> QED  BY <3>10, <3>11
  <2>9. MarkedHaveBallots'  BY <2>2, <2>5 DEF TallyInv, MarkedHaveBallots
  <2> QED  BY <2>8, <2>9 DEF TallyInv, UnitTalliesLag
<1>3. ASSUME UNCHANGED <<tally, has_voted, ledger>>, \A b \in Ballots : Lags(b)' <=> Lags(b)
      PROVE  TallyInv'
  <2>1. ASSUME NEW u \in Units, NEW p \in Parties
        PROVE  InLedger(u, p)' = InLedger(u, p) /\ Missing(u, p)' = Missing(u, p)
    <3>1. InLedger(u, p)' = InLedger(u, p)  BY <1>3 DEF InLedger
    <3>2. \A i \in DOMAIN ledger : ledger[i].ballot \in Ballots  BY DEF TypeInv, TypeOK
    <3>3. \A i \in InLedger(u, p) : Lags(ledger[i].ballot)' <=> Lags(ledger[i].ballot)
      BY <1>3, <3>2 DEF InLedger, Lags
    <3>4. Missing(u, p)' = {i \in InLedger(u, p)' : Lags(ledger[i].ballot)'}
      BY DEF Missing, InLedger, Lags
    <3> QED  BY <3>1, <3>3, <3>4, MissingLags
  <2> QED  BY <1>3, <2>1 DEF TallyInv, UnitTalliesLag, MarkedHaveBallots
<1>4. ASSUME NEW r \in Requests, Fails(r) \/ Quiet(r)
      PROVE  TallyInv'
  <2>0. PICK pc, reply : Moves(r, pc, reply) /\ pc # "tally"
    BY <1>4 DEF Fails, Quiet, Moves
  <2>1. /\ Started' = Started /\ r \in Started /\ requests'[r].ballot = requests[r].ballot
        /\ requests'[r].pc # "tally"
        /\ \A s \in Started : s # r => requests'[s] = requests[s]
    BY <1>a, <1>b, <2>0, StartedKept
  <2>2. UNCHANGED <<tally, has_voted, ledger>>  BY <1>4 DEF Fails, Quiet
  <2>3. \A b \in Ballots : Lags(b)' <=> Lags(b)
    <3>1. CASE Fails(r)  BY <2>1, <3>1 DEF Fails, Lags
    <3>2. CASE Quiet(r)  BY <2>1, <3>2 DEF Quiet, Lags
    <3> QED  BY <1>4, <3>1, <3>2
  <2> QED  BY <1>3, <2>2, <2>3
<1>5. ASSUME NEW r \in Requests, Arrival(r),
             UNCHANGED <<tally, has_voted, untallied, box, workflow>>
      PROVE  TallyInv'
  <2>1. /\ Started' = Started \cup {r} /\ r \notin Started /\ requests'[r].pc # "tally"
        /\ \A s \in Started : requests'[s] = requests[s]
    <3>1. \A q \in Request : q.pc # "new"  BY DEF Request, Early, Late
    <3> QED  BY <1>5, <1>a, <3>1 DEF Arrival, Started, RequestTypes, NewRequest
  <2>2. \A b \in Ballots : Lags(b)' <=> Lags(b)  BY <1>5, <2>1 DEF Lags
  <2> QED  BY <1>3, <1>5, <2>2
<1>6. CASE UNCHANGED <<tally, has_voted, untallied, ledger, requests>>
  <2>1. \A b \in Ballots : Lags(b)' <=> Lags(b)  BY <1>6 DEF Lags, Started
  <2> QED  BY <1>3, <1>6, <2>1
<1> QED
  BY <1>1, <1>2, <1>4, <1>5, <1>6, NextEffect DEF IssueBallot, Walk, Nothing, tallies

(* A unit's tally lags behind the ledger by exactly the ballots whose      *)
(* second transaction is outstanding or was lost, and never runs ahead of  *)
(* it; a voter is marked only with a ballot in the ledger.                 *)
THEOREM UnitTalliesFollow == Spec => [](UnitTalliesLag /\ MarkedHaveBallots)
<1>1. Init => TallyInv
  <2> SUFFICES ASSUME Init PROVE TallyInv  OBVIOUS
  <2>1. DOMAIN ledger = {}  BY DEF Init
  <2>2. \A u, p : InLedger(u, p) = {} /\ Missing(u, p) = {}
    BY <2>1 DEF InLedger, Missing
  <2>3. Cardinality({}) = 0  BY FS_EmptySet
  <2>4. UnitTalliesLag
    <3> SUFFICES ASSUME NEW u \in Units, NEW p \in Parties
                 PROVE  tally[<<u, p>>] = Cardinality(InLedger(u, p)) - Cardinality(Missing(u, p))
      BY DEF UnitTalliesLag
    <3>1. tally[<<u, p>>] = 0  BY DEF Init
    <3> QED  BY <2>2, <2>3, <3>1
  <2>5. MarkedHaveBallots  BY DEF Init, MarkedHaveBallots
  <2> QED  BY <2>4, <2>5 DEF TallyInv
<1>2. TallyInv => UnitTalliesLag /\ MarkedHaveBallots  BY DEF TallyInv
<1> QED  BY <1>1, <1>2, TallyKept, TypeInvHolds, BoxInvHolds, SuccessInvHolds, PTL DEF Spec

-----------------------------------------------------------------------------
(* Sums over finite sets.                                                  *)
(*                                                                         *)
(* MapThenSumSet is defined by recursion over the set.  Induction is had   *)
(* here by sets: one that is closed under the step has everything, since a *)
(* least exception x would leave 0..x with an injection into less.         *)

LEMMA NatInd ==
  ASSUME NEW T, 0 \in T, \A n \in Nat : n \in T => n + 1 \in T
  PROVE  Nat \subseteq T
<1> SUFFICES ASSUME NEW x \in Nat, x \notin T PROVE FALSE  OBVIOUS
<1> DEFINE N == {y \in 0..x : y \notin T}
           f == [y \in N |-> y - 1]
<1>1. IsFiniteSet(N) /\ x \in N /\ N \subseteq 0..x
  <2>1. IsFiniteSet(0..x)  BY FS_Interval
  <2>2. N \subseteq 0..x  OBVIOUS
  <2> QED  BY <2>1, <2>2, FS_Subset
<1>2. \A y \in N : y - 1 \in N \ {x}
  <2> SUFFICES ASSUME NEW y \in N PROVE y - 1 \in N \ {x}  OBVIOUS
  <2>1. y \in 0..x /\ y \notin T /\ y # 0  OBVIOUS
  <2>2. y - 1 \in Nat /\ y = (y - 1) + 1  BY <2>1
  <2>3. y - 1 \notin T  BY <2>1, <2>2
  <2>4. y - 1 \in 0..x /\ y - 1 # x  BY <2>1, <2>2
  <2> QED  BY <2>3, <2>4
<1>3. PICK g \in [N -> N \ {x}] : \A y \in N : g[y] = y - 1
  <2>1. f \in [N -> N \ {x}] /\ \A y \in N : f[y] = y - 1  BY <1>2
  <2> QED  BY <2>1
<1>4. IsFiniteSet(N \ {x}) /\ Cardinality(N \ {x}) = Cardinality(N) - 1
  BY <1>1, FS_RemoveElement
<1>5. Cardinality(N) \in Nat  BY <1>1, FS_CardinalityType
<1> HIDE DEF N
<1>6. PICK y, z \in N : y # z /\ g[y] = g[z]
  <2>1. Cardinality(N \ {x}) < Cardinality(N)  BY <1>4, <1>5
  <2> DEFINE M == N \ {x}
  <2>2. IsFiniteSet(M) /\ Cardinality(M) < Cardinality(N) /\ g \in [N -> M]
    BY <1>4, <2>1
  <2> HIDE DEF M
  <2> QED  BY <1>1, <2>2, FS_PigeonHole
<1> QED  BY <1>1, <1>3, <1>6

Chosen(s) == CHOOSE x \in s : TRUE

(* g adds up f over every subset of D. *)
AddsUp(g, f, D) ==
  /\ g \in [SUBSET D -> Nat]
  /\ \A s \in SUBSET D : g[s] = IF s = {} THEN 0 ELSE f[Chosen(s)] + g[s \ {Chosen(s)}]

LEMMA SubsetSizes ==
  ASSUME NEW D, IsFiniteSet(D), NEW s \in SUBSET D
  PROVE  /\ IsFiniteSet(s) /\ Cardinality(s) \in Nat
         /\ Cardinality(s) <= Cardinality(D)
         /\ \A x \in s : Cardinality(s \ {x}) = Cardinality(s) - 1
         /\ Cardinality(s) = 0 <=> s = {}
         /\ s # {} => Chosen(s) \in s
<1>1. IsFiniteSet(s) /\ Cardinality(s) <= Cardinality(D)  BY FS_Subset
<1>2. Cardinality(s) \in Nat  BY <1>1, FS_CardinalityType
<1>3. \A x \in s : Cardinality(s \ {x}) = Cardinality(s) - 1  BY <1>1, FS_RemoveElement
<1>4. Cardinality(s) = 0 <=> s = {}  BY <1>1, FS_EmptySet
<1>5. s # {} => Chosen(s) \in s  BY DEF Chosen
<1> QED  BY <1>1, <1>2, <1>3, <1>4, <1>5

LEMMA SubsetInduct ==
  ASSUME NEW D, IsFiniteSet(D), NEW F,
         \A s \in SUBSET D : (\A t \in SUBSET s : t # s => t \in F) => s \in F
  PROVE  SUBSET D \subseteq F
<1> DEFINE T == {n \in Nat : \A s \in SUBSET D : Cardinality(s) <= n => s \in F}
<1>1. 0 \in T
  <2> SUFFICES ASSUME NEW s \in SUBSET D, Cardinality(s) <= 0 PROVE s \in F  OBVIOUS
  <2>1. s = {}  BY SubsetSizes
  <2> QED  BY <2>1
<1>2. \A n \in Nat : n \in T => n + 1 \in T
  <2> SUFFICES ASSUME NEW n \in T, NEW s \in SUBSET D, Cardinality(s) <= n + 1
               PROVE  s \in F
    OBVIOUS
  <2> SUFFICES ASSUME NEW t \in SUBSET s, t # s PROVE t \in F  OBVIOUS
  <2>1. PICK x \in s : x \notin t  OBVIOUS
  <2>2. t \subseteq s \ {x} /\ s \ {x} \in SUBSET D  BY <2>1
  <2>3. IsFiniteSet(s \ {x})  BY <2>2, SubsetSizes
  <2>4. Cardinality(t) <= Cardinality(s \ {x})  BY <2>2, <2>3, SubsetSizes
  <2>5. Cardinality(s) \in Nat /\ Cardinality(s \ {x}) = Cardinality(s) - 1  BY SubsetSizes
  <2>6. t \in SUBSET D /\ Cardinality(t) \in Nat  BY SubsetSizes
  <2>7. Cardinality(t) <= n  BY <2>4, <2>5, <2>6
  <2> QED  BY <2>6, <2>7
<1> HIDE DEF T
<1>3. Nat \subseteq T  BY <1>1, <1>2, NatInd
<1> SUFFICES ASSUME NEW s \in SUBSET D PROVE s \in F  OBVIOUS
<1>4. Cardinality(s) \in Nat  BY SubsetSizes
<1> QED  BY <1>3, <1>4 DEF T

LEMMA SumsExist ==
  ASSUME NEW D, IsFiniteSet(D), NEW f \in [D -> Nat]
  PROVE  \E g : AddsUp(g, f, D)
<1> DEFINE Upto(g, n) ==
             /\ g \in [SUBSET D -> Nat]
             /\ \A s \in SUBSET D : Cardinality(s) <= n =>
                  g[s] = IF s = {} THEN 0 ELSE f[Chosen(s)] + g[s \ {Chosen(s)}]
           T == {n \in Nat : \E g \in [SUBSET D -> Nat] : Upto(g, n)}
<1>1. 0 \in T
  <2>1. Upto([s \in SUBSET D |-> 0], 0)
    <3> SUFFICES ASSUME NEW s \in SUBSET D, Cardinality(s) <= 0 PROVE s = {}  OBVIOUS
    <3> QED  BY SubsetSizes
  <2> QED  BY <2>1
<1>2. \A n \in Nat : n \in T => n + 1 \in T
  <2> SUFFICES ASSUME NEW n \in Nat, n \in T PROVE n + 1 \in T  OBVIOUS
  <2> PICK g \in [SUBSET D -> Nat] : Upto(g, n)  OBVIOUS
  <2> DEFINE h == [s \in SUBSET D |-> IF Cardinality(s) = n + 1
                                     THEN f[Chosen(s)] + g[s \ {Chosen(s)}] ELSE g[s]]
  <2>1. \A s \in SUBSET D : Cardinality(s) = n + 1 =>
          s # {} /\ Chosen(s) \in D /\ s \ {Chosen(s)} \in SUBSET D
    BY SubsetSizes
  <2>2. h \in [SUBSET D -> Nat]  BY <2>1
  <2>3. ASSUME NEW s \in SUBSET D, Cardinality(s) <= n + 1
        PROVE  h[s] = IF s = {} THEN 0 ELSE f[Chosen(s)] + h[s \ {Chosen(s)}]
    <3>1. CASE s = {}
      <4>1. Cardinality(s) = 0 /\ Cardinality(s) <= n  BY <3>1, SubsetSizes
      <4> QED  BY <3>1, <4>1
    <3>2. CASE s # {}
      <4> DEFINE t == s \ {Chosen(s)}
      <4>1. Chosen(s) \in s /\ Cardinality(s) \in Nat /\ Cardinality(t) = Cardinality(s) - 1
        BY <3>2, SubsetSizes
      <4>2. t \in SUBSET D /\ Cardinality(t) # n + 1  BY <2>3, <4>1
      <4>3. h[t] = g[t]  BY <4>2
      <4>4. CASE Cardinality(s) = n + 1  BY <3>2, <4>3, <4>4
      <4>5. CASE Cardinality(s) # n + 1
        <5>1. Cardinality(s) <= n  BY <2>3, <4>1, <4>5
        <5> QED  BY <3>2, <4>3, <4>5, <5>1
      <4> QED  BY <4>4, <4>5
    <3> QED  BY <3>1, <3>2
  <2>4. Upto(h, n + 1)  BY <2>2, <2>3
  <2> HIDE DEF h, Upto
  <2>5. n + 1 \in Nat /\ \E k \in [SUBSET D -> Nat] : Upto(k, n + 1)  BY <2>2, <2>4
  <2> QED  BY <2>5
<1> HIDE DEF T
<1>3. Nat \subseteq T  BY <1>1, <1>2, NatInd
<1>4. Cardinality(D) \in Nat  BY FS_CardinalityType
<1>5. PICK g \in [SUBSET D -> Nat] : Upto(g, Cardinality(D))  BY <1>3, <1>4 DEF T
<1>6. \A s \in SUBSET D : Cardinality(s) <= Cardinality(D)  BY SubsetSizes
<1> QED  BY <1>5, <1>6 DEF AddsUp

(* Elements may be added in any order. *)
LEMMA SumTakesOut ==
  ASSUME NEW D, IsFiniteSet(D), NEW f \in [D -> Nat], NEW g, AddsUp(g, f, D)
  PROVE  \A s \in SUBSET D : \A x \in s : g[s] = f[x] + g[s \ {x}]
<1> DEFINE F == {s \in SUBSET D : \A x \in s : g[s] = f[x] + g[s \ {x}]}
<1>1. ASSUME NEW s \in SUBSET D, \A t \in SUBSET s : t # s => t \in F
      PROVE  s \in F
  <2> SUFFICES ASSUME NEW x \in s PROVE g[s] = f[x] + g[s \ {x}]  OBVIOUS
  <2> DEFINE y == Chosen(s)
  <2>1. y \in s  BY SubsetSizes
  <2>2. g[s] = f[y] + g[s \ {y}]  BY DEF AddsUp
  <2>3. CASE x # y
    <3>1. s \ {x} \in F /\ y \in s \ {x}  BY <1>1, <2>1, <2>3
    <3>2. s \ {y} \in F /\ x \in s \ {y}  BY <1>1, <2>1, <2>3
    <3> HIDE DEF y
    <3>3. g[s \ {x}] = f[y] + g[(s \ {x}) \ {y}]  BY <3>1
    <3>4. g[s \ {y}] = f[x] + g[(s \ {y}) \ {x}]  BY <3>2
    <3>5. (s \ {x}) \ {y} = (s \ {y}) \ {x} /\ (s \ {x}) \ {y} \in SUBSET D  OBVIOUS
    <3>6. f[x] \in Nat /\ f[y] \in Nat /\ g[(s \ {x}) \ {y}] \in Nat
      BY <2>1, <3>5 DEF AddsUp
    <3> DEFINE rest == g[(s \ {x}) \ {y}]
    <3>7. g[s \ {x}] = f[y] + rest /\ g[s] = f[y] + (f[x] + rest)
      BY <2>2, <3>3, <3>4, <3>5
    <3> HIDE DEF rest
    <3>8. f[y] + (f[x] + rest) = f[x] + (f[y] + rest)  BY <3>6 DEF rest
    <3> QED  BY <3>7, <3>8
  <2> QED  BY <2>2, <2>3
<1>2. SUBSET D \subseteq F
  <2> HIDE DEF F
  <2> QED  BY <1>1, SubsetInduct
<1> QED  BY <1>2

(* The library's sum is one such. *)
LEMMA LibrarySum ==
  ASSUME NEW D, IsFiniteSet(D), NEW f \in [D -> Nat], NEW g, AddsUp(g, f, D),
         NEW S \in SUBSET D
  PROVE  Total(f, S) = g[S]
<1> DEFINE iter == CHOOSE h : h = [s \in SUBSET S |->
             IF s = {} THEN 0 ELSE f[Chosen(s)] + h[s \ {Chosen(s)}]]
<1>1. Total(f, S) = iter[S]
  BY DEF Total, MapThenSumSet, MapThenFoldSet, Chosen
<1>2. PICK h : h = [s \in SUBSET S |-> IF s = {} THEN 0 ELSE f[Chosen(s)] + h[s \ {Chosen(s)}]]
  <2> DEFINE k == [s \in SUBSET S |-> g[s]]
  <2>1. \A s \in SUBSET S : k[s] = IF s = {} THEN 0 ELSE f[Chosen(s)] + k[s \ {Chosen(s)}]
    BY DEF AddsUp
  <2>2. k = [s \in SUBSET S |-> IF s = {} THEN 0 ELSE f[Chosen(s)] + k[s \ {Chosen(s)}]]
    <3>1. k = [s \in SUBSET S |-> k[s]]  OBVIOUS
    <3> HIDE DEF k
    <3> QED  BY <2>1, <3>1
  <2> QED  BY <2>2
<1>3. iter = [s \in SUBSET S |-> IF s = {} THEN 0 ELSE f[Chosen(s)] + iter[s \ {Chosen(s)}]]
  BY <1>2
<1> HIDE DEF iter
<1> DEFINE F == {s \in SUBSET S : iter[s] = g[s]}
<1>4. IsFiniteSet(S)  BY SubsetSizes
<1>5. ASSUME NEW s \in SUBSET S, \A t \in SUBSET s : t # s => t \in F
      PROVE  s \in F
  <2>1. iter[s] = IF s = {} THEN 0 ELSE f[Chosen(s)] + iter[s \ {Chosen(s)}]  BY <1>3
  <2>2. g[s] = IF s = {} THEN 0 ELSE f[Chosen(s)] + g[s \ {Chosen(s)}]  BY DEF AddsUp
  <2>3. s # {} => Chosen(s) \in s /\ s \ {Chosen(s)} # s /\ s \ {Chosen(s)} \in SUBSET s
    BY DEF Chosen
  <2> QED  BY <1>5, <2>1, <2>2, <2>3
<1>6. SUBSET S \subseteq F
  <2> HIDE DEF F
  <2> QED  BY <1>4, <1>5, SubsetInduct
<1> QED  BY <1>1, <1>6

LEMMA SumFacts ==
  ASSUME NEW D, IsFiniteSet(D), NEW f \in [D -> Nat], NEW S \in SUBSET D
  PROVE  /\ Total(f, S) \in Nat
         /\ Total(f, {}) = 0
         /\ \A x \in S : Total(f, S) = f[x] + Total(f, S \ {x})
<1>1. PICK g : AddsUp(g, f, D)  BY SumsExist
<1>2. \A s \in SUBSET D : Total(f, s) = g[s]  BY <1>1, LibrarySum
<1>3. \A x \in S : g[S] = f[x] + g[S \ {x}]  BY <1>1, SumTakesOut
<1>4. g[S] \in Nat /\ g[{}] = 0  BY <1>1 DEF AddsUp
<1> QED  BY <1>2, <1>3, <1>4

(* Equal values, equal sums. *)
LEMMA SumsAgree ==
  ASSUME NEW D, IsFiniteSet(D), NEW f \in [D -> Nat], NEW h \in [D -> Nat],
         NEW S \in SUBSET D, \A x \in S : h[x] = f[x]
  PROVE  Total(h, S) = Total(f, S)
<1> DEFINE F == {s \in SUBSET S : Total(h, s) = Total(f, s)}
<1>1. ASSUME NEW s \in SUBSET S, \A t \in SUBSET s : t # s => t \in F
      PROVE  s \in F
  <2>1. CASE s = {}  BY <2>1, SumFacts
  <2>2. CASE s # {}
    <3> PICK x \in s : TRUE  BY <2>2
    <3>1. s \ {x} \in F  BY <1>1
    <3>2. Total(h, s) = h[x] + Total(h, s \ {x})  BY SumFacts
    <3>3. Total(f, s) = f[x] + Total(f, s \ {x})  BY SumFacts
    <3>4. Total(h, s \ {x}) = Total(f, s \ {x}) /\ h[x] = f[x]  BY <3>1
    <3>5. Total(h, s) = Total(f, s)  BY <3>2, <3>3, <3>4
    <3> QED  BY <3>5
  <2> QED  BY <2>1, <2>2
<1>2. IsFiniteSet(S)  BY FS_Subset
<1>3. SUBSET S \subseteq F
  <2> HIDE DEF F
  <2> QED  BY <1>1, <1>2, SubsetInduct
<1> QED  BY <1>3

(* One more at one place is one more in all. *)
LEMMA SumGrows ==
  ASSUME NEW D, IsFiniteSet(D), NEW f \in [D -> Nat], NEW h \in [D -> Nat], NEW x \in D,
         h[x] = f[x] + 1, \A y \in D : y # x => h[y] = f[y]
  PROVE  Total(h, D) = Total(f, D) + 1
<1>1. Total(h, D) = h[x] + Total(h, D \ {x}) /\ Total(f, D) = f[x] + Total(f, D \ {x})
  BY SumFacts
<1>2. Total(h, D \ {x}) = Total(f, D \ {x})  BY SumsAgree
<1>3. Total(f, D \ {x}) \in Nat /\ f[x] \in Nat  BY SumFacts
<1> QED  BY <1>1, <1>2, <1>3

(* Nothing at all adds up to nothing. *)
LEMMA SumOfZeros ==
  ASSUME NEW D, IsFiniteSet(D), NEW f \in [D -> Nat], \A x \in D : f[x] = 0
  PROVE  Total(f, D) = 0
<1> DEFINE F == {s \in SUBSET D : Total(f, s) = 0}
<1>1. ASSUME NEW s \in SUBSET D, \A t \in SUBSET s : t # s => t \in F
      PROVE  s \in F
  <2>1. CASE s = {}  BY <2>1, SumFacts
  <2>2. CASE s # {}
    <3> PICK x \in s : TRUE  BY <2>2
    <3>1. Total(f, s \ {x}) = 0  BY <1>1
    <3>2. Total(f, s) = f[x] + Total(f, s \ {x})  BY SumFacts
    <3>3. Total(f, s) = 0  BY <3>1, <3>2
    <3> QED  BY <3>3
  <2> QED  BY <2>1, <2>2
<1>2. SUBSET D \subseteq F
  <2> HIDE DEF F
  <2> QED  BY <1>1, SubsetInduct
<1> QED  BY <1>2

-----------------------------------------------------------------------------
(* The state tally. *)

LEMMA StateTallyKept ==
  TypeInv /\ TypeInv' /\ StateTallyFollows /\ [Next]_vars => StateTallyFollows'
<1> SUFFICES ASSUME TypeInv, TypeInv', StateTallyFollows, [Next]_vars
             PROVE  StateTallyFollows'
  OBVIOUS
<1> USE DEF box, tallies, workflow, env
<1>a. IsFiniteSet(Units) /\ IsFiniteSet(Parties) /\ None \notin [voted_count : Nat]
  BY LegacyVotingAssumptions
<1>b. /\ state_tally \in [Parties -> Nat] /\ state_tally' \in [Parties -> Nat]
      /\ polling_units \in [Units -> [voted_count : Nat] \cup {None}]
  BY DEF TypeInv, TypeOK
<1>c. polling_units' \in [Units -> [voted_count : Nat] \cup {None}]
  BY DEF TypeInv, TypeOK
<1> PICK f, g, h, k : f = state_tally /\ g = state_tally' /\ h = VotedCount /\ k = VotedCount'
  OBVIOUS
<1>d. h \in [Units -> Nat] /\ k \in [Units -> Nat]
  <2>1. \A row \in [voted_count : Nat] : row.voted_count \in Nat  OBVIOUS
  <2>2. h \in [Units -> Nat]  BY <1>b, <2>1 DEF VotedCount
  <2>3. k \in [Units -> Nat]  BY <1>c, <2>1 DEF VotedCount
  <2> QED  BY <2>2, <2>3
<1>e. Total(f, Parties) = Total(h, Units)  BY DEF StateTallyFollows
<1>f. SUFFICES Total(g, Parties) = Total(k, Units)  BY DEF StateTallyFollows
<1>1. CASE UNCHANGED <<polling_units, state_tally>>
  <2>1. g = f /\ k = h  BY <1>1 DEF VotedCount
  <2> QED  BY <1>e, <2>1
<1>2. ASSUME NEW u \in Units, RegisterPollingUnit(u)
      PROVE  Total(g, Parties) = Total(k, Units)
  <2>1. g = f  BY <1>2 DEF RegisterPollingUnit
  <2>2. \A x \in Units : k[x] = h[x]  BY <1>2, <1>b DEF RegisterPollingUnit, VotedCount
  <2>3. k = h  BY <1>d, <2>2
  <2> QED  BY <1>e, <2>1, <2>3
<1>3. ASSUME NEW r \in Requests, UpdateTally(r)
      PROVE  Total(g, Parties) = Total(k, Units)
  <2> DEFINE u == requests[r].unit
             p == requests[r].party
  <2>1. u \in Units /\ p \in Parties
    BY <1>3, StartedTypes DEF UpdateTally, At, TypeInv, Request
  <2> HIDE DEF u, p
  <2>2. CASE polling_units[u] = None
    <3>1. UNCHANGED <<polling_units, state_tally>>  BY <1>3, <2>2 DEF UpdateTally, u
    <3> QED  BY <1>1, <3>1
  <2>3. CASE polling_units[u] # None
    <3>1. /\ state_tally' = [state_tally EXCEPT ![p] = @ + 1]
          /\ polling_units' = [polling_units EXCEPT ![u].voted_count = @ + 1]
      BY <1>3, <2>3 DEF UpdateTally, u, p
    <3>2. g[p] = f[p] + 1 /\ \A x \in Parties : x # p => g[x] = f[x]
      BY <1>b, <2>1, <3>1
    <3>3. polling_units[u] \in [voted_count : Nat]  BY <1>b, <2>1, <2>3
    <3>4. k[u] = h[u] + 1
      <4>1. /\ polling_units'[u].voted_count = polling_units[u].voted_count + 1
            /\ polling_units'[u] \in [voted_count : Nat]
        BY <1>b, <2>1, <3>1, <3>3
      <4>2. polling_units'[u] # None  BY <1>a, <4>1
      <4> QED  BY <2>1, <2>3, <4>1, <4>2 DEF VotedCount
    <3>5. \A x \in Units : x # u => k[x] = h[x]
      BY <1>b, <2>1, <3>1 DEF VotedCount
    <3>6. Total(g, Parties) = Total(f, Parties) + 1
      BY <1>a, <1>b, <2>1, <3>2, SumGrows
    <3>7. Total(k, Units) = Total(h, Units) + 1
      BY <1>a, <1>d, <2>1, <3>4, <3>5, SumGrows
    <3> QED  BY <1>e, <3>6, <3>7
  <2> QED  BY <2>2, <2>3
<1>4. CASE Tick \/ SessionEnds
  <2>1. UNCHANGED <<polling_units, state_tally>>  BY <1>4 DEF Tick, SessionEnds
  <2> QED  BY <1>1, <2>1
<1>5. CASE (\E v \in Voters, b \in Ballots : IssueBallot(v, b)) \/ (\E v \in Voters : Walk(v))
  <2>1. UNCHANGED <<polling_units, state_tally>>  BY <1>5 DEF IssueBallot, Walk
  <2> QED  BY <1>1, <2>1
<1>6. CASE \E r \in Requests, secure, keyed \in BOOLEAN, v \in Voters, b \in Ballots,
              u \in Units, p \in Parties : Arrive(r, secure, keyed, v, b, u, p)
  <2>1. UNCHANGED <<polling_units, state_tally>>  BY <1>6 DEF Arrive
  <2> QED  BY <1>1, <2>1
<1>7. ASSUME NEW r \in Requests, Step(r)
      PROVE  Total(g, Parties) = Total(k, Units)
  <2>1. CASE \/ CheckIdempotency(r) \/ ForgetReply(r) \/ CheckSession(r) \/ ReadLock(r)
             \/ TakeLock(r) \/ CheckState(r) \/ EngineSession(r) \/ ReadBallot(r)
    <3>1. UNCHANGED <<polling_units, state_tally>>
      BY <2>1 DEF CheckIdempotency, ForgetReply, CheckSession, ReadLock, TakeLock,
         CheckState, EngineSession, ReadBallot
    <3> QED  BY <1>1, <3>1
  <2>2. CASE \/ CommitBallot(r) \/ ReadState(r) \/ MoveState(r) \/ LogResult(r)
             \/ RecordReply(r) \/ Unlock(r) \/ Busy(r)
    <3>1. UNCHANGED <<polling_units, state_tally>>
      BY <2>2 DEF CommitBallot, ReadState, MoveState, LogResult, RecordReply, Unlock, Busy
    <3> QED  BY <1>1, <3>1
  <2> QED  BY <1>3, <1>7, <2>1, <2>2 DEF Step
<1>8. ASSUME NEW r \in Requests, Die(r)
      PROVE  Total(g, Parties) = Total(k, Units)
  <2>1. UNCHANGED <<polling_units, state_tally>>  BY <1>8 DEF Die
  <2> QED  BY <1>1, <2>1
<1>9. CASE UNCHANGED vars
  <2>1. UNCHANGED <<polling_units, state_tally>>  BY <1>9 DEF vars
  <2> QED  BY <1>1, <2>1
<1> QED  BY <1>2, <1>4, <1>5, <1>6, <1>7, <1>8, <1>9 DEF Next

(* The tallies lag behind the ledger by exactly the ballots whose second   *)
(* transaction is outstanding or was lost, and never run ahead of it; the  *)
(* state has what its registered units have counted; a voter is marked     *)
(* only with a ballot in the ledger.                                       *)
THEOREM TalliesAlwaysFollow == Spec => []TalliesFollowTheLedger
<1>1. Init => StateTallyFollows
  <2> SUFFICES ASSUME Init PROVE StateTallyFollows  OBVIOUS
  <2> PICK f, h : f = state_tally /\ h = VotedCount  OBVIOUS
  <2>1. f \in [Parties -> Nat] /\ \A p \in Parties : f[p] = 0  BY DEF Init
  <2>2. h \in [Units -> Nat] /\ \A u \in Units : h[u] = 0  BY DEF Init, VotedCount
  <2>3. Total(f, Parties) = 0 /\ Total(h, Units) = 0
    BY <2>1, <2>2, SumOfZeros, LegacyVotingAssumptions
  <2> QED  BY <2>3 DEF StateTallyFollows
<1>2. Spec => []StateTallyFollows  BY <1>1, StateTallyKept, TypeInvHolds, PTL DEF Spec
<1>3. UnitTalliesLag /\ MarkedHaveBallots /\ StateTallyFollows => TalliesFollowTheLedger
  BY DEF TalliesFollowTheLedger
<1> QED  BY <1>2, <1>3, UnitTalliesFollow, PTL

-----------------------------------------------------------------------------
(* The voter's state. *)

Passed(v) == voter_state[v] \in {"VOTE_CAST", "VOTE_VERIFIED"}
Ready(v) == Passed(v) \/ voter_state[v] = "BALLOT_ISSUED"

(* Once its ballot is counted, a request of the workflow leaves the voter  *)
(* behind BALLOT_ISSUED unless it fails.                                   *)
MovesOn(q) ==
  /\ q.pc = "tally" \/ (q.pc \in Late /\ q.reply \in {"success", "error"})
  /\ q.secure => Ready(q.voter)
  /\ q.secure /\ q.reply = "success" /\ q.pc \notin {"transition", "move"} => Passed(q.voter)

Moved(i, r) ==
  /\ requests[r].ballot = ledger[i].ballot /\ requests[r].voter = ledger[i].voter
  /\ MovesOn(requests[r])

MoveInv ==
  /\ \A r \in Started : requests[r].secure
         /\ requests[r].pc \in {"engine", "ballot", "commit", "tally"} => Ready(requests[r].voter)
  /\ \A i \in DOMAIN ledger : \E r \in Started : Moved(i, r)

LEMMA StatesAdvance ==
  ASSUME TypeInv, [Next]_vars, NEW v \in Voters
  PROVE  (Ready(v) => Ready(v)') /\ (Passed(v) => Passed(v)')
<1> USE DEF workflow, Ready, Passed
<1>1. ASSUME NEW w \in Voters, Walk(w) PROVE (Ready(v) => Ready(v)') /\ (Passed(v) => Passed(v)')
  <2>1. CASE v = w  BY <1>1, <2>1, LegacyVotingAssumptions DEF Walk, NextState, TypeInv, TypeOK
  <2>2. CASE v # w  BY <1>1, <2>2 DEF Walk, TypeInv, TypeOK
  <2> QED  BY <2>1, <2>2
<1>2. CASE voter_state'[v] \in {voter_state[v], "VOTE_CAST"}  BY <1>2
<1> QED
  BY <1>1, <1>2, NextEffect
  DEF Counts, Tallies, Fails, Quiet, StateFollowed, IssueBallot, Nothing

(* What has moved on stays so, whoever steps. *)
LEMMA MovesOnKept ==
  ASSUME TypeInv, [Next]_vars, NEW q \in Request, MovesOn(q)
  PROVE  MovesOn(q)'
<1>1. q.voter \in Voters  BY DEF Request
<1> QED  BY <1>1, StatesAdvance DEF MovesOn

LEMMA MoveKept == TypeInv /\ MoveInv /\ [Next]_vars => MoveInv'
<1> SUFFICES ASSUME TypeInv, MoveInv, [Next]_vars PROVE MoveInv'  OBVIOUS
<1> USE DEF box
<1>a. RequestTypes  BY DEF TypeInv
<1>b. \A r \in Started : r \in Requests /\ requests[r] \in Request /\ requests[r].voter \in Voters
  BY <1>a, StartedTypes DEF Started, Request
<1>c. \A q \in Request : MovesOn(q) => MovesOn(q)'  BY MovesOnKept
<1>d. \A v \in Voters : Ready(v) => Ready(v)'  BY StatesAdvance
<1>1. ASSUME NEW r \in Requests, Started' = Started, r \in Started,
             \A s \in Started : s # r => requests'[s] = requests[s],
             requests'[r].ballot = requests[r].ballot, requests'[r].voter = requests[r].voter,
             UNCHANGED ledger,
             MovesOn(requests[r]) => MovesOn(requests[r])',
             requests'[r].secure /\ requests'[r].pc \in {"engine", "ballot", "commit", "tally"} =>
               Ready(requests[r].voter)'
      PROVE  MoveInv'
  <2>1. ASSUME NEW i \in DOMAIN ledger PROVE \E s \in Started : Moved(i, s)'
    <3>1. PICK s \in Started : Moved(i, s)  BY DEF MoveInv
    <3>2. CASE s = r  BY <1>1, <3>1, <3>2 DEF Moved
    <3>3. CASE s # r
      <4>1. MovesOn(requests[s])'
        <5>1. PICK q \in Request : q = requests[s]  BY <1>b
        <5>2. MovesOn(q)'  BY <1>c, <3>1, <5>1 DEF Moved
        <5> QED  BY <1>1, <3>3, <5>1, <5>2 DEF MovesOn, Ready, Passed
      <4> QED  BY <1>1, <3>1, <3>3, <4>1 DEF Moved
    <3> QED  BY <3>2, <3>3
  <2>2. ASSUME NEW s \in Started, (requests[s].secure)',
               requests'[s].pc \in {"engine", "ballot", "commit", "tally"}
        PROVE  Ready(requests[s].voter)'
    <3>1. CASE s = r  BY <1>1, <2>2, <3>1
    <3>2. CASE s # r
      <4>1. PICK v \in Voters : v = requests[s].voter  BY <1>b
      <4>2. Ready(v)  BY <1>1, <2>2, <3>2, <4>1 DEF MoveInv
      <4>3. Ready(v)'  BY <1>d, <4>2
      <4> QED  BY <1>1, <3>2, <4>1, <4>3 DEF Ready, Passed
    <3> QED  BY <3>1, <3>2
  <2> QED  BY <1>1, <2>1, <2>2 DEF MoveInv
<1>2. ASSUME NEW r \in Requests, Tallies(r) \/ Fails(r) PROVE MoveInv'
  <2>0. PICK pc \in {"transition", "unlock", "done"}, reply \in {"success", "error"} :
          /\ Moves(r, pc, reply)
          /\ reply = "error" \/ (IF requests[r].secure THEN pc = "transition" ELSE pc = "done")
    BY <1>2 DEF Tallies, Fails
  <2>1. /\ Started' = Started /\ r \in Started
        /\ \A s \in Started : s # r => requests'[s] = requests[s]
        /\ requests'[r].ballot = requests[r].ballot /\ requests'[r].voter = requests[r].voter
        /\ requests'[r].secure = requests[r].secure
        /\ requests'[r].pc = pc /\ requests'[r].reply = reply
    BY <1>a, <1>b, <2>0, StartedKept
  <2>2. UNCHANGED ledger /\ requests[r].pc = "tally"  BY <1>2 DEF Tallies, Fails
  <2>3. MovesOn(requests[r])'
    <3>1. PICK v \in Voters : v = requests[r].voter  BY <1>b, <2>1
    <3>2. requests[r].secure => Ready(v)'  BY <1>d, <2>1, <2>2, <3>1 DEF MoveInv
    <3>3. requests'[r].secure => Ready(requests[r].voter)'
      BY <2>1, <3>1, <3>2 DEF Ready, Passed
    <3> QED  BY <2>0, <2>1, <3>3 DEF MovesOn, Late
  <2> QED  BY <1>1, <2>1, <2>2, <2>3
<1>3. ASSUME NEW r \in Requests, Quiet(r) PROVE MoveInv'
  <2>0. PICK pc, reply : Moves(r, pc, reply)  BY <1>3 DEF Quiet
  <2>1. /\ Started' = Started /\ r \in Started
        /\ \A s \in Started : s # r => requests'[s] = requests[s]
        /\ requests'[r].ballot = requests[r].ballot /\ requests'[r].voter = requests[r].voter
        /\ requests'[r].secure = requests[r].secure
    BY <1>a, <1>b, <2>0, StartedKept
  <2>2. /\ UNCHANGED ledger /\ requests[r].pc # "tally" /\ requests'[r].pc # "tally"
        /\ RepliesKept(r) /\ StateFollowed(r)
    BY <1>3 DEF Quiet
  <2>3. PICK v \in Voters : v = requests[r].voter  BY <1>b, <2>1
  <2>4. ASSUME MovesOn(requests[r]) PROVE MovesOn(requests[r])'
    <3>1. /\ requests[r].pc \in Late /\ requests[r].reply \in {"success", "error"}
          /\ requests'[r].pc \in Late /\ requests'[r].reply \in {requests[r].reply, "error"}
      BY <2>2, <2>4 DEF MovesOn, RepliesKept
    <3>2. requests[r].secure => Ready(v) /\ Ready(v)'  BY <1>d, <2>3, <2>4 DEF MovesOn
    <3>3. ASSUME requests[r].secure, requests'[r].reply = "success",
                 requests'[r].pc \notin {"transition", "move"}
          PROVE  Passed(v)'
      <4>1. CASE requests[r].pc \in {"transition", "move"}
        BY <2>2, <2>3, <3>2, <3>3, <4>1 DEF StateFollowed, Ready, Passed
      <4>2. CASE requests[r].pc \notin {"transition", "move"}
        <5>1. Passed(v)  BY <2>3, <2>4, <3>1, <3>3, <4>2 DEF MovesOn
        <5> QED  BY <5>1, StatesAdvance
      <4> QED  BY <4>1, <4>2
    <3> QED  BY <2>1, <2>3, <3>1, <3>2, <3>3 DEF MovesOn, Ready, Passed
  <2>5. ASSUME requests[r].secure, requests'[r].pc \in {"engine", "ballot", "commit", "tally"}
        PROVE  Ready(requests[r].voter)'
    <3>1. requests[r].pc \in {"engine", "ballot"} \/ voter_state[v] = "BALLOT_ISSUED"
      BY <2>1, <2>2, <2>3, <2>5 DEF StateFollowed
    <3>2. Ready(v)  BY <2>1, <2>3, <2>5, <3>1 DEF MoveInv, Ready
    <3>3. Ready(v)'  BY <1>d, <3>2
    <3> QED  BY <2>1, <2>3, <3>3 DEF Ready, Passed
  <2> QED  BY <1>1, <2>1, <2>2, <2>4, <2>5
<1>4. ASSUME NEW r \in Requests, Counts(r) PROVE MoveInv'
  <2>1. /\ Started' = Started /\ r \in Started
        /\ \A s \in Started : s # r => requests'[s] = requests[s]
        /\ requests'[r].ballot = requests[r].ballot /\ requests'[r].voter = requests[r].voter
        /\ requests'[r].secure = requests[r].secure
        /\ requests'[r].pc = "tally" /\ requests[r].pc = "commit" /\ requests'[r].reply = "none"
    BY <1>4, <1>a, <1>b, StartedKept DEF Counts
  <2>2. PICK v \in Voters : v = requests[r].voter  BY <1>b, <2>1
  <2>3. requests[r].secure => Ready(v)'  BY <1>d, <2>1, <2>2 DEF MoveInv
  <2>4. requests[r].secure => Ready(requests[r].voter)'
    BY <2>1, <2>2, <2>3 DEF Ready, Passed
  <2>5. MovesOn(requests[r])'  BY <2>1, <2>4 DEF MovesOn
  <2>6. PICK n : /\ DOMAIN ledger' = DOMAIN ledger \cup {n}
                 /\ \A i \in DOMAIN ledger : ledger'[i] = ledger[i]
                 /\ ledger'[n] = EntryOf(requests[r]) /\ n \notin DOMAIN ledger
    BY <1>4, Appended
  <2>7. Moved(n, r)'
    <3>1. ledger'[n].ballot = requests[r].ballot /\ ledger'[n].voter = requests[r].voter
      BY <2>6 DEF EntryOf
    <3> QED  BY <2>1, <2>5, <3>1 DEF Moved
  <2>8. ASSUME NEW i \in DOMAIN ledger PROVE \E s \in Started : Moved(i, s)'
    <3>1. PICK s \in Started : Moved(i, s)  BY DEF MoveInv
    <3>2. s # r  BY <2>1, <3>1 DEF Moved, MovesOn, Late
    <3>3. PICK q \in Request : q = requests[s]  BY <1>b
    <3>4. MovesOn(q)'  BY <1>c, <3>1, <3>3 DEF Moved
    <3>5. MovesOn(requests[s])'
      BY <2>1, <3>2, <3>3, <3>4 DEF MovesOn, Ready, Passed
    <3> QED  BY <2>1, <2>6, <3>1, <3>2, <3>5 DEF Moved
  <2>9. ASSUME NEW s \in Started, (requests[s].secure)',
               requests'[s].pc \in {"engine", "ballot", "commit", "tally"}
        PROVE  Ready(requests[s].voter)'
    <3>1. CASE s = r  BY <2>1, <2>4, <2>9, <3>1
    <3>2. CASE s # r
      <4>1. PICK w \in Voters : w = requests[s].voter  BY <1>b
      <4>2. Ready(w)  BY <2>1, <2>9, <3>2, <4>1 DEF MoveInv
      <4>3. Ready(w)'  BY <1>d, <4>2
      <4> QED  BY <2>1, <3>2, <4>1, <4>3 DEF Ready, Passed
    <3> QED  BY <3>1, <3>2
  <2> QED  BY <2>1, <2>6, <2>7, <2>8, <2>9 DEF MoveInv
<1>5. ASSUME NEW r \in Requests, Arrival(r),
             UNCHANGED <<tally, has_voted, untallied, box, workflow>>
      PROVE  MoveInv'
  <2>1. /\ Started' = Started \cup {r} /\ r \notin Started
        /\ requests'[r].pc \in {"idempotency", "session", "engine"}
        /\ requests'[r].secure => requests'[r].pc # "engine"
        /\ \A s \in Started : requests'[s] = requests[s]
    <3>1. \A q \in Request : q.pc # "new"  BY DEF Request, Early, Late
    <3> QED  BY <1>5, <1>a, <3>1 DEF Arrival, Started, RequestTypes, NewRequest
  <2> QED
    BY <1>5, <2>1 DEF MoveInv, Moved, MovesOn, Ready, Passed, workflow
<1>6. CASE UNCHANGED <<ledger, requests>>
  <2>1. Started' = Started  BY <1>6 DEF Started
  <2>2. ASSUME NEW r \in Started
        PROVE  /\ Ready(requests[r].voter) => Ready(requests[r].voter)'
               /\ MovesOn(requests[r]) => MovesOn(requests[r])'
    <3>1. PICK q \in Request : q = requests[r] /\ q.voter \in Voters  BY <1>b
    <3>2. (Ready(q.voter) => Ready(q.voter)') /\ (MovesOn(q) => MovesOn(q)')
      BY <1>c, <1>d, <3>1
    <3> QED  BY <1>6, <3>1, <3>2 DEF MovesOn, Ready, Passed
  <2> QED  BY <1>6, <2>1, <2>2 DEF MoveInv, Moved
<1> QED
  BY <1>2, <1>3, <1>4, <1>5, <1>6, NextEffect DEF IssueBallot, Walk, Nothing

(* While a voter's state still lets her cast, each of her ballots in the   *)
(* ledger belongs to a request that came in by the API alone, has yet to   *)
(* move the state, or failed: the workflow counts two ballots of a voter   *)
(* only by requests that overlap, or after one that broke off.             *)
THEOREM CountedVotersAlwaysMoveOn == Spec => []CountedVotersMoveOn
<1>1. Init => MoveInv
  BY DEF Init, MoveInv, Started, NewRequest
<1>2. MoveInv => CountedVotersMoveOn
  BY DEF MoveInv, Moved, MovesOn, Passed, CountedVotersMoveOn
<1> QED  BY <1>1, <1>2, MoveKept, TypeInvHolds, PTL DEF Spec

-----------------------------------------------------------------------------
(* Accreditation.                                                          *)
(*                                                                         *)
(* Every request reads first and writes later, but what it has read rules  *)
(* the rest out: a voter read as REGISTERED has no session, a code read as *)
(* unused has not been accepted.  So nobody who goes on has seen any, and  *)
(* the two of one voter who both succeed must have read before either      *)
(* wrote.                                                                  *)

Operations == {"register", "authenticate", "issue", "verify"}

(* What a request has seen when it reads is nothing, or it fails. *)
Caller ==
  [phase : {"read", "write", "success", "failed"}, voter : Voters, code : Codes,
   plan : Seq(Operations), done : SUBSET Operations, seen : {{}}, row : Nat, at : Nat]

AccTypes ==
  /\ seconds \in 0..MaxTime
  /\ voters \in [Voters -> Voter \cup {None}]
  /\ sessions \in [Requests -> Session \cup {None}]
  /\ otps \in Seq(Otp)
  /\ callers \in [Requests -> Caller \cup {NewCaller}]
  /\ \A r \in Requests : callers[r].phase \in {"read", "write"} => callers[r].plan # << >>

Came(r) == callers[r] # NewCaller
Accredited(v) == voters[v] # None /\ voters[v].status = "ACCREDITED"

(* Row i was of the last second of those issued to its voter in the first  *)
(* n rows.                                                                 *)
LatestOf(i, n) ==
  /\ n \in 0..Len(otps) /\ i \in 1..n
  /\ \A j \in 1..n : otps[j].voter = otps[i].voter => otps[j].created_at <= otps[i].created_at

(* Who is registered stays so, and is registered by one request. *)
RegisterInv ==
  /\ \A r \in Requests : Did(r, "register") \/ Writes(r, "authenticate") =>
       voters[callers[r].voter] # None
  /\ \A r, s \in Requests :
       Did(r, "register") /\ Did(s, "register") /\ callers[r].voter = callers[s].voter =>
         r = s

(* Who has, or had, a session is accredited. *)
SessionInv == \A r \in Requests : sessions[r] # None => Accredited(sessions[r].voter)

CodeInv ==
  /\ \A r \in Requests : Writes(r, "verify") => LatestOf(callers[r].row, callers[r].at)
  /\ \A a \in accepted : a.before = {} /\ LatestOf(a.row, a.issued) /\ otps[a.row].is_used

AccInv == AccTypes /\ RegisterInv /\ SessionInv /\ CodeInv

LEMMA CallerTypes ==
  ASSUME AccTypes, NEW r \in Requests
  PROVE  /\ Came(r) <=> callers[r].phase # "new"
         /\ Came(r) => callers[r] \in Caller
         /\ callers[r].phase \in {"read", "write"} =>
              callers[r].plan \in Seq(Operations) /\ Head(callers[r].plan) \in Operations
<1>1. callers[r] \in Caller \cup {NewCaller}  BY DEF AccTypes
<1>2. \A q \in Caller : q.phase \in {"read", "write", "success", "failed"} /\ q.plan \in Seq(Operations)
  BY DEF Caller
<1>3. NewCaller.phase = "new"  BY DEF NewCaller
<1>4. callers[r].phase \in {"read", "write"} => callers[r] \in Caller /\ callers[r].plan # << >>
  BY <1>1, <1>2, <1>3 DEF AccTypes
<1>5. \A p \in Seq(Operations) : p # << >> => Head(p) \in Operations  OBVIOUS
<1> QED  BY <1>1, <1>2, <1>3, <1>4, <1>5 DEF Came

(* A step of request r leaves the others where they are. *)
Turn(r) ==
  /\ callers' \in [Requests -> Caller \cup {NewCaller}]
  /\ \A s \in Requests : s # r => callers'[s] = callers[s]
  /\ callers[r] \in Caller /\ callers'[r] \in Caller
  /\ callers'[r].voter = callers[r].voter
  /\ callers'[r].phase \in {"read", "write"} => callers'[r].plan # << >>

LEMMA FailTurn ==
  ASSUME AccTypes, NEW r \in Requests, callers[r].phase \in {"read", "write"}, Fail(r)
  PROVE  Turn(r) /\ callers'[r].phase = "failed" /\ callers'[r].done = callers[r].done
<1>1. callers[r] \in Caller  BY CallerTypes DEF Came
<1>2. callers' = [callers EXCEPT ![r] = [callers[r] EXCEPT !.phase = "failed"]]  BY DEF Fail
<1>3. /\ callers'[r] = [callers[r] EXCEPT !.phase = "failed"]
      /\ \A s \in Requests : s # r => callers'[s] = callers[s]
  BY <1>2 DEF AccTypes
<1>4. /\ [callers[r] EXCEPT !.phase = "failed"] \in Caller
      /\ [callers[r] EXCEPT !.phase = "failed"].phase = "failed"
      /\ [callers[r] EXCEPT !.phase = "failed"].voter = callers[r].voter
      /\ [callers[r] EXCEPT !.phase = "failed"].done = callers[r].done
  BY <1>1 DEF Caller
<1>5. callers' \in [Requests -> Caller \cup {NewCaller}]  BY <1>2, <1>4 DEF AccTypes
<1> QED  BY <1>1, <1>3, <1>4, <1>5 DEF Turn

LEMMA FinishTurn ==
  ASSUME AccTypes, NEW r \in Requests, callers[r].phase \in {"read", "write"}, Finish(r)
  PROVE  /\ Turn(r) /\ callers'[r].phase \in {"read", "success"}
         /\ callers'[r].done = callers[r].done \cup {Head(callers[r].plan)}
<1> DEFINE q == callers[r]
           phase == IF Len(q.plan) = 1 THEN "success" ELSE "read"
           p == [[[q EXCEPT !.plan = Tail(q.plan)] EXCEPT !.phase = phase]
                   EXCEPT !.done = q.done \cup {Head(q.plan)}]
<1>1. q \in Caller /\ q.plan \in Seq(Operations) /\ q.plan # << >> /\ Head(q.plan) \in Operations
  BY CallerTypes DEF Came, AccTypes
<1>2. Tail(q.plan) \in Seq(Operations) /\ (Len(q.plan) # 1 => Tail(q.plan) # << >>)
  <2>1. \A t \in Seq(Operations) : t # << >> =>
          Tail(t) \in Seq(Operations) /\ Len(Tail(t)) = Len(t) - 1 /\ Len(t) \in Nat
    OBVIOUS
  <2>2. Len(q.plan) # 1 => Len(Tail(q.plan)) # 0  BY <1>1, <2>1
  <2> QED  BY <1>1, <2>1, <2>2
<1>3. callers' = [callers EXCEPT ![r] = p]  BY DEF Finish, AccTypes
<1>4. /\ p \in Caller /\ p.phase = phase /\ p.voter = q.voter /\ p.plan = Tail(q.plan)
      /\ p.done = q.done \cup {Head(q.plan)}
  BY <1>1, <1>2 DEF Caller
<1> HIDE DEF p
<1>5. callers'[r] = p /\ \A s \in Requests : s # r => callers'[s] = callers[s]
  BY <1>3 DEF AccTypes
<1>6. callers' \in [Requests -> Caller \cup {NewCaller}]  BY <1>3, <1>4 DEF AccTypes
<1> QED  BY <1>1, <1>2, <1>4, <1>5, <1>6 DEF Turn

LEMMA SetTurn ==
  ASSUME AccTypes, NEW r \in Requests, callers[r].phase \in {"read", "write"},
         NEW p \in Caller, callers' = [callers EXCEPT ![r] = p],
         p.voter = callers[r].voter, p.plan = callers[r].plan
  PROVE  Turn(r) /\ callers'[r] = p
<1>1. callers[r] \in Caller /\ callers[r].plan # << >>  BY CallerTypes DEF Came, AccTypes
<1>2. callers'[r] = p /\ \A s \in Requests : s # r => callers'[s] = callers[s]  BY DEF AccTypes
<1>3. callers' \in [Requests -> Caller \cup {NewCaller}]  BY DEF AccTypes
<1> QED  BY <1>1, <1>2, <1>3 DEF Turn

-----------------------------------------------------------------------------
(* What every step keeps. *)

VotersKept ==
  /\ voters' \in [Voters -> Voter \cup {None}]
  /\ \A v \in Voters : /\ voters[v] # None => voters'[v] # None
                       /\ Accredited(v) => Accredited(v)'

SessionsKept ==
  /\ sessions' \in [Requests -> Session \cup {None}]
  /\ \A s \in Requests : sessions'[s] # None =>
       \/ sessions[s] # None /\ sessions'[s].voter = sessions[s].voter
       \/ Accredited(sessions[s].voter)'

RowsKept ==
  /\ otps' \in Seq(Otp) /\ Len(otps) <= Len(otps')
  /\ \A i \in 1..Len(otps) :
       /\ otps'[i].voter = otps[i].voter /\ otps'[i].created_at = otps[i].created_at
       /\ otps[i].is_used => otps'[i].is_used

LEMMA LatestStays ==
  ASSUME AccTypes, RowsKept, NEW i, NEW n, LatestOf(i, n)
  PROVE  LatestOf(i, n)'
<1>1. Len(otps) \in Nat /\ Len(otps') \in Nat  BY DEF AccTypes, RowsKept
<1>2. n \in 0..Len(otps) /\ i \in 1..n /\ n \in 0..Len(otps')
  BY <1>1 DEF LatestOf, RowsKept
<1>3. \A j \in 1..n : j \in 1..Len(otps)  BY <1>1, <1>2
<1> QED  BY <1>2, <1>3 DEF LatestOf, RowsKept

(* The codes accepted, new ones too. *)
AcceptedKept ==
  \A a \in accepted' :
    a \in accepted \/ (a.before = {} /\ LatestOf(a.row, a.issued)' /\ otps'[a.row].is_used)

(* What the step has to show of the request that makes it. *)
Own(r) ==
  /\ Did(r, "register")' \/ Writes(r, "authenticate")' => voters'[callers'[r].voter] # None
  /\ Did(r, "register")' => \/ Did(r, "register")
                            \/ \A s \in Requests : Did(s, "register") =>
                                     callers[s].voter # callers'[r].voter
  /\ Writes(r, "verify")' => LatestOf(callers[r].row, callers[r].at)'

LEMMA AcceptedStay ==
  ASSUME AccInv, RowsKept, AcceptedKept
  PROVE  \A a \in accepted' : a.before = {} /\ LatestOf(a.row, a.issued)' /\ otps'[a.row].is_used
<1> SUFFICES ASSUME NEW a \in accepted'
             PROVE  a.before = {} /\ LatestOf(a.row, a.issued)' /\ otps'[a.row].is_used
  OBVIOUS
<1>1. CASE a \in accepted
  <2>1. a.before = {} /\ LatestOf(a.row, a.issued) /\ otps[a.row].is_used
    BY <1>1 DEF AccInv, CodeInv
  <2>2. PICK i, n : i = a.row /\ n = a.issued  OBVIOUS
  <2>3. LatestOf(i, n)'  BY <2>1, <2>2, LatestStays DEF AccInv
  <2>4. i \in 1..Len(otps)
    <3>1. Len(otps) \in Nat  BY DEF AccInv, AccTypes
    <3> QED  BY <2>1, <2>2, <3>1 DEF LatestOf
  <2> QED  BY <2>1, <2>2, <2>3, <2>4 DEF RowsKept, LatestOf
<1>2. CASE a \notin accepted  BY <1>2 DEF AcceptedKept
<1> QED  BY <1>1, <1>2

TablesKept == VotersKept /\ SessionsKept /\ RowsKept /\ AcceptedKept /\ seconds' \in 0..MaxTime

(* One request at most moves, and shows its own part. *)
LEMMA OneMoves ==
  ASSUME AccInv, TablesKept, NEW S \in SUBSET Requests, \A r, s \in S : r = s,
         callers' \in [Requests -> Caller \cup {NewCaller}],
         \A s \in Requests \ S : callers'[s] = callers[s],
         \A r \in S : Own(r) /\ (callers'[r].phase \in {"read", "write"} => callers'[r].plan # << >>),
         \A r \in S : Came(r) => callers'[r].voter = callers[r].voter
  PROVE  AccInv'
<1> USE DEF TablesKept
<1>1. AccTypes'
  BY DEF AccInv, AccTypes, VotersKept, SessionsKept, RowsKept
<1>a. \A s \in Requests : Came(s) => callers[s].voter \in Voters
  BY CallerTypes DEF AccInv, Caller
<1>c. \A s \in Requests \ S :
        /\ callers'[s] = callers[s]
        /\ \A op : (Did(s, op)' = Did(s, op)) /\ (Writes(s, op)' = Writes(s, op))
  BY DEF Did, Writes, NewCaller
<1>d. \A s \in Requests : \A op : Did(s, op) \/ Writes(s, op) => Came(s)
  BY CallerTypes DEF Did, Writes, Came, AccInv
<1>2. RegisterInv'
  <2>1. ASSUME NEW s \in Requests, Did(s, "register")' \/ Writes(s, "authenticate")'
        PROVE  voters'[callers'[s].voter] # None
    <3>1. CASE s \in S  BY <2>1, <3>1 DEF Own
    <3>2. CASE s \notin S
      <4>1. Did(s, "register") \/ Writes(s, "authenticate")  BY <1>c, <2>1, <3>2
      <4>2. voters[callers[s].voter] # None /\ callers[s].voter \in Voters
        BY <1>a, <1>d, <4>1 DEF AccInv, RegisterInv
      <4> QED  BY <1>c, <3>2, <4>2 DEF VotersKept
    <3> QED  BY <3>1, <3>2
  <2>2. ASSUME NEW s \in Requests, NEW t \in Requests, Did(s, "register")',
               Did(t, "register")', callers'[s].voter = callers'[t].voter
        PROVE  s = t
    <3>1. CASE s \notin S /\ t \notin S  BY <1>c, <2>2, <3>1 DEF AccInv, RegisterInv
    <3>2. ASSUME NEW r \in S, NEW u \in Requests \ S, Did(r, "register")',
                 Did(u, "register")', callers'[u].voter = callers'[r].voter
          PROVE  FALSE
      <4>1. Did(u, "register") /\ callers[u].voter = callers'[r].voter  BY <1>c, <3>2
      <4>2. CASE Did(r, "register")
        <5>1. callers'[r].voter = callers[r].voter  BY <1>d, <4>2
        <5> QED  BY <3>2, <4>1, <4>2, <5>1 DEF AccInv, RegisterInv
      <4> QED  BY <3>2, <4>1, <4>2 DEF Own
    <3> QED  BY <2>2, <3>1, <3>2
  <2> QED  BY <2>1, <2>2 DEF RegisterInv
<1>3. SessionInv'
  <2> SUFFICES ASSUME NEW s \in Requests, sessions'[s] # None
               PROVE  Accredited(sessions[s].voter)'
    BY DEF SessionInv
  <2>1. CASE sessions[s] # None /\ sessions'[s].voter = sessions[s].voter
    <3>1. PICK v \in Voters : v = sessions[s].voter
      BY <2>1 DEF AccInv, AccTypes, Session
    <3>2. Accredited(v)  BY <2>1, <3>1 DEF AccInv, SessionInv
    <3>3. Accredited(v)'  BY <3>2 DEF VotersKept
    <3> QED  BY <2>1, <3>1, <3>3 DEF Accredited
  <2> QED  BY <2>1 DEF SessionsKept
<1>4. CodeInv'
  <2>1. ASSUME NEW s \in Requests, Writes(s, "verify")'
        PROVE  LatestOf(callers[s].row, callers[s].at)'
    <3>1. CASE s \in S  BY <2>1, <3>1 DEF Own
    <3>2. CASE s \notin S
      <4>1. PICK i, n : i = callers[s].row /\ n = callers[s].at  OBVIOUS
      <4>2. LatestOf(i, n)  BY <1>c, <2>1, <3>2, <4>1 DEF AccInv, CodeInv
      <4>3. LatestOf(i, n)'  BY <4>2, LatestStays DEF AccInv
      <4> QED  BY <1>c, <3>2, <4>1, <4>3 DEF LatestOf
    <3> QED  BY <3>1, <3>2
  <2> QED  BY <2>1, AcceptedStay DEF CodeInv
<1> QED  BY <1>1, <1>2, <1>3, <1>4 DEF AccInv

LEMMA TurnKeeps ==
  ASSUME AccInv, NEW r \in Requests, Turn(r), Own(r), TablesKept
  PROVE  AccInv'
<1>1. PICK S \in SUBSET Requests : S = {r}  OBVIOUS
<1>2. \A s \in Requests \ S : callers'[s] = callers[s]  BY <1>1 DEF Turn
<1> QED  BY <1>1, <1>2, OneMoves DEF Turn

LEMMA NobodyMoves ==
  ASSUME AccInv, UNCHANGED callers, TablesKept
  PROVE  AccInv'
<1>1. PICK S \in SUBSET Requests : S = {}  OBVIOUS
<1>2. callers' \in [Requests -> Caller \cup {NewCaller}]  BY DEF AccInv, AccTypes
<1> QED  BY <1>1, <1>2, OneMoves

LEMMA TablesStay ==
  ASSUME AccInv
  PROVE  /\ UNCHANGED voters => VotersKept
         /\ UNCHANGED sessions => SessionsKept
         /\ UNCHANGED otps => RowsKept
         /\ UNCHANGED accepted => AcceptedKept
         /\ UNCHANGED seconds => seconds' \in 0..MaxTime
<1>1. UNCHANGED voters => VotersKept  BY DEF VotersKept, AccInv, AccTypes, Accredited
<1>2. UNCHANGED sessions => SessionsKept  BY DEF SessionsKept, AccInv, AccTypes
<1>3. UNCHANGED otps => RowsKept
  <2>1. Len(otps) \in Nat /\ otps \in Seq(Otp)  BY DEF AccInv, AccTypes
  <2> QED  BY <2>1 DEF RowsKept
<1>4. UNCHANGED accepted => AcceptedKept  BY DEF AcceptedKept
<1>5. UNCHANGED seconds => seconds' \in 0..MaxTime  BY DEF AccInv, AccTypes
<1> QED  BY <1>1, <1>2, <1>3, <1>4, <1>5

(* A request that has ended, or goes on to read, has nothing to show but   *)
(* that it has registered no one.                                          *)
LEMMA EndOwn ==
  ASSUME AccInv, NEW r \in Requests, Turn(r), VotersKept, callers'[r].phase # "write",
         "register" \in callers'[r].done => "register" \in callers[r].done
  PROVE  Own(r)
<1>1. Did(r, "register")' => Did(r, "register")
  <2>1. callers[r].phase # "new" /\ NewCaller.phase = "new"
    BY DEF Turn, Caller, NewCaller
  <2> QED  BY <2>1 DEF Did
<1>2. ~Writes(r, "authenticate")' /\ ~Writes(r, "verify")'  BY DEF Writes
<1>3. callers'[r].voter = callers[r].voter /\ callers[r].voter \in Voters  BY DEF Turn, Caller
<1>4. Did(r, "register") => voters'[callers'[r].voter] # None
  BY <1>3 DEF AccInv, RegisterInv, VotersKept
<1> QED  BY <1>1, <1>2, <1>4 DEF Own

(* Marking a code as used. *)
LEMMA UsedKept ==
  ASSUME otps \in Seq(Otp), NEW i \in 1..Len(otps),
         otps' = [otps EXCEPT ![i].is_used = TRUE]
  PROVE  RowsKept /\ otps'[i].is_used
<1> DEFINE row == [otps[i] EXCEPT !.is_used = TRUE]
<1>a. otps \in [1..Len(otps) -> Otp] /\ Len(otps) \in Nat  OBVIOUS
<1>1. otps[i] \in Otp  OBVIOUS
<1>2. /\ row \in Otp /\ row.voter = otps[i].voter /\ row.created_at = otps[i].created_at
      /\ row.is_used
  BY <1>1 DEF Otp
<1>3. otps' = [otps EXCEPT ![i] = row]  OBVIOUS
<1> HIDE DEF row
<1>4. /\ otps' \in [1..Len(otps) -> Otp]
      /\ otps'[i] = row /\ \A j \in 1..Len(otps) : j # i => otps'[j] = otps[j]
  BY <1>a, <1>2, <1>3
<1>5. otps' \in Seq(Otp) /\ Len(otps') = Len(otps)
  <2>1. \A n \in Nat : \A f \in [1..n -> Otp] : f \in Seq(Otp) /\ Len(f) = n
    OBVIOUS
  <2> QED  BY <1>a, <1>4, <2>1
<1> QED  BY <1>a, <1>2, <1>4, <1>5 DEF RowsKept

-----------------------------------------------------------------------------
(* The actions. *)

LEMMA StepKeepsAccInv ==
  ASSUME AccInv, NEW r \in Requests, CallerStep(r)
  PROVE  AccInv'
<1> DEFINE q == callers[r]
           v == q.voter
           op == Head(q.plan)
<1>a. /\ q.phase \in {"read", "write"} => q \in Caller /\ v \in Voters /\ op \in Operations
      /\ q.phase \in {"read", "write"} => q.plan # << >>
  BY CallerTypes DEF AccInv, AccTypes, Came, Caller
<1>t. AccTypes  BY DEF AccInv
<1> USE DEF TablesKept, Reads, Writes
<1>b. ASSUME q.phase \in {"read", "write"}, Fail(r), TablesKept
      PROVE  AccInv'
  <2>1. Turn(r) /\ callers'[r].phase = "failed" /\ callers'[r].done = callers[r].done
    BY <1>b, <1>t, FailTurn
  <2> QED  BY <1>b, <2>1, EndOwn, TurnKeeps
<1>c. ASSUME q.phase \in {"read", "write"}, Finish(r), TablesKept, op # "register"
      PROVE  AccInv'
  <2>1. /\ Turn(r) /\ callers'[r].phase \in {"read", "success"}
        /\ callers'[r].done = callers[r].done \cup {op}
    BY <1>c, <1>t, FinishTurn
  <2> QED  BY <1>c, <2>1, EndOwn, TurnKeeps
<1>1. CASE CheckDuplicate(r)
  <2>0. q.phase = "read" /\ op = "register" /\ TablesKept
    BY <1>1, TablesStay DEF CheckDuplicate
  <2>1. CASE Fail(r)  BY <1>b, <2>0, <2>1
  <2>2. CASE GoOn(r)
    <3> DEFINE p == [q EXCEPT !.phase = "write"]
    <3>1. /\ p \in Caller /\ p.voter = v /\ p.plan = q.plan /\ p.done = q.done /\ p.phase = "write"
          /\ p # NewCaller
      BY <1>a, <2>0 DEF Caller, NewCaller
    <3>2. callers' = [callers EXCEPT ![r] = p]  BY <2>2 DEF GoOn
    <3> HIDE DEF p
    <3>3. Turn(r) /\ callers'[r] = p  BY <1>t, <2>0, <3>1, <3>2, SetTurn
    <3>4. Own(r)
      <4>1. ~Writes(r, "authenticate")' /\ ~Writes(r, "verify")'
        BY <2>0, <3>1, <3>3
      <4>2. Did(r, "register")' => Did(r, "register")
        <5>1. q # NewCaller  BY <2>0 DEF NewCaller
        <5> QED  BY <3>1, <3>3, <5>1 DEF Did
      <4>3. Did(r, "register") => voters'[v] # None
        BY <1>a, <2>0 DEF AccInv, RegisterInv, VotersKept
      <4> QED  BY <3>1, <3>3, <4>1, <4>2, <4>3 DEF Own
    <3> QED  BY <2>0, <3>3, <3>4, TurnKeeps
  <2> QED  BY <1>1, <2>1, <2>2 DEF CheckDuplicate
<1>2. CASE InsertVoter(r)
  <2>0. /\ q.phase = "write" /\ op = "register" /\ v \in Voters
        /\ UNCHANGED <<seconds, sessions, otps, accepted>>
    BY <1>2, <1>a DEF InsertVoter
  <2>1. CASE Fail(r) /\ UNCHANGED voters
    BY <1>b, <2>0, <2>1, TablesStay
  <2>2. CASE voters[v] = None /\ Finish(r)
              /\ voters' = [voters EXCEPT ![v] = [status |-> "REGISTERED", has_voted |-> FALSE]]
    <3>1. [status |-> "REGISTERED", has_voted |-> FALSE] \in Voter  BY DEF Voter
    <3>2. voters'[v] # None  BY LegacyAccreditationAssumptions, <1>t, <2>0, <2>2, <3>1 DEF AccTypes
    <3>3. VotersKept
      BY <1>t, <2>0, <2>2, <3>1, <3>2 DEF AccTypes, VotersKept, Accredited
    <3>4. TablesKept  BY <2>0, <3>3, TablesStay
    <3>5. Turn(r) /\ callers'[r].phase \in {"read", "success"}
      BY <1>t, <2>0, <2>2, FinishTurn
    <3>6. callers'[r].voter = v  BY <3>5 DEF Turn
    <3>7. \A s \in Requests : Did(s, "register") => callers[s].voter # v
      BY <2>2 DEF AccInv, RegisterInv
    <3>8. Own(r)
      <4>1. ~Writes(r, "authenticate")' /\ ~Writes(r, "verify")'  BY <3>5
      <4> QED  BY <3>2, <3>6, <3>7, <4>1 DEF Own
    <3> QED  BY <3>4, <3>5, <3>8, TurnKeeps
  <2> QED  BY <1>2, <2>1, <2>2 DEF InsertVoter, Insertable
<1>3. CASE CheckVoter(r)
  <2>0. q.phase = "read" /\ op = "authenticate" /\ v \in Voters /\ q \in Caller /\ TablesKept
    BY <1>3, <1>a, TablesStay DEF CheckVoter
  <2>1. CASE Fail(r)  BY <1>b, <2>0, <2>1
  <2>2. CASE /\ MayAuthenticate(v)
             /\ callers' = [callers EXCEPT ![r].phase = "write", ![r].seen = SessionsOf(v)]
    <3>1. SessionsOf(v) = {}
      <4>1. ~Accredited(v)  BY <2>2 DEF MayAuthenticate, Accredited
      <4> QED  BY <4>1 DEF SessionsOf, AccInv, SessionInv
    <3> DEFINE p == [[q EXCEPT !.phase = "write"] EXCEPT !.seen = {}]
    <3>2. /\ p \in Caller /\ p.voter = v /\ p.plan = q.plan /\ p.done = q.done /\ p.phase = "write"
          /\ p # NewCaller
      BY <2>0 DEF Caller, NewCaller
    <3>3. callers' = [callers EXCEPT ![r] = p]  BY <1>t, <2>2, <3>1 DEF AccTypes
    <3> HIDE DEF p
    <3>4. Turn(r) /\ callers'[r] = p  BY <1>t, <2>0, <3>2, <3>3, SetTurn
    <3>5. Own(r)
      <4>1. voters[v] # None /\ voters' = voters
        BY <1>3, <2>2 DEF MayAuthenticate, CheckVoter
      <4>2. ~Writes(r, "verify")'  BY <2>0, <3>2, <3>4
      <4>3. Did(r, "register")' => Did(r, "register")
        <5>1. q # NewCaller  BY <2>0 DEF NewCaller
        <5> QED  BY <3>2, <3>4, <5>1 DEF Did
      <4> QED  BY <3>2, <3>4, <4>1, <4>2, <4>3 DEF Own
    <3> QED  BY <2>0, <3>4, <3>5, TurnKeeps
  <2> QED  BY <1>3, <2>1, <2>2 DEF CheckVoter
<1>4. CASE OpenSession(r)
  <2>a. PICK w : w = callers[r].voter  OBVIOUS
  <2>0. /\ q.phase = "write" /\ op = "authenticate" /\ w \in Voters /\ Finish(r)
        /\ UNCHANGED <<seconds, otps, accepted>>
    BY <1>4, <1>a, <2>a DEF OpenSession
  <2>1. voters[w] # None  BY <2>a, <2>0 DEF AccInv, RegisterInv
  <2>2. voters[w] \in Voter  BY <1>t, <2>0, <2>1 DEF AccTypes
  <2>3. voters' = [voters EXCEPT ![w] = [voters[w] EXCEPT !.status = "ACCREDITED"]]
    BY <1>4, <2>a DEF OpenSession, NewStatus
  <2>4. /\ [voters[w] EXCEPT !.status = "ACCREDITED"] \in Voter
        /\ [voters[w] EXCEPT !.status = "ACCREDITED"].status = "ACCREDITED"
    BY <2>2 DEF Voter
  <2>5. Accredited(w)'
    BY LegacyAccreditationAssumptions, <1>t, <2>0, <2>3, <2>4 DEF Accredited, AccTypes
  <2>6. VotersKept
    <3>1. voters' \in [Voters -> Voter \cup {None}]  BY <1>t, <2>3, <2>4 DEF AccTypes
    <3>2. \A u \in Voters : u # w => voters'[u] = voters[u]  BY <1>t, <2>3 DEF AccTypes
    <3> QED  BY <2>5, <3>1, <3>2 DEF VotersKept, Accredited
  <2>7. SessionsKept
    <3> DEFINE s == [voter |-> w, expires_at |-> seconds + SESSION_TIMEOUT, is_active |-> TRUE]
    <3>1. seconds + SESSION_TIMEOUT \in Nat  BY LegacyAccreditationAssumptions, <1>t DEF AccTypes
    <3>2. s \in Session /\ s.voter = w  BY <2>0, <3>1 DEF Session
    <3>3. sessions' = [sessions EXCEPT ![r] = s]  BY <1>4, <2>a DEF OpenSession
    <3> HIDE DEF s
    <3>4. /\ sessions' \in [Requests -> Session \cup {None}]
          /\ sessions'[r].voter = w /\ \A t \in Requests : t # r => sessions'[t] = sessions[t]
      BY <1>t, <3>2, <3>3 DEF AccTypes
    <3>5. Accredited(sessions[r].voter)'
      BY <2>5, <3>4 DEF Accredited
    <3> QED  BY <3>4, <3>5 DEF SessionsKept
  <2> QED  BY <1>c, <2>0, <2>6, <2>7, TablesStay
<1>5. ASSUME NEW code \in Codes, IssueOtp(r, code) PROVE AccInv'
  <2>a. PICK w : w = callers[r].voter  OBVIOUS
  <2>0. /\ q.phase = "read" /\ op = "issue" /\ w \in Voters
        /\ UNCHANGED <<seconds, voters, sessions, accepted>>
    BY <1>5, <1>a, <2>a DEF IssueOtp
  <2>1. CASE Fail(r) /\ UNCHANGED otps
    BY <1>b, <2>0, <2>1, TablesStay
  <2> DEFINE row == [voter |-> w, code |-> code, created_at |-> seconds,
                     expires_at |-> seconds + OTP_EXPIRY, is_used |-> FALSE]
  <2>2. CASE otps' = Append(otps, row) /\ Finish(r)
    <3>1. seconds \in Nat /\ seconds + OTP_EXPIRY \in Nat
      BY LegacyAccreditationAssumptions, <1>t DEF AccTypes
    <3>2. row \in Otp  BY <2>0, <3>1 DEF Otp
    <3> HIDE DEF row
    <3>3. RowsKept
      <4>1. otps' \in Seq(Otp) /\ Len(otps') = Len(otps) + 1 /\ Len(otps) \in Nat
        BY <1>t, <2>2, <3>2 DEF AccTypes
      <4>2. \A i \in 1..Len(otps) : otps'[i] = otps[i]
        BY <1>t, <2>2, <3>2 DEF AccTypes
      <4> QED  BY <4>1, <4>2 DEF RowsKept
    <3> QED  BY <1>c, <2>0, <2>2, <3>3, TablesStay
  <2> QED  BY <1>5, <2>a, <2>1, <2>2 DEF IssueOtp
<1>6. CASE ReadOtp(r)
  <2>a. PICK w : w = callers[r].voter  OBVIOUS
  <2>0. /\ q.phase = "read" /\ op = "verify" /\ w \in Voters /\ q \in Caller
        /\ UNCHANGED <<seconds, voters, sessions, accepted>>
    BY <1>6, <1>a, <2>a DEF ReadOtp
  <2>1. CASE Fail(r) /\ UNCHANGED otps
    BY <1>b, <2>0, <2>1, TablesStay
  <2>2. ASSUME NEW i \in Latest(w), Fail(r), otps' = [otps EXCEPT ![i].is_used = TRUE]
        PROVE  AccInv'
    <3>1. i \in 1..Len(otps) /\ otps \in Seq(Otp) /\ Len(otps) \in Nat
      BY <1>t, <2>2 DEF Latest, OtpsOf, AccTypes
    <3>2. RowsKept  BY <2>2, <3>1, UsedKept
    <3> QED  BY <1>b, <2>0, <2>2, <3>2, TablesStay
  <2>3. ASSUME NEW i \in Latest(w), ~otps[i].is_used, UNCHANGED otps,
               callers' = [callers EXCEPT ![r].phase = "write", ![r].row = i,
                             ![r].at = Len(otps), ![r].seen = {a \in accepted : a.row = i}]
        PROVE  AccInv'
    <3>1. i \in 1..Len(otps) /\ Len(otps) \in Nat
      BY <1>t, <2>3 DEF Latest, OtpsOf, AccTypes
    <3>2. {a \in accepted : a.row = i} = {}  BY <2>3 DEF AccInv, CodeInv
    <3>3. LatestOf(i, Len(otps))
      BY <2>3, <3>1 DEF LatestOf, Latest, OtpsOf
    <3> DEFINE p == [[[[q EXCEPT !.phase = "write"] EXCEPT !.row = i] EXCEPT !.at = Len(otps)]
                       EXCEPT !.seen = {}]
    <3>4. /\ p \in Caller /\ p.voter = v /\ p.plan = q.plan /\ p.done = q.done /\ p.phase = "write"
          /\ p.row = i /\ p.at = Len(otps) /\ p # NewCaller
      <4>1. i \in Nat  BY <3>1
      <4>2. p \in Caller  BY <2>0, <3>1, <4>1 DEF Caller
      <4>3. p.voter = v /\ p.plan = q.plan /\ p.done = q.done /\ p.phase = "write"
        BY <2>0 DEF Caller
      <4>4. p.row = i /\ p.at = Len(otps)  BY <2>0 DEF Caller
      <4>5. p # NewCaller
        <5>1. NewCaller.phase = "new"  BY DEF NewCaller
        <5> QED  BY <4>3, <5>1
      <4> QED  BY <4>2, <4>3, <4>4, <4>5
    <3>5. callers' = [callers EXCEPT ![r] = p]  BY <1>t, <2>3, <3>2 DEF AccTypes
    <3> HIDE DEF p
    <3>6. Turn(r) /\ callers'[r] = p  BY <1>t, <2>0, <3>4, <3>5, SetTurn
    <3>7. Own(r)
      <4>1. ~Writes(r, "authenticate")'  BY <2>0, <3>4, <3>6
      <4>2. Did(r, "register")' => Did(r, "register")
        <5>1. q # NewCaller  BY <2>0 DEF NewCaller
        <5> QED  BY <3>4, <3>6, <5>1 DEF Did
      <4>3. Did(r, "register") => voters'[callers'[r].voter] # None
        BY <2>0, <3>4, <3>6 DEF AccInv, RegisterInv
      <4>4. LatestOf(callers[r].row, callers[r].at)'
        BY <2>3, <3>3, <3>4, <3>6 DEF LatestOf
      <4> QED  BY <4>1, <4>2, <4>3, <4>4 DEF Own
    <3> QED  BY <2>0, <2>3, <3>6, <3>7, TablesStay, TurnKeeps
  <2> QED  BY <1>6, <2>a, <2>1, <2>2, <2>3 DEF ReadOtp
<1>7. CASE UseOtp(r)
  <2>a. PICK i, n : i = callers[r].row /\ n = callers[r].at  OBVIOUS
  <2>0. /\ q.phase = "write" /\ op = "verify" /\ q \in Caller /\ Finish(r)
        /\ UNCHANGED <<seconds, voters, sessions>>
    BY <1>7, <1>a DEF UseOtp
  <2>1. LatestOf(i, n)  BY <2>a, <2>0 DEF AccInv, CodeInv
  <2>2. i \in 1..Len(otps) /\ otps \in Seq(Otp) /\ Len(otps) \in Nat
    BY <1>t, <2>1 DEF LatestOf, AccTypes
  <2>3. otps' = [otps EXCEPT ![i].is_used = TRUE]  BY <1>7, <2>a DEF UseOtp, Spent
  <2>4. RowsKept /\ otps'[i].is_used  BY <2>2, <2>3, UsedKept
  <2>5. LatestOf(i, n)'  BY <1>t, <2>1, <2>4, LatestStays
  <2>6. AcceptedKept
    <3>1. q.seen = {}  BY <2>0 DEF Caller
    <3>2. accepted' = accepted \cup {[request |-> r, row |-> i, issued |-> n, before |-> {}]}
      BY <1>7, <2>a, <3>1 DEF UseOtp
    <3>3. ASSUME NEW a \in accepted', a \notin accepted
          PROVE  a.before = {} /\ LatestOf(a.row, a.issued)' /\ otps'[a.row].is_used
      <4>1. a.row = i /\ a.issued = n /\ a.before = {}  BY <3>2, <3>3
      <4> QED  BY <2>4, <2>5, <4>1 DEF LatestOf
    <3> QED  BY <3>3 DEF AcceptedKept
  <2> QED  BY <1>c, <2>0, <2>4, <2>6, TablesStay
<1>8. CASE BreakOff(r)
  BY <1>b, <1>8, TablesStay DEF BreakOff
<1> QED  BY <1>1, <1>2, <1>3, <1>4, <1>5, <1>6, <1>7, <1>8 DEF CallerStep

LEMMA AccInvKept == AccInv /\ [NextAccreditation]_accreditationVars => AccInv'
<1> SUFFICES ASSUME AccInv, [NextAccreditation]_accreditationVars PROVE AccInv'  OBVIOUS
<1>t. AccTypes  BY DEF AccInv
<1> USE DEF TablesKept
<1>1. CASE SecondPasses
  <2>1. seconds' \in 0..MaxTime
    BY LegacyAccreditationAssumptions, <1>1, <1>t DEF SecondPasses, AccTypes
  <2> QED  BY <1>1, <2>1, TablesStay, NobodyMoves DEF SecondPasses
<1>2. ASSUME NEW v \in Voters, MarkVoted(v) PROVE AccInv'
  <2>1. /\ voters[v] \in Voter
        /\ voters' = [voters EXCEPT ![v] = [voters[v] EXCEPT !.has_voted = TRUE]]
    BY <1>2, <1>t DEF MarkVoted, AccTypes
  <2>2. /\ [voters[v] EXCEPT !.has_voted = TRUE] \in Voter
        /\ [voters[v] EXCEPT !.has_voted = TRUE].status = voters[v].status
    BY <2>1 DEF Voter
  <2>3. VotersKept
    <3>1. voters' \in [Voters -> Voter \cup {None}]  BY <1>t, <2>1, <2>2 DEF AccTypes
    <3>2. \A u \in Voters : u # v => voters'[u] = voters[u]  BY <1>t, <2>1 DEF AccTypes
    <3>3. voters'[v] # None /\ voters'[v].status = voters[v].status
      BY LegacyAccreditationAssumptions, <1>t, <2>1, <2>2 DEF AccTypes
    <3> QED  BY <3>1, <3>2, <3>3 DEF VotersKept, Accredited
  <2> QED  BY <1>2, <2>3, TablesStay, NobodyMoves DEF MarkVoted
<1>3. ASSUME NEW r \in Requests, NEW v \in Voters, NEW code \in Codes, NEW plan \in Plans,
             Call(r, v, code, plan)
      PROVE  AccInv'
  <2> DEFINE p == [phase |-> "read", voter |-> v, code |-> code, plan |-> plan,
                   done |-> {}, seen |-> {}, row |-> 0, at |-> 0]
  <2>1. plan \in Seq(Operations) /\ plan # << >>
    <3>1. \A a \in Operations : <<a>> \in Seq(Operations) /\ <<a>> # << >>  OBVIOUS
    <3>2. \A a, b \in Operations : <<a, b>> \in Seq(Operations) /\ <<a, b>> # << >>  OBVIOUS
    <3>3. \A a, b, c, d \in Operations :
            <<a, b, c, d>> \in Seq(Operations) /\ <<a, b, c, d>> # << >>
      OBVIOUS
    <3>4. /\ "register" \in Operations /\ "authenticate" \in Operations
          /\ "issue" \in Operations /\ "verify" \in Operations
      BY DEF Operations
    <3> HIDE DEF Operations
    <3> QED  BY <3>1, <3>2, <3>3, <3>4 DEF Plans
  <2>2. p \in Caller /\ p.phase = "read" /\ p.done = {} /\ p.plan = plan  BY <2>1 DEF Caller
  <2>3. callers' = [callers EXCEPT ![r] = p]  BY <1>3 DEF Call
  <2> HIDE DEF p
  <2>4. callers'[r] = p /\ \A s \in Requests : s # r => callers'[s] = callers[s]
    BY <1>t, <2>3 DEF AccTypes
  <2>5. callers' \in [Requests -> Caller \cup {NewCaller}]  BY <1>t, <2>2, <2>3 DEF AccTypes
  <2>6. ~Came(r)  BY <1>3 DEF Call, Came
  <2>7. Own(r)  BY <2>2, <2>4 DEF Own, Did, Writes
  <2>8. TablesKept  BY <1>3, TablesStay DEF Call
  <2>9. PICK S \in SUBSET Requests : S = {r}  OBVIOUS
  <2>10. \A s \in Requests \ S : callers'[s] = callers[s]  BY <2>4, <2>9
  <2> HIDE DEF TablesKept
  <2> QED  BY <2>1, <2>2, <2>4, <2>5, <2>6, <2>7, <2>8, <2>9, <2>10, OneMoves
<1>4. ASSUME NEW r \in Requests, EndSession(r) PROVE AccInv'
  <2>1. /\ sessions[r] \in Session
        /\ sessions' = [sessions EXCEPT ![r] = [sessions[r] EXCEPT !.is_active = FALSE]]
    BY <1>4, <1>t DEF EndSession, AccTypes
  <2>2. /\ [sessions[r] EXCEPT !.is_active = FALSE] \in Session
        /\ [sessions[r] EXCEPT !.is_active = FALSE].voter = sessions[r].voter
    BY <2>1 DEF Session
  <2>3. SessionsKept
    <3>1. sessions' \in [Requests -> Session \cup {None}]  BY <1>t, <2>1, <2>2 DEF AccTypes
    <3>2. \A s \in Requests : s # r => sessions'[s] = sessions[s]  BY <1>t, <2>1 DEF AccTypes
    <3>3. sessions[r] # None /\ sessions'[r].voter = sessions[r].voter
      BY LegacyAccreditationAssumptions, <1>t, <2>1, <2>2 DEF AccTypes
    <3> QED  BY <3>1, <3>2, <3>3 DEF SessionsKept
  <2> QED  BY <1>4, <2>3, TablesStay, NobodyMoves DEF EndSession
<1>5. CASE UNCHANGED accreditationVars
  BY <1>5, TablesStay, NobodyMoves DEF accreditationVars
<1> QED  BY <1>1, <1>2, <1>3, <1>4, <1>5, StepKeepsAccInv DEF NextAccreditation

LEMMA AccInvHolds == SpecAccreditation => []AccInv
<1>1. InitAccreditation => AccInv
  <2> SUFFICES ASSUME InitAccreditation PROVE AccInv  OBVIOUS
  <2>1. \A r \in Requests : callers[r] = NewCaller /\ callers[r].phase = "new"
    BY DEF InitAccreditation, NewCaller
  <2>2. AccTypes  BY LegacyAccreditationAssumptions, <2>1 DEF InitAccreditation, AccTypes
  <2>3. RegisterInv  BY <2>1 DEF RegisterInv, Did, Writes
  <2>4. SessionInv  BY DEF InitAccreditation, SessionInv
  <2>5. CodeInv  BY <2>1 DEF InitAccreditation, CodeInv, Writes
  <2> QED  BY <2>2, <2>3, <2>4, <2>5 DEF AccInv
<1> QED  BY <1>1, AccInvKept, PTL DEF SpecAccreditation

(* A voter of the prototype is registered once and accredited once but for *)
(* requests neither of which could see the other's session, for any number *)
(* of voters and requests, however they interleave, fail or die.           *)
THEOREM AlwaysOneAccreditation == SpecAccreditation => []OneAccreditation
<1>1. AccInv => OneAccreditation
  <2> SUFFICES ASSUME AccInv, NEW r \in Requests, NEW s \in Requests, r # s,
                      Came(r), Came(s), callers[r].voter = callers[s].voter
               PROVE  /\ ~(Did(r, "register") /\ Did(s, "register"))
                      /\ Did(r, "authenticate") /\ Did(s, "authenticate") =>
                           s \notin callers[r].seen
    BY DEF OneAccreditation, Came
  <2>1. callers[r].seen = {}  BY CallerTypes DEF AccInv, Caller
  <2> QED  BY <2>1 DEF AccInv, RegisterInv
<1> QED  BY <1>1, AccInvHolds, PTL

(* A code the prototype accepts was of the last second a code was issued   *)
(* in, as far as the request could see, and not accepted before it read.   *)
THEOREM AcceptedCodesAlwaysLatest == SpecAccreditation => []AcceptedCodesAreLatest
<1>1. AccInv => AcceptedCodesAreLatest
  BY DEF AccInv, CodeInv, LatestOf, AcceptedCodesAreLatest
<1> QED  BY <1>1, AccInvHolds, PTL
=============================================================================
