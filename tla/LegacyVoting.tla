---------------------------- MODULE LegacyVoting ----------------------------
(***************************************************************************)
(* Casting a ballot in the earlier prototype (legacy/): the ballot ledger  *)
(* (ballot_security.py), the tallies (voting_engine.py) and the workflow   *)
(* around them (election_workflow.py).                                     *)
(*                                                                         *)
(* Nothing here is one transaction.  Every read and every commit is a step *)
(* of its own, on a connection of its own, and requests interleave at each *)
(* of them; any commit can fail with "database is locked", and a worker    *)
(* can die anywhere.  A request comes in by the API, which calls           *)
(* cast_vote, or through the workflow, which adds an idempotency key, a    *)
(* submission lock and the voter's state before it, and moves the state    *)
(* on after it.                                                            *)
(*                                                                         *)
(* Issuing a ballot and the walk up to BALLOT_ISSUED are calls no module   *)
(* of legacy/ makes in order, and may come at any time.  Assumed: voters   *)
(* are registered, and a client uses one idempotency key for one ballot,   *)
(* so that a key is named by its ballot.                                   *)
(***************************************************************************)
EXTENDS Prototype, Integers, Sequences, FiniteSets, FiniteSetsExt

CONSTANTS
  Ballots, Units, Parties,
  LOCK_TTL, IDEM_TTL        \* ticks: 30 seconds, 5 minutes

(* NULL is no row and no state; units and parties can be summed over. *)
ASSUME LegacyVotingAssumptions ==
  /\ IsFiniteSet(Units) /\ IsFiniteSet(Parties)
  /\ LOCK_TTL \in Nat /\ IDEM_TTL \in Nat /\ MaxTime \in Nat
  /\ None \notin [voter : Voters, is_used : BOOLEAN]
  /\ None \notin [voted_count : Nat]
  /\ None \notin {"EARLIER", "BALLOT_ISSUED", "VOTE_CAST", "VOTE_VERIFIED"}

VARIABLES
  now,
  session,          \* does validate_session still accept the token in use?
  issued,           \* ballot_issue_log: voter and is_used of a ballot
  ledger,           \* ballot_ledger, in order of id
  receipts,         \* ballot_receipts: the ballots with one
  polling_units,    \* polling_units: voted_count of a registered unit
  tally,            \* polling_unit_tally
  state_tally,      \* state_tally of the one state, per party
  has_voted,        \* inec_voters: the voters marked
  voter_state,      \* voter_workflow_state
  locks,            \* vote_submission_lock
  idempotency,      \* request_idempotency: the row of each ballot's key
  requests,         \* each request: its arguments, where it is, its reply
  dead,             \* the requests whose worker died where they are
  untallied         \* history: ballots whose tally transaction failed

vars == <<now, session, issued, ledger, receipts, polling_units, tally, state_tally,
          has_voted, voter_state, locks, idempotency, requests, dead, untallied>>
box == <<issued, ledger, receipts>>
tallies == <<polling_units, tally, state_tally, has_voted, untallied>>
workflow == <<voter_state, locks, idempotency>>
env == <<now, session, dead>>

(* The states a vote can be cast in, and the one before them all. *)
VoterStates == {"EARLIER", "BALLOT_ISSUED", "VOTE_CAST", "VOTE_VERIFIED"}
NextState == [EARLIER |-> "BALLOT_ISSUED", BALLOT_ISSUED |-> "VOTE_CAST",
              VOTE_CAST |-> "VOTE_VERIFIED", VOTE_VERIFIED |-> "none"]

GENESIS == 0   \* "0" * 64; a block's hash is named by its id

NewRequest == [pc |-> "new"]

Init ==
  /\ now = 0 /\ session = TRUE
  /\ issued = [b \in Ballots |-> None]
  /\ ledger = << >> /\ receipts = {}
  /\ polling_units = [u \in Units |-> None]
  /\ tally = [c \in Units \X Parties |-> 0]
  /\ state_tally = [p \in Parties |-> 0]
  /\ has_voted = {}
  /\ voter_state = [v \in Voters |-> None]
  /\ locks = {}
  /\ idempotency = [b \in Ballots |-> None]
  /\ requests = [r \in Requests |-> NewRequest]
  /\ dead = {} /\ untallied = {}

-----------------------------------------------------------------------------
(* Around the requests. *)

Tick ==
  /\ now < MaxTime
  /\ now' = now + 1
  /\ UNCHANGED <<session, dead, box, tallies, workflow, requests>>

(* The session expires or is logged out. *)
SessionEnds ==
  /\ session
  /\ session' = FALSE
  /\ UNCHANGED <<now, dead, box, tallies, workflow, requests>>

(* issue_ballot: nothing limits the ballots of a voter. *)
IssueBallot(v, b) ==
  /\ issued[b] = None
  /\ issued' = [issued EXCEPT ![b] = [voter |-> v, is_used |-> FALSE]]
  /\ UNCHANGED <<ledger, receipts, tallies, workflow, requests, env>>

RegisterPollingUnit(u) ==
  /\ polling_units[u] = None
  /\ polling_units' = [polling_units EXCEPT ![u] = [voted_count |-> 0]]
  /\ UNCHANGED <<tally, state_tally, has_voted, untallied, box, workflow, requests, env>>

(* _transition_voter_state, called from outside a cast: to the first state, *)
(* which needs no row, or to the next one.                                  *)
Walk(v) ==
  /\ voter_state[v] # "VOTE_VERIFIED"
  /\ voter_state' = [voter_state EXCEPT
       ![v] = IF @ = None THEN "EARLIER" ELSE NextState[@]]
  /\ UNCHANGED <<locks, idempotency, box, tallies, requests, env>>

-----------------------------------------------------------------------------
(* A request. *)

At(r, pc) == r \notin dead /\ requests[r].pc = pc
Goto(r, pc) == requests' = [requests EXCEPT ![r].pc = pc]
Answer(r, pc, reply) ==
  requests' = [requests EXCEPT ![r].pc = pc, ![r].reply = reply]

(* Inside the try, every way out passes the finally that deletes the lock. *)
Leave(r) == IF requests[r].secure THEN "unlock" ELSE "done"

(* The engine's result is logged by the workflow and, if the caller gave a  *)
(* key, goes to _record_idempotency.                                        *)
Result(r) == IF requests[r].secure THEN "log" ELSE "done"
Record(r) == IF requests[r].keyed THEN "record" ELSE Leave(r)

Arrive(r, secure, keyed, v, b, u, p) ==
  /\ At(r, "new")
  /\ keyed => secure
  /\ requests' = [requests EXCEPT ![r] =
       [pc |-> IF keyed THEN "idempotency" ELSE IF secure THEN "session" ELSE "engine",
        secure |-> secure, keyed |-> keyed, voter |-> v, ballot |-> b,
        unit |-> u, party |-> p, head |-> GENESIS, reply |-> "none"]]
  /\ UNCHANGED <<box, tallies, workflow, env>>

(* _check_idempotency: a hit is answered from the row. *)
CheckIdempotency(r) ==
  LET row == idempotency[requests[r].ballot]
      hit == row # None /\ row.voter = requests[r].voter
  IN /\ At(r, "idempotency")
     /\ \/ hit /\ now <= row.expires_at /\ Answer(r, "done", row.reply)
        \/ hit /\ now > row.expires_at /\ Goto(r, "forget")
        \/ ~hit /\ Goto(r, "session")
     /\ UNCHANGED <<box, tallies, workflow, env>>

(* DELETE of the expired row, or of the one that has replaced it by now. *)
ForgetReply(r) ==
  /\ At(r, "forget")
  /\ idempotency' = [idempotency EXCEPT ![requests[r].ballot] = None]
  /\ Goto(r, "session")
  /\ UNCHANGED <<voter_state, locks, box, tallies, env>>

CheckSession(r) ==
  /\ At(r, "session")
  /\ IF session THEN Goto(r, "lock") ELSE Answer(r, "done", "failed")
  /\ UNCHANGED <<box, tallies, workflow, env>>

Held(l, r) == l.voter = requests[r].voter /\ l.ballot = requests[r].ballot

ReadLock(r) ==
  /\ At(r, "lock")
  /\ IF \E l \in locks : Held(l, r) /\ now < l.expires_at
       THEN Answer(r, "done", "in_progress") ELSE Goto(r, "take")
  /\ UNCHANGED <<box, tallies, workflow, env>>

(* INSERT OR REPLACE: voter and ballot are each unique, so the rows of the *)
(* same voter and of the same ballot go.                                   *)
TakeLock(r) ==
  LET row == [voter |-> requests[r].voter, ballot |-> requests[r].ballot,
              expires_at |-> now + LOCK_TTL]
  IN /\ At(r, "take")
     /\ locks' = {l \in locks : l.voter # row.voter /\ l.ballot # row.ballot} \cup {row}
     /\ Goto(r, "state")
     /\ UNCHANGED <<voter_state, idempotency, box, tallies, env>>

CheckState(r) ==
  /\ At(r, "state")
  /\ IF voter_state[requests[r].voter] = "BALLOT_ISSUED"
       THEN Goto(r, "engine") ELSE Answer(r, Leave(r), "failed")
  /\ UNCHANGED <<box, tallies, workflow, env>>

(* voting_engine.cast_vote checks the session once more. *)
EngineSession(r) ==
  /\ At(r, "engine")
  /\ IF session THEN Goto(r, "ballot") ELSE Answer(r, Result(r), "failed")
  /\ UNCHANGED <<box, tallies, workflow, env>>

HeadHash == Len(ledger)   \* the newest block's hash, or GENESIS

Unused(r) ==
  LET row == issued[requests[r].ballot]
  IN row # None /\ row.voter = requests[r].voter /\ ~row.is_used

(* cast_ballot reads the issue log and the head before its transaction. *)
ReadBallot(r) ==
  /\ At(r, "ballot")
  /\ IF Unused(r)
       THEN requests' = [requests EXCEPT ![r].pc = "commit", ![r].head = HeadHash]
       ELSE Answer(r, Result(r), "failed")
  /\ UNCHANGED <<box, tallies, workflow, env>>

(* Mutant: neither nonce nor ballot id is declared UNIQUE. *)
Anything(b) == TRUE

(* UNIQUE: ballot_nonce in the ledger, ballot_id and nonce of the receipt. *)
IsUnique(b) == (\A i \in DOMAIN ledger : ledger[i].ballot # b) /\ b \notin receipts

(* Ledger, issue log and receipt in one commit; an IntegrityError rolls     *)
(* back and is raised.                                                      *)
CommitBallot(r) ==
  LET q == requests[r]
  IN /\ At(r, "commit")
     /\ IF IsUnique(q.ballot)
          THEN /\ ledger' = Append(ledger, [ballot |-> q.ballot, voter |-> q.voter,
                    unit |-> q.unit, party |-> q.party, previous |-> q.head])
               /\ issued' = [issued EXCEPT ![q.ballot].is_used = TRUE]
               /\ receipts' = receipts \cup {q.ballot}
               /\ Goto(r, "tally")
          ELSE Answer(r, Leave(r), "error") /\ UNCHANGED box
     /\ UNCHANGED <<tallies, workflow, env>>

(* Mutant: ON CONFLICT DO NOTHING. *)
FirstOnly(c) == 1

Incremented(c) == tally[c] + 1

(* The engine's second transaction: unit and state tally, has_voted,        *)
(* voted_count.                                                             *)
UpdateTally(r) ==
  LET q == requests[r]
      known == polling_units[q.unit] # None
  IN /\ At(r, "tally")
     /\ tally' = [tally EXCEPT ![<<q.unit, q.party>>] = Incremented(<<q.unit, q.party>>)]
     /\ state_tally' = IF known THEN [state_tally EXCEPT ![q.party] = @ + 1] ELSE state_tally
     /\ polling_units' = IF known THEN [polling_units EXCEPT ![q.unit].voted_count = @ + 1]
                         ELSE polling_units
     /\ has_voted' = has_voted \cup {q.voter}
     /\ Answer(r, IF q.secure THEN "transition" ELSE "done", "success")
     /\ UNCHANGED <<untallied, box, workflow, env>>

(* _transition_voter_state reads, then writes; its answer is not looked at. *)
ReadState(r) ==
  /\ At(r, "transition")
  /\ Goto(r, IF voter_state[requests[r].voter] \in {None, "BALLOT_ISSUED"}
             THEN "move" ELSE "log")
  /\ UNCHANGED <<box, tallies, workflow, env>>

(* Mutant: the state is not written. *)
StaysPut(v) == voter_state[v]

Target(v) == "VOTE_CAST"

MoveState(r) ==
  /\ At(r, "move")
  /\ voter_state' = [voter_state EXCEPT ![requests[r].voter] = Target(requests[r].voter)]
  /\ Goto(r, "log")
  /\ UNCHANGED <<locks, idempotency, box, tallies, env>>

(* ballot_state_log and the security event: rows that nothing reads. *)
LogResult(r) ==
  /\ At(r, "log")
  /\ Goto(r, Record(r))
  /\ UNCHANGED <<box, tallies, workflow, env>>

(* _record_idempotency: a plain INSERT, which raises if the key is there. *)
RecordReply(r) ==
  LET q == requests[r]
  IN /\ At(r, "record")
     /\ IF idempotency[q.ballot] = None
          THEN /\ idempotency' = [idempotency EXCEPT ![q.ballot] =
                    [voter |-> q.voter, reply |-> q.reply, expires_at |-> now + IDEM_TTL]]
               /\ Goto(r, Leave(r))
          ELSE Answer(r, Leave(r), "error") /\ UNCHANGED idempotency
     /\ UNCHANGED <<voter_state, locks, box, tallies, env>>

(* finally: DELETE ... WHERE voter_hash AND ballot_id, whoever took it. *)
Unlock(r) ==
  /\ At(r, "unlock")
  /\ locks' = {l \in locks : ~Held(l, r)}
  /\ Goto(r, "done")
  /\ UNCHANGED <<voter_state, idempotency, box, tallies, env>>

(* Mutant: a failed tally is caught, and the ballot's own success returned. *)
Swallowed(r) == IF requests[r].pc = "tally" THEN "success" ELSE "error"

(* An exception ends the request with an error. *)
Raised(r) == "error"

(* "database is locked" after the busy timeout: a commit that raises.       *)
(* Inside the try the finally follows; the expired key's DELETE and the     *)
(* lock's INSERT come before the try, the lock's DELETE after it.           *)
Busy(r) ==
  /\ r \notin dead
  /\ \/ /\ requests[r].pc \in {"commit", "tally", "move", "log", "record"}
        /\ Answer(r, Leave(r), Raised(r))
     \/ requests[r].pc \in {"forget", "take"} /\ Answer(r, "done", Raised(r))
     \/ requests[r].pc = "unlock" /\ Answer(r, "left locked", Raised(r))
  /\ untallied' = IF requests[r].pc = "tally" THEN untallied \cup {requests[r].ballot}
                  ELSE untallied
  /\ UNCHANGED <<polling_units, tally, state_tally, has_voted, box, workflow, env>>

Die(r) ==
  /\ r \notin dead /\ requests[r].pc \notin {"new", "done", "left locked"}
  /\ dead' = dead \cup {r}
  /\ UNCHANGED <<now, session, box, tallies, workflow, requests>>

Step(r) ==
  \/ CheckIdempotency(r) \/ ForgetReply(r) \/ CheckSession(r) \/ ReadLock(r) \/ TakeLock(r)
  \/ CheckState(r) \/ EngineSession(r) \/ ReadBallot(r) \/ CommitBallot(r)
  \/ UpdateTally(r) \/ ReadState(r) \/ MoveState(r) \/ LogResult(r)
  \/ RecordReply(r) \/ Unlock(r)
  \/ Busy(r)

Next ==
  \/ Tick \/ SessionEnds
  \/ \E v \in Voters, b \in Ballots : IssueBallot(v, b)
  \/ \E u \in Units : RegisterPollingUnit(u)
  \/ \E v \in Voters : Walk(v)
  \/ \E r \in Requests, secure, keyed \in BOOLEAN, v \in Voters, b \in Ballots,
        u \in Units, p \in Parties : Arrive(r, secure, keyed, v, b, u, p)
  \/ \E r \in Requests : Step(r) \/ Die(r)

Spec == Init /\ [][Next]_vars

-----------------------------------------------------------------------------
(* Properties. *)

Started == {r \in Requests : requests[r].pc # "new"}

(* Every variable keeps its type. *)
TypeOK ==
  /\ now \in 0..MaxTime /\ session \in BOOLEAN
  /\ issued \in [Ballots -> [voter : Voters, is_used : BOOLEAN] \cup {None}]
  /\ \A i \in DOMAIN ledger : ledger[i] \in
       [ballot : Ballots, voter : Voters, unit : Units, party : Parties, previous : Nat]
  /\ polling_units \in [Units -> [voted_count : Nat] \cup {None}]
  /\ tally \in [Units \X Parties -> Nat] /\ state_tally \in [Parties -> Nat]
  /\ voter_state \in [Voters -> VoterStates \cup {None}]
  /\ receipts \cup untallied \subseteq Ballots /\ has_voted \subseteq Voters
  /\ \A l \in locks : l \in [voter : Voters, ballot : Ballots, expires_at : Nat]

Counted(b) == {i \in DOMAIN ledger : ledger[i].ballot = b}

(* A ballot is counted at most once, for the voter it was issued to, and    *)
(* exactly when its issue is marked used and its receipt is there, although *)
(* any number of requests may have read it as unused.                       *)
BallotsCountOnce ==
  \A b \in Ballots :
    LET used == issued[b] # None /\ issued[b].is_used
    IN /\ Cardinality(Counted(b)) = IF used THEN 1 ELSE 0
       /\ used = (b \in receipts)
       /\ \A i \in Counted(b) : ledger[i].voter = issued[b].voter

(* The ledger's entries of a unit and party that have not reached the       *)
(* tally: their request has yet to add them, died before, or failed to.     *)
Missing(u, p) ==
  {i \in DOMAIN ledger :
     /\ ledger[i].unit = u /\ ledger[i].party = p
     /\ \/ ledger[i].ballot \in untallied
        \/ \E r \in Started : requests[r].pc = "tally" /\ requests[r].ballot = ledger[i].ballot}

InLedger(u, p) == {i \in DOMAIN ledger : ledger[i].unit = u /\ ledger[i].party = p}

UnitTalliesLag ==
  \A u \in Units, p \in Parties :
    tally[<<u, p>>] = Cardinality(InLedger(u, p)) - Cardinality(Missing(u, p))

MarkedHaveBallots == \A v \in has_voted : \E i \in DOMAIN ledger : ledger[i].voter = v

(* Ballots a unit has counted: none before it is registered. *)
VotedCount ==
  [u \in Units |-> IF polling_units[u] = None THEN 0 ELSE polling_units[u].voted_count]

Total(f, S) == MapThenSumSet(LAMBDA x : f[x], S)

StateTallyFollows == Total(state_tally, Parties) = Total(VotedCount, Units)

(* The tallies, kept in a transaction of their own, lag behind the ledger   *)
(* by exactly the ballots whose second transaction is outstanding or was    *)
(* lost, never run ahead of it; the state has what the registered units     *)
(* have counted; a voter is marked only with a ballot in the ledger.        *)
TalliesFollowTheLedger ==
  /\ UnitTalliesLag
  /\ StateTallyFollows
  /\ MarkedHaveBallots

(* A voter who is told that her ballot counted, by the request itself or    *)
(* from the idempotency table, has it in the ledger, in the tally and in    *)
(* her receipt, whatever failed, was retried or died in between.            *)
SuccessIsCounted ==
  \A r \in Started : requests[r].reply = "success" =>
    /\ Counted(requests[r].ballot) # {} /\ requests[r].ballot \in receipts
    /\ requests[r].voter \in has_voted
    /\ requests[r].ballot \notin untallied

(* While a voter's state still lets her cast, each of her ballots in the    *)
(* ledger belongs to a request that came in by the API alone, that has yet  *)
(* to move the state, or that failed or died before it could: the workflow  *)
(* counts two ballots of a voter only by requests that overlap, or after    *)
(* one that broke off.                                                      *)
CountedVotersMoveOn ==
  \A i \in DOMAIN ledger : voter_state[ledger[i].voter] = "BALLOT_ISSUED" =>
    \E r \in Started :
      /\ requests[r].ballot = ledger[i].ballot /\ requests[r].voter = ledger[i].voter
      /\ \/ ~requests[r].secure
         \/ requests[r].pc \in {"tally", "transition", "move"}
         \/ requests[r].reply = "error"
=============================================================================
