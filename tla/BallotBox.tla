------------------------------ MODULE BallotBox ------------------------------
(***************************************************************************)
(* The ballot box of the voter API, one action per committed transaction:  *)
(* the register of voters, the election states, the votes_cast table, the  *)
(* hash-chained vote ledger and its signed head checkpoints (main.py,      *)
(* admin.py, ledger.py, results_core.py).  A transaction that raises rolls *)
(* back (db.tx), so a refused request is a stuttering step here; the       *)
(* statements inside a transaction are in module Transactions.             *)
(*                                                                         *)
(* SHA-256 is modelled by what the chain needs of it: a digest determines  *)
(* what was hashed.  A digest is the sequence of ballots it commits to,    *)
(* and GENESIS is the empty one.                                           *)
(***************************************************************************)
EXTENDS Integers, Sequences, FiniteSets

CONSTANTS
  Voters, Elections, Parties, PollingUnits,
  Unregistered,     \* the polling unit of a voter who is not on the register
  MaxCheckpoints    \* bound: how many ledger checkpoints are signed

ASSUME BallotBoxAssumptions ==
  /\ IsFiniteSet(Voters)
  /\ Unregistered \notin PollingUnits
  /\ MaxCheckpoints \in Nat

VARIABLES
  register,            \* voters: the polling unit of each, or Unregistered
  status,              \* elections.status
  votes_cast,          \* votes_cast: who has voted in what
  ledger,              \* ledger rows, by block_index
  ledger_checkpoints,  \* signed checkpoints, by id
  receipts             \* what cast_ballot has returned to voters

vars == <<register, status, votes_cast, ledger, ledger_checkpoints, receipts>>

-----------------------------------------------------------------------------
(* Hashes, blocks and the chain. *)

Ballot == Elections \X Parties \X PollingUnits
Hash == Seq(Ballot)

GENESIS == << >>

(* Mutant: the previous hash is left out of the digest. *)
UnchainedHash(prev, e, p, u) == Append(GENESIS, <<e, p, u>>)

compute_hash(prev, e, p, u) == Append(prev, <<e, p, u>>)

Block == [previous_hash : Hash, election_type : Elections, party_code : Parties,
          polling_unit_code : PollingUnits, block_hash : Hash]
Checkpoint == [height : Nat, head_hash : Hash]
Receipt == [block_index : Nat, block_hash : Hash, election_type : Elections]
Status == {"PENDING", "OPEN", "CLOSED"}

(* Mutant: the head is read without ORDER BY ... DESC. *)
FirstHash(rows) == IF rows = << >> THEN GENESIS ELSE rows[1].block_hash

(* The hash the next block must name as its predecessor. *)
HeadHash(rows) == IF rows = << >> THEN GENESIS ELSE rows[Len(rows)].block_hash

NewBlock(prev, e, p, u) ==
  [previous_hash |-> prev, election_type |-> e, party_code |-> p,
   polling_unit_code |-> u, block_hash |-> compute_hash(prev, e, p, u)]

SignedHead(rows) == [height |-> Len(rows), head_hash |-> HeadHash(rows)]

(* The loop of verify_chain: every row names its predecessor's hash, and its *)
(* own hash is that of its contents.                                         *)
Linked(rows) ==
  \A i \in 1..Len(rows) :
    /\ rows[i].previous_hash = IF i = 1 THEN GENESIS ELSE rows[i - 1].block_hash
    /\ rows[i].block_hash = compute_hash(rows[i].previous_hash, rows[i].election_type,
                                         rows[i].party_code, rows[i].polling_unit_code)

(* The second half of verify_chain: the rows still reach a signed checkpoint. *)
Reaches(rows, cp) ==
  /\ Len(rows) >= cp.height
  /\ cp.head_hash = IF cp.height = 0 THEN GENESIS ELSE rows[cp.height].block_hash

(* verify_ledger_chain: linkage, and the latest checkpoint when there is one. *)
verify_chain(rows, cps) ==
  Linked(rows) /\ (cps # << >> => Reaches(rows, cps[Len(cps)]))

-----------------------------------------------------------------------------
Init ==
  /\ register \in [Voters -> PollingUnits \cup {Unregistered}]
  /\ status = [e \in Elections |-> "PENDING"]
  /\ votes_cast = {}
  /\ ledger = << >>
  /\ ledger_checkpoints = << >>
  /\ receipts = {}

(* admin.register_voter: the row's UNIQUE voter_hash makes it one per voter. *)
RegisterVoter(v, u) ==
  /\ register[v] = Unregistered
  /\ register' = [register EXCEPT ![v] = u]
  /\ UNCHANGED <<status, votes_cast, ledger, ledger_checkpoints, receipts>>

(* Mutant: UPDATE without AND status = frm. *)
UnguardedTransition(e, frm, to) ==
  /\ status' = [status EXCEPT ![e] = to]
  /\ UNCHANGED <<register, votes_cast, ledger, ledger_checkpoints, receipts>>

(* admin.set_election_state: UPDATE ... WHERE status = frm, one row or 409. *)
Transition(e, frm, to) ==
  /\ status[e] = frm
  /\ status' = [status EXCEPT ![e] = to]
  /\ UNCHANGED <<register, votes_cast, ledger, ledger_checkpoints, receipts>>

OpenElection(e) == Transition(e, "PENDING", "OPEN")
CloseElection(e) == Transition(e, "OPEN", "CLOSED")

(* Mutants: a second vote is not refused; a late vote is not refused. *)
MayVoteAgain(v, e) == status[e] = "OPEN"
MayVoteLate(v, e) == status[e] # "PENDING" /\ <<v, e>> \notin votes_cast

MayVote(v, e) == status[e] = "OPEN" /\ <<v, e>> \notin votes_cast

(* The part of main.cast_ballot after the session check: mark the voter,    *)
(* chain a block that carries the register's polling unit and no identity,  *)
(* and return its index and hash as the receipt.                            *)
RecordBallot(v, e, p) ==
  LET block == NewBlock(HeadHash(ledger), e, p, register[v])
  IN /\ register[v] # Unregistered
     /\ MayVote(v, e)
     /\ votes_cast' = votes_cast \cup {<<v, e>>}
     /\ ledger' = Append(ledger, block)
     /\ receipts' = receipts \cup {[block_index |-> Len(ledger) + 1,
                                    block_hash |-> block.block_hash,
                                    election_type |-> e]}
     /\ UNCHANGED <<register, status, ledger_checkpoints>>

(* results_core.create_ledger_checkpoint, called by admin.ledger_checkpoint. *)
SignCheckpoint ==
  /\ Len(ledger_checkpoints) < MaxCheckpoints
  /\ ledger_checkpoints' = Append(ledger_checkpoints, SignedHead(ledger))
  /\ UNCHANGED <<register, status, votes_cast, ledger, receipts>>

Next ==
  \/ \E v \in Voters, u \in PollingUnits : RegisterVoter(v, u)
  \/ \E e \in Elections : OpenElection(e) \/ CloseElection(e)
  \/ \E v \in Voters, e \in Elections, p \in Parties : RecordBallot(v, e, p)
  \/ SignCheckpoint

Spec == Init /\ [][Next]_vars

(* verify_receipt: the blocks of SELECT * FROM ledger WHERE block_hash=? *)
verify_receipt(hash) == {i \in 1..Len(ledger) : ledger[i].block_hash = hash}

-----------------------------------------------------------------------------
(* Properties. *)

(* Every variable keeps its type, whatever transactions commit. *)
TypeOK ==
  /\ register \in [Voters -> PollingUnits \cup {Unregistered}]
  /\ status \in [Elections -> Status]
  /\ votes_cast \in SUBSET (Voters \X Elections)
  /\ ledger \in Seq(Block)
  /\ ledger_checkpoints \in Seq(Checkpoint)
  /\ receipts \in SUBSET Receipt

BlocksOf(e, u) ==
  {i \in 1..Len(ledger) : ledger[i].election_type = e /\ ledger[i].polling_unit_code = u}
VotersOf(e, u) == {v \in Voters : register[v] = u /\ <<v, e>> \in votes_cast}

(* The two tables that record a ballot, one naming the voter and one the   *)
(* party, agree: at every polling unit and in every election, the ledger   *)
(* has as many blocks as the register has voters marked as having voted.   *)
LedgerMatchesVotes ==
  \A e \in Elections, u \in PollingUnits :
    Cardinality(BlocksOf(e, u)) = Cardinality(VotersOf(e, u))

(* The ledger is a chain, and it still reaches every head the authority    *)
(* ever signed, the old ones included: what verify_chain reports of any    *)
(* checkpoint an auditor kept is "valid".                                  *)
CheckpointsHold ==
  /\ Linked(ledger)
  /\ \A k \in 1..Len(ledger_checkpoints) : Reaches(ledger, ledger_checkpoints[k])

(* A receipt stays verifiable: verify_receipt, which looks a block up by   *)
(* its hash alone (the column is not UNIQUE), finds the block the voter    *)
(* was given and no other.                                                 *)
ReceiptsHold ==
  \A r \in receipts :
    /\ verify_receipt(r.block_hash) = {r.block_index}
    /\ ledger[r.block_index].election_type = r.election_type

TallyOf(rows, e, u, p) ==
  Cardinality({i \in 1..Len(rows) : /\ rows[i].election_type = e
                                    /\ rows[i].polling_unit_code = u
                                    /\ rows[i].party_code = p})

(* Once admin.tally may release an election (its status is CLOSED) the     *)
(* figures it releases, and the status itself, never change again.         *)
ClosedTallyFrozen ==
  [][\A e \in Elections : status[e] = "CLOSED" =>
       /\ status'[e] = "CLOSED"
       /\ \A u \in PollingUnits, p \in Parties :
            TallyOf(ledger', e, u, p) = TallyOf(ledger, e, u, p)]_vars

(* The abstract count is the one the public can recompute from the ledger. *)
Promise ==
  INSTANCE OneVote
  WITH voted <- votes_cast,
       count <- [c \in Elections \X PollingUnits \X Parties |->
                   TallyOf(ledger, c[1], c[2], c[3])]

(* The ballot box keeps the promise of OneVote: every step is one abstract *)
(* step or changes nothing a voter or a tally can see.                     *)
ImplementsOneVote == Promise!Spec
=============================================================================
