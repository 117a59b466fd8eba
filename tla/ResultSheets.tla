---------------------------- MODULE ResultSheets ----------------------------
(***************************************************************************)
(* Polling-unit result sheets (results.py, results_core.py): officers and  *)
(* their keys, submission, countersignature, review of flagged sheets, the *)
(* signed checkpoints, the tally, and what the public export contains, as  *)
(* the offline verifier (verify_offline.py) reads it.  One action is one   *)
(* committed transaction; refused requests change nothing.                 *)
(*                                                                         *)
(* A payload stands for its canonical form and its hash; a signature is    *)
(* the pair of signer and message; a block hash is the sequence of signed  *)
(* payloads it commits to; a Merkle root is the sequence of its leaves     *)
(* (module Merkle checks the tree itself).  The audit entry of every       *)
(* transaction belongs to the audit log.                                   *)
(***************************************************************************)
EXTENDS Integers, Sequences, SequencesExt

CONSTANTS
  Elections, Units, Parties, Officers, MAX_COUNT,
  Reports,          \* the figures that units report, some of those allowed
  NoOfficer,        \* no officers row for an id
  MaxSheets,        \* bound: how many sheets are submitted
  MaxCheckpoints    \* bound: how many checkpoints are signed

Counts == 0..MAX_COUNT
Figures == [accredited : Counts, rejected : Counts, scores : [Parties -> Counts]]
Payload == [election_type : Elections, polling_unit_code : Units, figures : Reports]
Officer == [role : {"PRESIDING_OFFICER", "PARTY_AGENT"}, polling_unit_code : Units,
            active : BOOLEAN]

(* sg.verify: the key of the officer named, over the message expected. *)
Signature == [by : Officers, over : Payload, as : {"EC8A-v1", "EC8A-v1-COUNTERSIGN"}]
Hash == Seq(Signature)
GENESIS == << >>

Sheet == [payload : Payload, officer_id : Officers, signature : Signature,
          flagged : BOOLEAN, previous_hash : Hash, block_hash : Hash,
          review_status : {"PENDING", "ACCEPTED", "VOID"}]
Countersignature == [block_index : Nat, officer_id : Officers, signature : Signature]
Checkpoint == [tree_size : Nat, root : Seq(Hash)]

ASSUME ResultSheetsAssumptions ==
  /\ MAX_COUNT \in Nat /\ MaxSheets \in Nat /\ MaxCheckpoints \in Nat
  /\ Reports \subseteq Figures
  /\ NoOfficer \notin Officer

VARIABLES
  status,              \* elections.status
  officers,            \* officers: the row of each id, or NoOfficer
  result_sheets,       \* result_sheets rows, by block_index
  countersignatures,   \* countersignatures rows
  checkpoints          \* checkpoints rows, by id

vars == <<status, officers, result_sheets, countersignatures, checkpoints>>

Init ==
  /\ status = [e \in Elections |-> "PENDING"]
  /\ officers = [o \in Officers |-> NoOfficer]
  /\ result_sheets = << >>
  /\ countersignatures = {}
  /\ checkpoints = << >>

-----------------------------------------------------------------------------
(* Elections and officers (admin.py). *)

Transition(e, frm, to) ==
  /\ status[e] = frm
  /\ status' = [status EXCEPT ![e] = to]
  /\ UNCHANGED <<officers, result_sheets, countersignatures, checkpoints>>

SetElectionState(e) == Transition(e, "PENDING", "OPEN") \/ Transition(e, "OPEN", "CLOSED")

(* An officer id is registered once; role, unit and key never change. *)
AddOfficer(o, role, u) ==
  /\ officers[o] = NoOfficer
  /\ officers' = [officers EXCEPT ![o] =
                    [role |-> role, polling_unit_code |-> u, active |-> TRUE]]
  /\ UNCHANGED <<status, result_sheets, countersignatures, checkpoints>>

SetOfficerState(o, active) ==
  /\ officers[o] # NoOfficer
  /\ officers' = [officers EXCEPT ![o].active = active]
  /\ UNCHANGED <<status, result_sheets, countersignatures, checkpoints>>

(* officer["role"] == ... and officer["polling_unit_code"] == ... *)
Serves(o, role, u) ==
  /\ officers[o] # NoOfficer
  /\ officers[o].role = role
  /\ officers[o].polling_unit_code = u

(* Mutant: an active officer of that role, of whatever unit. *)
OfAnyUnit(o, role, u) ==
  officers[o] # NoOfficer /\ officers[o].role = role /\ officers[o].active

(* _officer: the active officer of that role at that unit. *)
_officer(o, role, u) == Serves(o, role, u) /\ officers[o].active

-----------------------------------------------------------------------------
(* Submission and countersignature. *)

(* Mutant: no look at the election's status. *)
EvenPending(e) == TRUE

_require_not_pending(e) == status[e] # "PENDING"

(* validate_payload: the flag of a well-formed payload. *)
Overvote(p) ==
  MapThenSumSet(LAMBDA q : p.figures.scores[q], Parties) + p.figures.rejected
    > p.figures.accredited

(* UNIQUE (election_type, polling_unit_code) *)
SheetsOf(e, u) ==
  {i \in 1..Len(result_sheets) :
     /\ result_sheets[i].payload.election_type = e
     /\ result_sheets[i].payload.polling_unit_code = u}

NotReported(e, u) == SheetsOf(e, u) = {}

HeadHash == IF result_sheets = << >> THEN GENESIS
            ELSE result_sheets[Len(result_sheets)].block_hash

block_hash(prev, signature) == Append(prev, signature)

(* results.submit and submit_sheet. *)
Submit(p, o, signature) ==
  LET e == p.election_type
      u == p.polling_unit_code
  IN /\ Len(result_sheets) < MaxSheets
     /\ _require_not_pending(e)
     /\ _officer(o, "PRESIDING_OFFICER", u)
     /\ signature = [by |-> o, over |-> p, as |-> "EC8A-v1"]
     /\ NotReported(e, u)
     /\ result_sheets' = Append(result_sheets,
          [payload |-> p, officer_id |-> o, signature |-> signature,
           flagged |-> Overvote(p), previous_hash |-> HeadHash,
           block_hash |-> block_hash(HeadHash, signature), review_status |-> "PENDING"])
     /\ UNCHANGED <<status, officers, countersignatures, checkpoints>>

(* PRIMARY KEY (block_index, officer_id) *)
NotCountersigned(i, o) ==
  \A c \in countersignatures : ~(c.block_index = i /\ c.officer_id = o)

(* results.countersign and countersign: over the stored payload's hash. *)
Countersign(e, u, o, signature) ==
  /\ _require_not_pending(e)
  /\ _officer(o, "PARTY_AGENT", u)
  /\ \E i \in SheetsOf(e, u) :
       /\ signature = [by |-> o, over |-> result_sheets[i].payload,
                       as |-> "EC8A-v1-COUNTERSIGN"]
       /\ NotCountersigned(i, o)
       /\ countersignatures' = countersignatures \cup
            {[block_index |-> i, officer_id |-> o, signature |-> signature]}
  /\ UNCHANGED <<status, officers, result_sheets, checkpoints>>

-----------------------------------------------------------------------------
(* Review, checkpoints. *)

REVIEW_RESOLUTIONS == [ACCEPT |-> "ACCEPTED", VOID |-> "VOID"]

Reviewable(i) ==
  result_sheets[i].flagged /\ result_sheets[i].review_status = "PENDING"

(* admin.review_result and review_sheet: UPDATE ... AND review_status='PENDING'. *)
Review(e, u, resolution) ==
  /\ \E i \in SheetsOf(e, u) :
       /\ Reviewable(i)
       /\ result_sheets' =
            [result_sheets EXCEPT ![i].review_status = REVIEW_RESOLUTIONS[resolution]]
  /\ UNCHANGED <<status, officers, countersignatures, checkpoints>>

(* Mutant: sheets held for review are left out of the tree. *)
UnheldLeaves ==
  LET held(row) == row.flagged /\ row.review_status = "PENDING"
      unheld == SelectSeq(result_sheets, LAMBDA row : ~held(row))
  IN [i \in 1..Len(unheld) |-> unheld[i].block_hash]

_leaves == [i \in 1..Len(result_sheets) |-> result_sheets[i].block_hash]

MakeCheckpoint ==
  /\ Len(checkpoints) < MaxCheckpoints
  /\ checkpoints' = Append(checkpoints, [tree_size |-> Len(_leaves), root |-> _leaves])
  /\ UNCHANGED <<status, officers, result_sheets, countersignatures>>

Next ==
  \/ \E e \in Elections : SetElectionState(e)
  \/ \E o \in Officers, u \in Units, role \in {"PRESIDING_OFFICER", "PARTY_AGENT"} :
       AddOfficer(o, role, u)
  \/ \E o \in Officers, active \in BOOLEAN : SetOfficerState(o, active)
  \/ \E p \in Payload, o, by \in Officers :
       Submit(p, o, [by |-> by, over |-> p, as |-> "EC8A-v1"])
  \/ \E e \in Elections, u \in Units, o, by \in Officers, i \in 1..Len(result_sheets) :
       Countersign(e, u, o, [by |-> by, over |-> result_sheets[i].payload,
                             as |-> "EC8A-v1-COUNTERSIGN"])
  \/ \E e \in Elections, u \in Units, resolution \in {"ACCEPT", "VOID"} :
       Review(e, u, resolution)
  \/ MakeCheckpoint

Spec == Init /\ [][Next]_vars

-----------------------------------------------------------------------------
(* What readers compute. *)

(* Mutant: asks for an officer who is active today. *)
StoredByActive(row) ==
  /\ _officer(row.officer_id, "PRESIDING_OFFICER", row.payload.polling_unit_code)
  /\ row.signature = [by |-> row.officer_id, over |-> row.payload, as |-> "EC8A-v1"]

(* _stored_sheet: the row still agrees with what was signed. *)
_stored_sheet(row) ==
  /\ Serves(row.officer_id, "PRESIDING_OFFICER", row.payload.polling_unit_code)
  /\ row.signature = [by |-> row.officer_id, over |-> row.payload, as |-> "EC8A-v1"]

(* tally: what becomes of a sheet, tested in this order. *)
Category(row) ==
  CASE ~_stored_sheet(row) -> "invalid"
    [] _stored_sheet(row) /\ row.review_status = "VOID" -> "void"
    [] _stored_sheet(row) /\ row.review_status = "PENDING" /\ row.flagged -> "held"
    [] OTHER -> "counted"

(* _require_closed guards the tally and the figures of a sheet; the export *)
(* waits until no election is OPEN.                                        *)
Released(e) == status[e] = "CLOSED"
Exported == \A e \in Elections : status[e] # "OPEN"

(* The figures of election e are before the public. *)
Visible(e) == Exported \/ Released(e)

(* verify_offline: what it checks of a sheet, of the chain, of the         *)
(* countersignatures and of the checkpoint of an archive.                  *)
SheetVerifies(row) == _stored_sheet(row) /\ row.flagged = Overvote(row.payload)

ChainVerifies ==
  \A i \in 1..Len(result_sheets) :
    /\ result_sheets[i].previous_hash =
         IF i = 1 THEN GENESIS ELSE result_sheets[i - 1].block_hash
    /\ result_sheets[i].block_hash =
         block_hash(result_sheets[i].previous_hash, result_sheets[i].signature)

CountersignatureVerifies(c) ==
  /\ c.block_index \in 1..Len(result_sheets)
  /\ LET p == result_sheets[c.block_index].payload
     IN /\ Serves(c.officer_id, "PARTY_AGENT", p.polling_unit_code)
        /\ c.signature = [by |-> c.officer_id, over |-> p, as |-> "EC8A-v1-COUNTERSIGN"]
  /\ \A d \in countersignatures :
       d.block_index = c.block_index /\ d.officer_id = c.officer_id => d = c

CheckpointVerifies(cp) ==
  /\ cp.tree_size <= Len(result_sheets)
  /\ cp.root = SubSeq(_leaves, 1, cp.tree_size)

Problem(absent, what) == IF absent THEN {} ELSE {what}

(* The archive has the latest checkpoint only. *)
CheckpointProblems ==
  IF checkpoints = << >>
  THEN Problem(result_sheets = << >>, "no signed checkpoint")
  ELSE LET cp == Last(checkpoints)
       IN Problem(CheckpointVerifies(cp), "root does not match")
            \cup Problem(cp.tree_size >= Len(result_sheets), "covers only some sheets")

(* verify_offline.main on what export_all returns, the problems by kind. *)
offline_problems ==
  Problem(\A i \in 1..Len(result_sheets) : SheetVerifies(result_sheets[i]), "sheet")
    \cup Problem(ChainVerifies, "hash chain broken")
    \cup Problem(\A c \in countersignatures : CountersignatureVerifies(c), "countersignature")
    \cup CheckpointProblems

-----------------------------------------------------------------------------
(* Properties. *)

(* Every variable keeps its type. *)
TypeOK ==
  /\ status \in [Elections -> {"PENDING", "OPEN", "CLOSED"}]
  /\ officers \in [Officers -> Officer \cup {NoOfficer}]
  /\ result_sheets \in Seq(Sheet)
  /\ countersignatures \in SUBSET Countersignature
  /\ checkpoints \in Seq(Checkpoint)

(* The server and the offline verifier agree: whatever is registered,      *)
(* deactivated, reviewed and countersigned in between, an archive of what  *)
(* the server stored has no problem the verifier would report, other than  *)
(* a checkpoint that is older than the last sheet, or none.                *)
ArchiveVerifies ==
  offline_problems \subseteq {"no signed checkpoint", "covers only some sheets"}

(* verify_checkpoint and inclusion_proof: every root ever signed is still  *)
(* that of the first tree_size sheets, so that a proof once handed out, of *)
(* any position below tree_size, holds of the sheet stored there today;    *)
(* and a sheet that one checkpoint covers, every later one covers too.     *)
SignedRootsHold ==
  \A k \in 1..Len(checkpoints) :
    /\ CheckpointVerifies(checkpoints[k])
    /\ \A l \in 1..k : checkpoints[l].tree_size <= checkpoints[k].tree_size

(* No figure is before the public unless its own election is closed: the   *)
(* export, which looks for OPEN elections only, relies on submission being *)
(* refused while an election is pending.                                   *)
SealedUntilClosed ==
  \A i \in 1..Len(result_sheets) :
    LET e == result_sheets[i].payload.election_type
    IN Visible(e) => status[e] = "CLOSED"

(* The tally as OneResult sees it: the category of each unit's sheet. *)
Promise ==
  INSTANCE OneResult
  WITH outcome <-
    [c \in Elections \X Units |->
       IF SheetsOf(c[1], c[2]) = {} THEN [state |-> "none"]
       ELSE LET row == result_sheets[CHOOSE i \in SheetsOf(c[1], c[2]) : TRUE]
            IN [state |-> Category(row), figures |-> row.payload.figures]]

(* Sheets are counted as OneResult promises: at once or after one final    *)
(* decision, never twice, and never taken back by a deactivated officer, a *)
(* later review or a later sheet.                                          *)
ImplementsOneResult == Promise!Spec
=============================================================================
