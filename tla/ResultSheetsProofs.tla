-------------------------- MODULE ResultSheetsProofs --------------------------
(***************************************************************************)
(* What the collation of result sheets guarantees for every set of         *)
(* elections, units, parties and officers, whatever figures are reported   *)
(* and however many sheets and checkpoints there are.                      *)
(*                                                                         *)
(* Then the tree that the checkpoints sign: what its roots and proofs say  *)
(* of the sheets, for trees and slices of any size, and that a root can    *)
(* stand for the sheets it is over, as it does in ResultSheets.            *)
(***************************************************************************)
EXTENDS ResultSheets, Merkle, SequenceTheorems, FiniteSetTheorems, TLAPS

(* Appending a row changes no earlier one. *)
LEMMA AppendKeepsRows ==
  ASSUME NEW S, NEW rows \in Seq(S), NEW row \in S
  PROVE  /\ Append(rows, row) \in Seq(S)
         /\ Len(rows) \in Nat
         /\ Len(Append(rows, row)) = Len(rows) + 1
         /\ \A i \in 1..Len(rows) : Append(rows, row)[i] = rows[i]
         /\ Append(rows, row)[Len(rows) + 1] = row
  OBVIOUS

(* The hashes of rows are hashes, one of each. *)
LEMMA HashesOfRows ==
  ASSUME NEW rows \in Seq(Sheet)
  PROVE  LET hashes == [i \in 1..Len(rows) |-> rows[i].block_hash]
         IN hashes \in Seq(Hash) /\ Len(hashes) = Len(rows)
<1> DEFINE n == Len(rows)
           hashes == [i \in 1..n |-> rows[i].block_hash]
<1>1. n \in Nat  OBVIOUS
<1>2. \A i \in 1..n : rows[i].block_hash \in Hash
  <2>1. \A i \in 1..n : rows[i] \in Sheet  OBVIOUS
  <2> QED  BY <2>1 DEF Sheet
<1>3. hashes \in [1..n -> Hash]  BY <1>2
<1>4. hashes \in Seq(Hash)  BY <1>1, <1>3, SeqDef
<1>5. DOMAIN hashes = 1..n /\ DOMAIN hashes = 1..Len(hashes) /\ Len(hashes) \in Nat
  BY <1>4, LenProperties
<1>6. Len(hashes) = n  BY <1>1, <1>5
<1> QED  BY <1>4, <1>6

(* The leaves of the tree are the block hashes of the sheets. *)
LEMMA LeavesAreHashes ==
  ASSUME TypeOK
  PROVE  /\ _leaves \in Seq(Hash)
         /\ Len(_leaves) = Len(result_sheets)
BY HashesOfRows DEF TypeOK, _leaves

LEMMA HeadHashType ==
  ASSUME TypeOK
  PROVE  HeadHash \in Hash
<1>1. << >> \in Hash  BY DEF Hash
<1>2. result_sheets # << >> => result_sheets[Len(result_sheets)] \in Sheet  BY DEF TypeOK
<1> QED  BY <1>1, <1>2 DEF HeadHash, GENESIS, Sheet

-----------------------------------------------------------------------------
(* What the steps that write sheets do. *)

(* The row that results.submit stores. *)
NewSheet(p, o) ==
  LET signature == [by |-> o, over |-> p, as |-> "EC8A-v1"]
  IN [payload |-> p, officer_id |-> o, signature |-> signature,
      flagged |-> Overvote(p), previous_hash |-> HeadHash,
      block_hash |-> block_hash(HeadHash, signature), review_status |-> "PENDING"]

LEMMA NewSheetType ==
  ASSUME TypeOK, NEW p \in Payload, NEW o \in Officers
  PROVE  NewSheet(p, o) \in Sheet
<1> DEFINE signature == [by |-> o, over |-> p, as |-> "EC8A-v1"]
<1>1. signature \in Signature  BY DEF Signature
<1>2. block_hash(HeadHash, signature) \in Hash  BY <1>1, HeadHashType DEF block_hash, Hash
<1>3. Overvote(p) \in BOOLEAN  BY DEF Overvote
<1> QED  BY <1>1, <1>2, <1>3, HeadHashType DEF NewSheet, Sheet

LEMMA Submitted ==
  ASSUME TypeOK, NEW p \in Payload, NEW o \in Officers, NEW by \in Officers,
         Submit(p, o, [by |-> by, over |-> p, as |-> "EC8A-v1"])
  PROVE  /\ NewSheet(p, o) \in Sheet
         /\ result_sheets' = Append(result_sheets, NewSheet(p, o))
         /\ status[p.election_type] # "PENDING"
         /\ Serves(o, "PRESIDING_OFFICER", p.polling_unit_code)
         /\ SheetsOf(p.election_type, p.polling_unit_code) = {}
         /\ UNCHANGED <<status, officers, countersignatures, checkpoints>>
<1>1. [by |-> by, over |-> p, as |-> "EC8A-v1"] = [by |-> o, over |-> p, as |-> "EC8A-v1"]
  BY DEF Submit
<1> QED  BY <1>1, NewSheetType
         DEF Submit, NewSheet, _require_not_pending, _officer, NotReported

(* A review changes the status of one sheet, which was held, and no more. *)
LEMMA Reviewed ==
  ASSUME TypeOK, NEW e \in Elections, NEW u \in Units, NEW resolution \in {"ACCEPT", "VOID"},
         Review(e, u, resolution)
  PROVE  \E i \in SheetsOf(e, u), s \in {"ACCEPTED", "VOID"} :
           /\ i \in 1..Len(result_sheets) /\ Reviewable(i)
           /\ result_sheets' = [result_sheets EXCEPT ![i].review_status = s]
           /\ result_sheets' \in Seq(Sheet) /\ Len(result_sheets') = Len(result_sheets)
           /\ UNCHANGED <<status, officers, countersignatures, checkpoints>>
<1>1. PICK i \in SheetsOf(e, u) :
        /\ Reviewable(i)
        /\ result_sheets' =
             [result_sheets EXCEPT ![i].review_status = REVIEW_RESOLUTIONS[resolution]]
  BY DEF Review
<1> DEFINE s == REVIEW_RESOLUTIONS[resolution]
           row == [result_sheets[i] EXCEPT !.review_status = s]
<1>2. s \in {"ACCEPTED", "VOID"}  BY DEF REVIEW_RESOLUTIONS
<1>3. i \in 1..Len(result_sheets)  BY DEF SheetsOf
<1>4. row \in Sheet
  <2>1. result_sheets[i] \in Sheet  BY <1>3 DEF TypeOK
  <2> QED  BY <1>2, <2>1 DEF Sheet
<1>5. result_sheets' = [result_sheets EXCEPT ![i] = row]  BY <1>1
<1>6. result_sheets' \in Seq(Sheet) /\ Len(result_sheets') = Len(result_sheets)
  BY <1>3, <1>4, <1>5, ExceptSeq DEF TypeOK
<1> QED  BY <1>1, <1>2, <1>3, <1>6 DEF Review

(* A checkpoint signs the leaves there are. *)
LEMMA SignedRow ==
  ASSUME TypeOK, MakeCheckpoint
  PROVE  LET cp == [tree_size |-> Len(result_sheets), root |-> _leaves]
         IN /\ cp \in Checkpoint
            /\ checkpoints' = Append(checkpoints, cp)
            /\ UNCHANGED <<status, officers, result_sheets, countersignatures>>
BY LeavesAreHashes DEF MakeCheckpoint, Checkpoint, TypeOK

(* Type correctness: no transaction ever writes a value of another type to *)
(* the tables of elections, officers, sheets and checkpoints.              *)
THEOREM TypeCorrect == Spec => []TypeOK
<1>1. Init => TypeOK
  BY DEF Init, TypeOK
<1>2. TypeOK /\ [Next]_vars => TypeOK'
  <2> SUFFICES ASSUME TypeOK, [Next]_vars PROVE TypeOK'  OBVIOUS
  <2>1. ASSUME NEW e \in Elections, SetElectionState(e) PROVE TypeOK'
    BY <2>1 DEF SetElectionState, Transition, TypeOK
  <2>2. ASSUME NEW o \in Officers, NEW u \in Units,
               NEW role \in {"PRESIDING_OFFICER", "PARTY_AGENT"}, AddOfficer(o, role, u)
        PROVE  TypeOK'
    <3>1. [role |-> role, polling_unit_code |-> u, active |-> TRUE] \in Officer
      BY DEF Officer
    <3> QED  BY <2>2, <3>1 DEF AddOfficer, TypeOK
  <2>3. ASSUME NEW o \in Officers, NEW active \in BOOLEAN, SetOfficerState(o, active)
        PROVE  TypeOK'
    <3>1. officers[o] \in Officer  BY <2>3 DEF SetOfficerState, TypeOK
    <3>2. [officers[o] EXCEPT !.active = active] \in Officer  BY <3>1 DEF Officer
    <3>3. officers' = [officers EXCEPT ![o] = [officers[o] EXCEPT !.active = active]]
      BY <2>3 DEF SetOfficerState
    <3> QED  BY <2>3, <3>2, <3>3 DEF SetOfficerState, TypeOK
  <2>4. ASSUME NEW p \in Payload, NEW o \in Officers, NEW by \in Officers,
               Submit(p, o, [by |-> by, over |-> p, as |-> "EC8A-v1"])
        PROVE  TypeOK'
    <3>1. result_sheets' \in Seq(Sheet)
      <4>1. NewSheet(p, o) \in Sheet /\ result_sheets' = Append(result_sheets, NewSheet(p, o))
        BY <2>4, Submitted
      <4> QED  BY <4>1 DEF TypeOK
    <3>2. UNCHANGED <<status, officers, countersignatures, checkpoints>>
      BY <2>4 DEF Submit
    <3> QED  BY <3>1, <3>2 DEF TypeOK
  <2>5. ASSUME NEW e \in Elections, NEW u \in Units, NEW o \in Officers,
               NEW by \in Officers, NEW i \in 1..Len(result_sheets),
               Countersign(e, u, o, [by |-> by, over |-> result_sheets[i].payload,
                                     as |-> "EC8A-v1-COUNTERSIGN"])
        PROVE  TypeOK'
    <3> DEFINE signature == [by |-> by, over |-> result_sheets[i].payload,
                             as |-> "EC8A-v1-COUNTERSIGN"]
    <3>1. result_sheets[i] \in Sheet  BY DEF TypeOK
    <3>2. signature \in Signature  BY <3>1 DEF Sheet, Signature
    <3>3. \A j \in SheetsOf(e, u) : j \in Nat  BY DEF SheetsOf, TypeOK
    <3>4. \A j \in SheetsOf(e, u) :
            [block_index |-> j, officer_id |-> o, signature |-> signature]
              \in Countersignature
      BY <3>2, <3>3 DEF Countersignature
    <3> QED  BY <2>5, <3>4 DEF Countersign, TypeOK
  <2>6. ASSUME NEW e \in Elections, NEW u \in Units, NEW resolution \in {"ACCEPT", "VOID"},
               Review(e, u, resolution)
        PROVE  TypeOK'
    <3>1. result_sheets' \in Seq(Sheet)  BY <2>6, Reviewed
    <3>2. UNCHANGED <<status, officers, countersignatures, checkpoints>>
      BY <2>6 DEF Review
    <3> QED  BY <3>1, <3>2 DEF TypeOK
  <2>7. ASSUME MakeCheckpoint PROVE TypeOK'
    <3> DEFINE cp == [tree_size |-> Len(result_sheets), root |-> _leaves]
    <3>1. cp \in Checkpoint /\ checkpoints' = Append(checkpoints, cp)  BY <2>7, SignedRow
    <3>2. UNCHANGED <<status, officers, result_sheets, countersignatures>>
      BY <2>7 DEF MakeCheckpoint
    <3> QED  BY <3>1, <3>2 DEF TypeOK
  <2>8. CASE UNCHANGED vars  BY <2>8 DEF vars, TypeOK
  <2> QED  BY <2>1, <2>2, <2>3, <2>4, <2>5, <2>6, <2>7, <2>8 DEF Next
<1> QED  BY <1>1, <1>2, PTL DEF Spec

(* The parts of a row that are written once. *)
SameSheet(old, new) ==
  /\ new.payload = old.payload /\ new.officer_id = old.officer_id
  /\ new.signature = old.signature /\ new.flagged = old.flagged
  /\ new.previous_hash = old.previous_hash /\ new.block_hash = old.block_hash

(* A step that does not submit leaves the sheets that are there, and of    *)
(* each everything but its review status.                                  *)
LEMMA OnlySubmitAdds ==
  ASSUME TypeOK, [Next]_vars,
         ~ \E p \in Payload, o \in Officers, by \in Officers :
             Submit(p, o, [by |-> by, over |-> p, as |-> "EC8A-v1"])
  PROVE  /\ Len(result_sheets') = Len(result_sheets)
         /\ \A i \in 1..Len(result_sheets) : SameSheet(result_sheets[i], result_sheets'[i])
<1>1. ASSUME NEW e \in Elections, NEW u \in Units, NEW resolution \in {"ACCEPT", "VOID"},
             Review(e, u, resolution)
      PROVE  /\ Len(result_sheets') = Len(result_sheets)
             /\ \A i \in 1..Len(result_sheets) : SameSheet(result_sheets[i], result_sheets'[i])
  <2>1. PICK i \in SheetsOf(e, u), s \in {"ACCEPTED", "VOID"} :
          /\ result_sheets' = [result_sheets EXCEPT ![i].review_status = s]
          /\ Len(result_sheets') = Len(result_sheets)
    BY <1>1, Reviewed
  <2>2. result_sheets \in Seq(Sheet)  BY DEF TypeOK
  <2>3. \A j \in 1..Len(result_sheets) : result_sheets[j] \in Sheet  BY <2>2
  <2> QED  BY <2>1, <2>2, <2>3 DEF Sheet, SameSheet
<1>2. CASE UNCHANGED result_sheets  BY <1>2 DEF SameSheet
<1> QED
  BY <1>1, <1>2
     DEF Next, SetElectionState, Transition, AddOfficer, SetOfficerState, Countersign,
         MakeCheckpoint, vars

(* No step takes a sheet away, or changes what was signed. *)
LEMMA SheetsLast ==
  ASSUME TypeOK, [Next]_vars
  PROVE  /\ Len(result_sheets) <= Len(result_sheets')
         /\ \A i \in 1..Len(result_sheets) : SameSheet(result_sheets[i], result_sheets'[i])
<1>1. result_sheets \in Seq(Sheet) /\ Len(result_sheets) \in Nat  BY DEF TypeOK
<1>2. ASSUME NEW p \in Payload, NEW o \in Officers, NEW by \in Officers,
             Submit(p, o, [by |-> by, over |-> p, as |-> "EC8A-v1"])
      PROVE  /\ Len(result_sheets) <= Len(result_sheets')
             /\ \A i \in 1..Len(result_sheets) : SameSheet(result_sheets[i], result_sheets'[i])
  <2>1. NewSheet(p, o) \in Sheet /\ result_sheets' = Append(result_sheets, NewSheet(p, o))
    BY <1>2, Submitted
  <2>2. /\ Len(result_sheets') = Len(result_sheets) + 1
        /\ \A i \in 1..Len(result_sheets) : result_sheets'[i] = result_sheets[i]
    BY <1>1, <2>1, AppendKeepsRows
  <2> QED  BY <1>1, <2>2 DEF SameSheet
<1>3. CASE ~ \E p \in Payload, o \in Officers, by \in Officers :
                 Submit(p, o, [by |-> by, over |-> p, as |-> "EC8A-v1"])
  <2>1. /\ Len(result_sheets') = Len(result_sheets)
        /\ \A i \in 1..Len(result_sheets) : SameSheet(result_sheets[i], result_sheets'[i])
    BY <1>3, OnlySubmitAdds
  <2> QED  BY <1>1, <2>1
<1> QED  BY <1>2, <1>3

(* What an officer serves as, and where, is settled once and for all. *)
LEMMA ServesForGood ==
  ASSUME TypeOK, [Next]_vars, NEW o \in Officers, NEW role, NEW u, Serves(o, role, u)
  PROVE  Serves(o, role, u)'
<1>1. officers[o] \in Officer  BY DEF TypeOK, Serves
<1>2. ASSUME NEW q \in Officers, NEW w \in Units,
             NEW r \in {"PRESIDING_OFFICER", "PARTY_AGENT"}, AddOfficer(q, r, w)
      PROVE  Serves(o, role, u)'
  BY <1>2 DEF AddOfficer, Serves, TypeOK
<1>3. ASSUME NEW q \in Officers, NEW active \in BOOLEAN, SetOfficerState(q, active)
      PROVE  Serves(o, role, u)'
  <2>1. officers'[o].role = officers[o].role
        /\ officers'[o].polling_unit_code = officers[o].polling_unit_code
        /\ officers'[o] \in Officer
    BY <1>1, <1>3 DEF SetOfficerState, TypeOK, Officer
  <2> QED  BY <2>1, ResultSheetsAssumptions DEF Serves
<1>4. CASE UNCHANGED officers  BY <1>4 DEF Serves
<1> QED
  BY <1>2, <1>3, <1>4
     DEF Next, SetElectionState, Transition, Submit, Countersign, Review, MakeCheckpoint, vars

-----------------------------------------------------------------------------
(* The roots that were signed.                                             *)

(* The leaves that are there keep their places and their values. *)
LEMMA LeavesGrow ==
  ASSUME TypeOK, TypeOK', [Next]_vars
  PROVE  /\ Len(_leaves) <= Len(_leaves')
         /\ \A i \in 1..Len(_leaves) : _leaves'[i] = _leaves[i]
<1>1. Len(_leaves) = Len(result_sheets) /\ Len(result_sheets) \in Nat
  BY HashesOfRows DEF _leaves, TypeOK
<1>2. Len(_leaves') = Len(result_sheets') /\ Len(result_sheets') \in Nat
  BY HashesOfRows DEF _leaves, TypeOK
<1>3. /\ Len(result_sheets) <= Len(result_sheets')
      /\ \A i \in 1..Len(result_sheets) : result_sheets'[i].block_hash = result_sheets[i].block_hash
  BY SheetsLast DEF SameSheet
<1> QED  BY <1>1, <1>2, <1>3 DEF _leaves

(* What two sequences agree on is a prefix of both. *)
LEMMA SamePrefix ==
  ASSUME NEW S, NEW s \in Seq(S), NEW t \in Seq(S), NEW n \in Nat,
         n <= Len(s), n <= Len(t), \A i \in 1..n : s[i] = t[i]
  PROVE  SubSeq(s, 1, n) = SubSeq(t, 1, n)
<1>1. \A i \in 1..n : s[i] \in S /\ t[i] \in S  OBVIOUS
<1>2. /\ SubSeq(s, 1, n) \in Seq(S) /\ Len(SubSeq(s, 1, n)) = n
      /\ \A i \in 1..n : SubSeq(s, 1, n)[i] = s[i]
  BY <1>1, SubSeqProperties, 1 \in Int, n \in Int, n = 0 => Len(SubSeq(s, 1, n)) = 0
<1>3. /\ SubSeq(t, 1, n) \in Seq(S) /\ Len(SubSeq(t, 1, n)) = n
      /\ \A i \in 1..n : SubSeq(t, 1, n)[i] = t[i]
  BY <1>1, SubSeqProperties, 1 \in Int, n \in Int, n = 0 => Len(SubSeq(t, 1, n)) = 0
<1> QED  BY <1>2, <1>3, SeqEqual

(* A checkpoint that verifies goes on verifying: the sheets it covers are  *)
(* still there, at their places, with their hashes.                        *)
LEMMA CheckpointsKeepVerifying ==
  ASSUME TypeOK, TypeOK', [Next]_vars, NEW cp \in Checkpoint, CheckpointVerifies(cp)
  PROVE  CheckpointVerifies(cp)'
<1>1. /\ _leaves \in Seq(Hash) /\ Len(_leaves) = Len(result_sheets)
      /\ _leaves' \in Seq(Hash) /\ Len(_leaves') = Len(result_sheets')
  BY HashesOfRows DEF TypeOK, _leaves
<1>2. /\ Len(_leaves) <= Len(_leaves')
      /\ \A i \in 1..Len(_leaves) : _leaves'[i] = _leaves[i]
  BY LeavesGrow
<1>3. cp.tree_size \in Nat  BY DEF Checkpoint
<1>4. cp.tree_size <= Len(_leaves) /\ cp.root = SubSeq(_leaves, 1, cp.tree_size)
  BY <1>1 DEF CheckpointVerifies
<1>5. Len(_leaves) \in Nat /\ Len(_leaves') \in Nat  BY <1>1
<1>6. cp.tree_size <= Len(_leaves')  BY <1>2, <1>3, <1>4, <1>5
<1>7. \A i \in 1..cp.tree_size : _leaves'[i] = _leaves[i]  BY <1>2, <1>3, <1>4, <1>5
<1>8. SubSeq(_leaves', 1, cp.tree_size) = SubSeq(_leaves, 1, cp.tree_size)
  BY <1>1, <1>3, <1>4, <1>6, <1>7, SamePrefix
<1> QED  BY <1>1, <1>4, <1>6, <1>8 DEF CheckpointVerifies

(* Every root the authority ever signed is still the root of the first     *)
(* tree_size sheets, so that a proof once handed out stays good; and later *)
(* checkpoints cover what earlier ones do.                                 *)
THEOREM SignedRootsAlwaysHold == Spec => []SignedRootsHold
<1>1. Init => SignedRootsHold
  BY DEF Init, SignedRootsHold
<1>2. TypeOK /\ TypeOK' /\ SignedRootsHold /\ [Next]_vars => SignedRootsHold'
  <2> SUFFICES ASSUME TypeOK, TypeOK', SignedRootsHold, [Next]_vars
               PROVE  SignedRootsHold'
    OBVIOUS
  <2> DEFINE n == Len(checkpoints)
  <2>1. checkpoints \in Seq(Checkpoint) /\ n \in Nat  BY DEF TypeOK
  <2>2. ASSUME NEW k \in 1..n, checkpoints'[k] = checkpoints[k]
        PROVE  CheckpointVerifies(checkpoints[k])'
    <3> DEFINE cp == checkpoints[k]
    <3>1. cp \in Checkpoint /\ CheckpointVerifies(cp)  BY <2>1 DEF SignedRootsHold
    <3>2. ASSUME NEW c \in Checkpoint, CheckpointVerifies(c) PROVE CheckpointVerifies(c)'
      BY <3>2, CheckpointsKeepVerifying
    <3> QED  BY <2>2, <3>1, <3>2
  <2>3. CASE UNCHANGED checkpoints
    BY <2>1, <2>2, <2>3 DEF SignedRootsHold
  <2>4. CASE MakeCheckpoint
    <3> DEFINE cp == [tree_size |-> Len(result_sheets), root |-> _leaves]
    <3>1. /\ cp \in Checkpoint /\ checkpoints' = Append(checkpoints, cp)
          /\ result_sheets' = result_sheets
      BY <2>4, SignedRow
    <3>2. /\ Len(checkpoints') = n + 1 /\ checkpoints'[n + 1] = cp
          /\ \A k \in 1..n : checkpoints'[k] = checkpoints[k]
      BY <2>1, <3>1, AppendKeepsRows
    <3>3. ASSUME NEW c, c = cp PROVE CheckpointVerifies(c)'
      <4>1. _leaves \in Seq(Hash) /\ Len(_leaves) = Len(result_sheets)  BY LeavesAreHashes
      <4>2. SubSeq(_leaves, 1, Len(_leaves)) = _leaves  BY <4>1, SubSeqFull
      <4>3. _leaves' = _leaves  BY <3>1 DEF _leaves
      <4>4. Len(result_sheets) \in Nat  BY DEF TypeOK
      <4> QED  BY <3>1, <3>3, <4>1, <4>2, <4>3, <4>4 DEF CheckpointVerifies
    <3>4. \A l \in 1..n : checkpoints[l].tree_size <= Len(result_sheets)
      BY DEF SignedRootsHold, CheckpointVerifies
    <3>5. ASSUME NEW k \in 1..n + 1
          PROVE  /\ CheckpointVerifies(checkpoints[k])'
                 /\ \A l \in 1..k : checkpoints'[l].tree_size <= checkpoints'[k].tree_size
      <4>1. CASE k = n + 1
        <5>1. cp.tree_size = Len(result_sheets) /\ Len(result_sheets) \in Nat
          BY DEF TypeOK
        <5>2. CheckpointVerifies(checkpoints[k])'  BY <3>2, <3>3, <4>1
        <5>3. \A l \in 1..k : checkpoints'[l].tree_size <= checkpoints'[k].tree_size
          BY <2>1, <3>2, <3>4, <4>1, <5>1
        <5> QED  BY <5>2, <5>3
      <4>2. CASE k # n + 1
        <5>1. k \in 1..n  BY <2>1, <4>2
        <5>2. \A l \in 1..k : l \in 1..n  BY <2>1, <5>1
        <5>3. CheckpointVerifies(checkpoints[k])'  BY <2>2, <3>2, <5>1
        <5> QED  BY <3>2, <5>1, <5>2, <5>3 DEF SignedRootsHold
      <4> QED  BY <4>1, <4>2
    <3> QED  BY <3>2, <3>5 DEF SignedRootsHold
  <2> QED
    BY <2>3, <2>4 DEF Next, SetElectionState, Transition, AddOfficer, SetOfficerState,
                      Submit, Countersign, Review, vars
<1> QED  BY <1>1, <1>2, TypeCorrect, PTL DEF Spec

-----------------------------------------------------------------------------
(* The archive: what the server stores is what the offline verifier asks   *)
(* for, row by row.                                                        *)

SheetsVerify == \A i \in 1..Len(result_sheets) : SheetVerifies(result_sheets[i])

ReportedOnceOpen ==
  \A i \in 1..Len(result_sheets) : status[result_sheets[i].payload.election_type] # "PENDING"

CountersignaturesVerify == \A c \in countersignatures : CountersignatureVerifies(c)

SheetsInv ==
  /\ TypeOK
  /\ SheetsVerify /\ ChainVerifies /\ CountersignaturesVerify /\ ReportedOnceOpen

(* An election that has left PENDING does not go back. *)
LEMMA NeverPendingAgain ==
  ASSUME TypeOK, [Next]_vars, NEW e \in Elections, status[e] # "PENDING"
  PROVE  status'[e] # "PENDING"
<1>1. ASSUME NEW f \in Elections, SetElectionState(f) PROVE status'[e] # "PENDING"
  BY <1>1 DEF SetElectionState, Transition, TypeOK
<1>2. CASE UNCHANGED status  BY <1>2
<1> QED
  BY <1>1, <1>2 DEF Next, AddOfficer, SetOfficerState, Submit, Countersign, Review,
                    MakeCheckpoint, vars

(* A stored sheet goes on verifying, whatever becomes of its officer. *)
LEMMA StoredGoesOnVerifying ==
  ASSUME TypeOK, [Next]_vars, NEW old \in Sheet, NEW new,
         SameSheet(old, new), SheetVerifies(old)
  PROVE  _stored_sheet(new)' /\ new.flagged = Overvote(new.payload)
<1>1. /\ old.officer_id \in Officers
      /\ Serves(old.officer_id, "PRESIDING_OFFICER", old.payload.polling_unit_code)
  BY DEF SheetVerifies, _stored_sheet, Sheet
<1>2. Serves(old.officer_id, "PRESIDING_OFFICER", old.payload.polling_unit_code)'
  <2>1. ASSUME NEW o \in Officers, NEW u, Serves(o, "PRESIDING_OFFICER", u)
        PROVE  Serves(o, "PRESIDING_OFFICER", u)'
    BY <2>1, ServesForGood
  <2> QED  BY <1>1, <2>1
<1>3. new.payload = old.payload /\ new.officer_id = old.officer_id
      /\ new.signature = old.signature /\ new.flagged = old.flagged
  BY DEF SameSheet
<1>4. _stored_sheet(new)'
  BY <1>2, <1>3 DEF SheetVerifies, _stored_sheet, Serves
<1>5. new.flagged = Overvote(new.payload)  BY <1>3 DEF SheetVerifies
<1> QED  BY <1>4, <1>5

(* What is written of a stored row is written for good, so that its place  *)
(* in the chain is too.                                                    *)
LEMMA SubmitKeepsSheets ==
  ASSUME SheetsInv, [Next]_vars, NEW p \in Payload, NEW o \in Officers, NEW by \in Officers,
         Submit(p, o, [by |-> by, over |-> p, as |-> "EC8A-v1"])
  PROVE  SheetsVerify' /\ ChainVerifies'
<1> DEFINE n == Len(result_sheets)
           row == NewSheet(p, o)
<1>1. /\ row \in Sheet /\ result_sheets' = Append(result_sheets, row)
      /\ Serves(o, "PRESIDING_OFFICER", p.polling_unit_code) /\ UNCHANGED officers
  BY Submitted DEF SheetsInv
<1>2. result_sheets \in Seq(Sheet) /\ n \in Nat  BY DEF SheetsInv, TypeOK
<1>3. /\ Len(result_sheets') = n + 1 /\ result_sheets'[n + 1] = row
      /\ \A i \in 1..n : result_sheets'[i] = result_sheets[i] /\ result_sheets[i] \in Sheet
  BY <1>1, <1>2, AppendKeepsRows
<1>4. SheetsVerify'
  <2> SUFFICES ASSUME NEW i \in 1..n + 1
               PROVE  SheetVerifies(result_sheets[i])'
    BY <1>3 DEF SheetsVerify
  <2>1. CASE i = n + 1
    BY <1>1, <1>3, <2>1 DEF SheetVerifies, _stored_sheet, Serves, NewSheet
  <2>2. CASE i # n + 1
    <3>1. i \in 1..n  BY <1>2, <2>2
    <3>2. SheetVerifies(result_sheets[i])  BY <3>1 DEF SheetsInv, SheetsVerify
    <3> QED  BY <1>1, <1>3, <3>1, <3>2 DEF SheetVerifies, _stored_sheet, Serves
  <2> QED  BY <2>1, <2>2
<1>5. ChainVerifies'
  <2> SUFFICES ASSUME NEW i \in 1..n + 1
               PROVE  /\ result_sheets'[i].previous_hash =
                           IF i = 1 THEN GENESIS ELSE result_sheets'[i - 1].block_hash
                      /\ result_sheets'[i].block_hash =
                           block_hash(result_sheets'[i].previous_hash,
                                      result_sheets'[i].signature)
    BY <1>3 DEF ChainVerifies
  <2>1. CASE i = n + 1
    <3>1. HeadHash = IF i = 1 THEN GENESIS ELSE result_sheets'[i - 1].block_hash
      <4>1. i = 1 <=> result_sheets = << >>  BY <1>2, <2>1
      <4>2. i # 1 => i - 1 = n /\ n \in 1..n  BY <1>2, <2>1
      <4> QED  BY <1>3, <4>1, <4>2 DEF HeadHash
    <3>2. /\ row.previous_hash = HeadHash
          /\ row.block_hash = block_hash(row.previous_hash, row.signature)
      BY DEF NewSheet
    <3> QED  BY <1>3, <2>1, <3>1, <3>2
  <2>2. CASE i # n + 1
    <3>1. i \in 1..n /\ (i # 1 => i - 1 \in 1..n)  BY <1>2, <2>2
    <3> QED  BY <1>3, <3>1 DEF SheetsInv, ChainVerifies
  <2> QED  BY <2>1, <2>2
<1> QED  BY <1>4, <1>5

LEMMA OthersKeepSheets ==
  ASSUME SheetsInv, [Next]_vars,
         ~ \E p \in Payload, o \in Officers, by \in Officers :
             Submit(p, o, [by |-> by, over |-> p, as |-> "EC8A-v1"])
  PROVE  SheetsVerify' /\ ChainVerifies'
<1> DEFINE n == Len(result_sheets)
<1>1. /\ Len(result_sheets') = n
      /\ \A i \in 1..n : SameSheet(result_sheets[i], result_sheets'[i])
  BY OnlySubmitAdds DEF SheetsInv
<1>2. n \in Nat /\ \A i \in 1..n : result_sheets[i] \in Sheet  BY DEF SheetsInv, TypeOK
<1>3. ASSUME NEW i \in 1..n PROVE SheetVerifies(result_sheets[i])'
  <2>1. ASSUME NEW new, SameSheet(result_sheets[i], new)
        PROVE  _stored_sheet(new)' /\ new.flagged = Overvote(new.payload)
    <3>1. SheetVerifies(result_sheets[i])  BY DEF SheetsInv, SheetsVerify
    <3> QED  BY <1>2, <2>1, <3>1, StoredGoesOnVerifying DEF SheetsInv
  <2>2. SameSheet(result_sheets[i], result_sheets'[i])  BY <1>1
  <2> QED  BY <2>1, <2>2 DEF SheetVerifies, _stored_sheet, Serves
<1>4. ChainVerifies'
  <2> SUFFICES ASSUME NEW i \in 1..n
               PROVE  /\ result_sheets'[i].previous_hash =
                           IF i = 1 THEN GENESIS ELSE result_sheets'[i - 1].block_hash
                      /\ result_sheets'[i].block_hash =
                           block_hash(result_sheets'[i].previous_hash,
                                      result_sheets'[i].signature)
    BY <1>1 DEF ChainVerifies
  <2>1. i # 1 => i - 1 \in 1..n  BY <1>2
  <2> QED  BY <1>1, <2>1 DEF SheetsInv, ChainVerifies, SameSheet
<1> QED  BY <1>1, <1>3, <1>4 DEF SheetsVerify

(* What CountersignatureVerifies asks of a countersignature by itself. *)
Countersigned(c) ==
  /\ c.block_index \in 1..Len(result_sheets)
  /\ LET p == result_sheets[c.block_index].payload
     IN /\ Serves(c.officer_id, "PARTY_AGENT", p.polling_unit_code)
        /\ c.signature = [by |-> c.officer_id, over |-> p, as |-> "EC8A-v1-COUNTERSIGN"]

(* A countersignature goes on verifying: payload and agent stay what they  *)
(* were.                                                                   *)
LEMMA CountersignedForGood ==
  ASSUME TypeOK, TypeOK', [Next]_vars, NEW c \in countersignatures, Countersigned(c)
  PROVE  Countersigned(c)'
<1> DEFINE i == c.block_index
           q == result_sheets[i].payload
           u == q.polling_unit_code
<1>1. c.officer_id \in Officers
  <2>1. c \in Countersignature  BY DEF TypeOK
  <2> QED  BY <2>1 DEF Countersignature
<1>2. /\ i \in 1..Len(result_sheets) /\ Serves(c.officer_id, "PARTY_AGENT", u)
      /\ c.signature = [by |-> c.officer_id, over |-> q, as |-> "EC8A-v1-COUNTERSIGN"]
  BY DEF Countersigned
<1>3. Len(result_sheets) <= Len(result_sheets') /\ result_sheets'[i].payload = q
  BY <1>2, SheetsLast DEF SameSheet
<1>4. i \in 1..Len(result_sheets')
  <2>1. Len(result_sheets) \in Nat /\ Len(result_sheets') \in Nat  BY DEF TypeOK
  <2> QED  BY <1>2, <1>3, <2>1
<1>5. ASSUME NEW o \in Officers, NEW w, Serves(o, "PARTY_AGENT", w)
      PROVE  /\ officers'[o] # NoOfficer /\ officers'[o].role = "PARTY_AGENT"
             /\ officers'[o].polling_unit_code = w
  <2>1. Serves(o, "PARTY_AGENT", w)'  BY <1>5, ServesForGood
  <2> QED  BY <2>1 DEF Serves
<1>6. /\ officers'[c.officer_id] # NoOfficer /\ officers'[c.officer_id].role = "PARTY_AGENT"
      /\ officers'[c.officer_id].polling_unit_code = u
  BY <1>1, <1>2, <1>5
<1> QED  BY <1>2, <1>3, <1>4, <1>6 DEF Countersigned, Serves

LEMMA CountersignaturesGoOnVerifying ==
  ASSUME SheetsInv, TypeOK', [Next]_vars
  PROVE  CountersignaturesVerify'
<1>1. ASSUME NEW c \in countersignatures PROVE Countersigned(c)'
  <2>1. Countersigned(c)
    BY DEF SheetsInv, CountersignaturesVerify, CountersignatureVerifies, Countersigned
  <2> QED  BY <2>1, CountersignedForGood DEF SheetsInv
<1>2. CASE UNCHANGED countersignatures
  <2> SUFFICES ASSUME NEW c \in countersignatures PROVE CountersignatureVerifies(c)'
    BY <1>2 DEF CountersignaturesVerify
  <2>1. \A d \in countersignatures :
          d.block_index = c.block_index /\ d.officer_id = c.officer_id => d = c
    BY DEF SheetsInv, CountersignaturesVerify, CountersignatureVerifies
  <2> QED  BY <1>1, <1>2, <2>1 DEF CountersignatureVerifies, Countersigned
<1>3. ASSUME NEW e \in Elections, NEW u \in Units, NEW o \in Officers,
             NEW signature, Countersign(e, u, o, signature)
      PROVE  CountersignaturesVerify'
  <2>1. PICK j \in SheetsOf(e, u) :
          /\ signature = [by |-> o, over |-> result_sheets[j].payload,
                          as |-> "EC8A-v1-COUNTERSIGN"]
          /\ NotCountersigned(j, o)
          /\ countersignatures' = countersignatures \cup
               {[block_index |-> j, officer_id |-> o, signature |-> signature]}
    BY <1>3 DEF Countersign
  <2> DEFINE new == [block_index |-> j, officer_id |-> o, signature |-> signature]
  <2>2. /\ j \in 1..Len(result_sheets) /\ result_sheets[j].payload.polling_unit_code = u
        /\ Serves(o, "PARTY_AGENT", u) /\ UNCHANGED <<officers, result_sheets>>
    BY <1>3 DEF Countersign, SheetsOf, _officer
  <2> SUFFICES ASSUME NEW c \in countersignatures' PROVE CountersignatureVerifies(c)'
    BY DEF CountersignaturesVerify
  <2>3. ASSUME NEW d \in countersignatures
        PROVE  ~(d.block_index = j /\ d.officer_id = o)
    BY <2>1 DEF NotCountersigned
  <2>4. CASE c \in countersignatures
    <3>1. \A d \in countersignatures :
            d.block_index = c.block_index /\ d.officer_id = c.officer_id => d = c
      BY <2>4 DEF SheetsInv, CountersignaturesVerify, CountersignatureVerifies
    <3>2. \A d \in countersignatures' :
            d.block_index = c.block_index /\ d.officer_id = c.officer_id => d = c
      BY <2>1, <2>3, <2>4, <3>1
    <3> QED  BY <1>1, <2>4, <3>2 DEF CountersignatureVerifies, Countersigned
  <2>5. CASE c = new
    <3>1. \A d \in countersignatures' :
            d.block_index = c.block_index /\ d.officer_id = c.officer_id => d = c
      BY <2>1, <2>3, <2>5
    <3> QED  BY <2>1, <2>2, <2>5, <3>1 DEF CountersignatureVerifies, Serves
  <2> QED  BY <2>1, <2>4, <2>5
<1> QED
  BY <1>2, <1>3 DEF Next, SetElectionState, Transition, AddOfficer, SetOfficerState,
                    Submit, Review, MakeCheckpoint, vars

LEMMA ReportsStayOnceOpen ==
  ASSUME SheetsInv, [Next]_vars
  PROVE  ReportedOnceOpen'
<1> DEFINE n == Len(result_sheets)
<1>1. \A i \in 1..n : result_sheets[i] \in Sheet /\ n \in Nat  BY DEF SheetsInv, TypeOK
<1>2. \A i \in 1..n : result_sheets'[i].payload = result_sheets[i].payload
  BY SheetsLast DEF SheetsInv, SameSheet
<1>3. ASSUME NEW i \in 1..n PROVE status'[result_sheets'[i].payload.election_type] # "PENDING"
  <2> DEFINE e == result_sheets[i].payload.election_type
  <2>1. e \in Elections  BY <1>1 DEF Sheet, Payload
  <2>2. status[e] # "PENDING"  BY DEF SheetsInv, ReportedOnceOpen
  <2>3. status'[e] # "PENDING"  BY <2>1, <2>2, NeverPendingAgain DEF SheetsInv
  <2> QED  BY <1>2, <2>3
<1>4. ASSUME NEW p \in Payload, NEW o \in Officers, NEW by \in Officers,
             Submit(p, o, [by |-> by, over |-> p, as |-> "EC8A-v1"])
      PROVE  ReportedOnceOpen'
  <2>1. /\ NewSheet(p, o) \in Sheet /\ result_sheets' = Append(result_sheets, NewSheet(p, o))
        /\ status[p.election_type] # "PENDING" /\ UNCHANGED status
    BY <1>4, Submitted DEF SheetsInv
  <2>2. result_sheets \in Seq(Sheet)  BY DEF SheetsInv, TypeOK
  <2>3. n \in Nat /\ Len(result_sheets') = n + 1 /\ result_sheets'[n + 1] = NewSheet(p, o)
    BY <2>1, <2>2, AppendKeepsRows
  <2>4. NewSheet(p, o).payload = p  BY DEF NewSheet
  <2>5. \A i \in 1..n + 1 : i \in 1..n \/ i = n + 1  BY <2>3
  <2> QED  BY <1>3, <2>1, <2>3, <2>4, <2>5 DEF ReportedOnceOpen
<1>5. CASE ~ \E p \in Payload, o \in Officers, by \in Officers :
                 Submit(p, o, [by |-> by, over |-> p, as |-> "EC8A-v1"])
  <2>1. Len(result_sheets') = n  BY <1>5, OnlySubmitAdds DEF SheetsInv
  <2> QED  BY <1>3, <2>1 DEF ReportedOnceOpen
<1> QED  BY <1>4, <1>5

LEMMA SheetsInvHolds == Spec => []SheetsInv
<1>1. Init => SheetsInv
  <2> SUFFICES ASSUME Init PROVE SheetsInv  OBVIOUS
  <2>1. TypeOK  BY DEF Init, TypeOK
  <2>2. Len(result_sheets) = 0 /\ countersignatures = {}  BY DEF Init
  <2> QED  BY <2>1, <2>2 DEF SheetsInv, SheetsVerify, ChainVerifies,
                             CountersignaturesVerify, ReportedOnceOpen
<1>2. SheetsInv /\ TypeOK' /\ [Next]_vars => SheetsInv'
  <2> SUFFICES ASSUME SheetsInv, TypeOK', [Next]_vars PROVE SheetsInv'  OBVIOUS
  <2>1. ReportedOnceOpen'  BY ReportsStayOnceOpen
  <2>2. CountersignaturesVerify'  BY CountersignaturesGoOnVerifying
  <2>3. SheetsVerify' /\ ChainVerifies'
    <3>1. ASSUME NEW p \in Payload, NEW o \in Officers, NEW by \in Officers,
                 Submit(p, o, [by |-> by, over |-> p, as |-> "EC8A-v1"])
          PROVE  SheetsVerify' /\ ChainVerifies'
      BY <3>1, SubmitKeepsSheets
    <3> QED  BY <3>1, OthersKeepSheets
  <2> QED  BY <2>1, <2>2, <2>3 DEF SheetsInv
<1> QED  BY <1>1, <1>2, TypeCorrect, PTL DEF Spec

(* The server and the offline verifier agree for every history of           *)
(* registrations, deactivations, submissions, countersignatures, reviews    *)
(* and checkpoints: of an archive of what the server stored, the verifier   *)
(* never reports a sheet, a countersignature, the chain or a root.          *)
THEOREM ArchiveAlwaysVerifies == Spec => []ArchiveVerifies
<1>1. SheetsInv /\ SignedRootsHold => ArchiveVerifies
  <2> SUFFICES ASSUME SheetsInv, SignedRootsHold PROVE ArchiveVerifies  OBVIOUS
  <2>1. \A i \in 1..Len(result_sheets) : SheetVerifies(result_sheets[i])
    BY DEF SheetsInv, SheetsVerify
  <2>2. ChainVerifies  BY DEF SheetsInv
  <2>3. \A c \in countersignatures : CountersignatureVerifies(c)
    BY DEF SheetsInv, CountersignaturesVerify
  <2>4. CheckpointProblems \subseteq {"no signed checkpoint", "covers only some sheets"}
    <3>1. CASE checkpoints = << >>  BY <3>1 DEF CheckpointProblems, Problem
    <3>2. CASE checkpoints # << >>
      <4>1. Len(checkpoints) \in 1..Len(checkpoints)
        BY <3>2 DEF SheetsInv, TypeOK
      <4>2. CheckpointVerifies(Last(checkpoints))  BY <4>1 DEF SignedRootsHold, Last
      <4> QED  BY <3>2, <4>2 DEF CheckpointProblems, Problem
    <3> QED  BY <3>1, <3>2
  <2> QED  BY <2>1, <2>2, <2>3, <2>4 DEF ArchiveVerifies, offline_problems, Problem
<1> QED  BY <1>1, SheetsInvHolds, SignedRootsAlwaysHold, PTL

(* No figure of an election is before the public while it is pending or    *)
(* open: the export looks for OPEN elections only, which is enough because *)
(* no sheet of a pending election was ever accepted.                       *)
THEOREM FiguresStaySealed == Spec => []SealedUntilClosed
<1>1. SheetsInv => SealedUntilClosed
  <2> SUFFICES ASSUME SheetsInv, NEW i \in 1..Len(result_sheets),
                      Visible(result_sheets[i].payload.election_type)
               PROVE  status[result_sheets[i].payload.election_type] = "CLOSED"
    BY DEF SealedUntilClosed
  <2> DEFINE e == result_sheets[i].payload.election_type
  <2>1. e \in Elections
    <3>1. result_sheets[i] \in Sheet  BY DEF SheetsInv, TypeOK
    <3> QED  BY <3>1 DEF Sheet, Payload
  <2>2. status[e] \in {"PENDING", "OPEN", "CLOSED"}  BY <2>1 DEF SheetsInv, TypeOK
  <2>3. status[e] # "PENDING"  BY DEF SheetsInv, ReportedOnceOpen
  <2> QED  BY <2>1, <2>2, <2>3 DEF Visible, Exported, Released
<1> QED  BY <1>1, SheetsInvHolds, PTL

-----------------------------------------------------------------------------
(* The refinement.  A cell of OneResult is read off the one sheet of its   *)
(* unit; that there is at most one is UNIQUE (election_type,               *)
(* polling_unit_code), which a submission checks by SheetsOf.              *)

OnePerUnit(rows) ==
  \A i, j \in 1..Len(rows) :
    /\ rows[i].payload.election_type = rows[j].payload.election_type
    /\ rows[i].payload.polling_unit_code = rows[j].payload.polling_unit_code
    => i = j

OneSheetPerUnit == OnePerUnit(result_sheets)

LEMMA OneSheetPerUnitHolds == Spec => []OneSheetPerUnit
<1>1. Init => OneSheetPerUnit  BY DEF Init, OneSheetPerUnit, OnePerUnit
<1>2. TypeOK /\ OneSheetPerUnit /\ [Next]_vars => OneSheetPerUnit'
  <2> SUFFICES ASSUME TypeOK, OneSheetPerUnit, [Next]_vars PROVE OneSheetPerUnit'  OBVIOUS
  <2> DEFINE n == Len(result_sheets)
  <2>1. n \in Nat /\ result_sheets \in Seq(Sheet)  BY DEF TypeOK
  <2>2. \A i \in 1..n : result_sheets'[i].payload = result_sheets[i].payload
    BY SheetsLast DEF SameSheet
  <2>3. ASSUME NEW p \in Payload, NEW o \in Officers, NEW by \in Officers,
               Submit(p, o, [by |-> by, over |-> p, as |-> "EC8A-v1"])
        PROVE  OneSheetPerUnit'
    <3>1. /\ NewSheet(p, o) \in Sheet
          /\ result_sheets' = Append(result_sheets, NewSheet(p, o))
          /\ SheetsOf(p.election_type, p.polling_unit_code) = {}
      BY <2>3, Submitted
    <3>2. Len(result_sheets') = n + 1 /\ result_sheets'[n + 1] = NewSheet(p, o)
      BY <2>1, <3>1, AppendKeepsRows
    <3>3. NewSheet(p, o).payload = p  BY DEF NewSheet
    <3>4. \A i \in 1..n : ~(/\ result_sheets[i].payload.election_type = p.election_type
                            /\ result_sheets[i].payload.polling_unit_code = p.polling_unit_code)
      BY <3>1 DEF SheetsOf
    <3>5. \A i \in 1..n + 1 : i \in 1..n \/ i = n + 1  BY <2>1
    <3> QED  BY <2>2, <3>2, <3>3, <3>4, <3>5 DEF OneSheetPerUnit, OnePerUnit
  <2>4. CASE ~ \E p \in Payload, o \in Officers, by \in Officers :
                   Submit(p, o, [by |-> by, over |-> p, as |-> "EC8A-v1"])
    <3>1. Len(result_sheets') = n  BY <2>4, OnlySubmitAdds
    <3> QED  BY <2>2, <3>1 DEF OneSheetPerUnit, OnePerUnit
  <2> QED  BY <2>3, <2>4
<1> QED  BY <1>1, <1>2, TypeCorrect, PTL DEF Spec

OutcomeInv == SheetsInv /\ OneSheetPerUnit

(* Of rows that verify, the tally looks at the flag and the review only.   *)
Verdict(row) ==
  IF row.review_status = "VOID" THEN "void"
  ELSE IF row.review_status = "PENDING" /\ row.flagged THEN "held" ELSE "counted"

Cell(row) == <<row.payload.election_type, row.payload.polling_unit_code>>
Shown(row) == [state |-> Verdict(row), figures |-> row.payload.figures]
RowsOf(rows, c) == {i \in 1..Len(rows) : Cell(rows[i]) = c}

(* OneResult's outcome as a function of the rows alone ... *)
OutcomeOf(rows) ==
  [c \in Elections \X Units |->
     IF RowsOf(rows, c) = {} THEN [state |-> "none"]
     ELSE Shown(rows[CHOOSE i \in RowsOf(rows, c) : TRUE])]

(* ... and as ResultSheets maps it. *)
Outcome ==
  [c \in Elections \X Units |->
     IF SheetsOf(c[1], c[2]) = {} THEN [state |-> "none"]
     ELSE LET row == result_sheets[CHOOSE i \in SheetsOf(c[1], c[2]) : TRUE]
          IN [state |-> Category(row), figures |-> row.payload.figures]]

LEMMA OutcomeIsOfRows == OutcomeInv => Outcome = OutcomeOf(result_sheets)
<1> SUFFICES ASSUME OutcomeInv, NEW c \in Elections \X Units
             PROVE  Outcome[c] = OutcomeOf(result_sheets)[c]
  BY DEF Outcome, OutcomeOf
<1>1. SheetsOf(c[1], c[2]) = RowsOf(result_sheets, c)
  <2>1. c = <<c[1], c[2]>>  OBVIOUS
  <2> QED  BY <2>1 DEF SheetsOf, RowsOf, Cell
<1>2. CASE RowsOf(result_sheets, c) = {}  BY <1>1, <1>2 DEF Outcome, OutcomeOf
<1>3. CASE RowsOf(result_sheets, c) # {}
  <2> DEFINE i == CHOOSE j \in RowsOf(result_sheets, c) : TRUE
             row == result_sheets[i]
  <2>1. i \in 1..Len(result_sheets)  BY <1>3 DEF RowsOf
  <2>2. _stored_sheet(row)
    BY <2>1 DEF OutcomeInv, SheetsInv, SheetsVerify, SheetVerifies
  <2>3. Category(row) = Verdict(row)
    <3>1. row \in Sheet  BY <2>1 DEF OutcomeInv, SheetsInv, TypeOK
    <3> QED  BY <2>2, <3>1 DEF Category, Verdict, Sheet
  <2> QED  BY <1>1, <1>3, <2>3 DEF Outcome, OutcomeOf, Shown
<1> QED  BY <1>2, <1>3

LEMMA CellType ==
  ASSUME NEW row \in Sheet
  PROVE  Cell(row) \in Elections \X Units
BY DEF Cell, Sheet, Payload

LEMMA OutcomeOfCell ==
  ASSUME NEW rows \in Seq(Sheet), OnePerUnit(rows)
  PROVE  /\ \A i \in 1..Len(rows) : OutcomeOf(rows)[Cell(rows[i])] = Shown(rows[i])
         /\ \A c \in Elections \X Units :
              (\A i \in 1..Len(rows) : Cell(rows[i]) # c)
                => OutcomeOf(rows)[c] = [state |-> "none"]
<1>1. ASSUME NEW i \in 1..Len(rows) PROVE OutcomeOf(rows)[Cell(rows[i])] = Shown(rows[i])
  <2> DEFINE c == Cell(rows[i])
  <2>1. c \in Elections \X Units
    <3>1. rows[i] \in Sheet  OBVIOUS
    <3> QED  BY <3>1, CellType
  <2>2. RowsOf(rows, c) = {i}  BY DEF RowsOf, Cell, OnePerUnit
  <2>3. (CHOOSE j \in RowsOf(rows, c) : TRUE) = i  BY <2>2
  <2> QED  BY <2>1, <2>2, <2>3 DEF OutcomeOf
<1>2. ASSUME NEW c \in Elections \X Units, \A i \in 1..Len(rows) : Cell(rows[i]) # c
      PROVE  OutcomeOf(rows)[c] = [state |-> "none"]
  <2>1. RowsOf(rows, c) = {}  BY <1>2 DEF RowsOf
  <2> QED  BY <2>1 DEF OutcomeOf
<1> QED  BY <1>1, <1>2

LEMMA OutcomeIsFunction ==
  \A rows : OutcomeOf(rows) = [c \in Elections \X Units |-> OutcomeOf(rows)[c]]
BY DEF OutcomeOf

(* A sheet of a unit that had none changes its unit's cell. *)
LEMMA OutcomeOfAppend ==
  ASSUME NEW rows \in Seq(Sheet), OnePerUnit(rows), NEW row \in Sheet,
         OnePerUnit(Append(rows, row)), \A i \in 1..Len(rows) : Cell(rows[i]) # Cell(row)
  PROVE  /\ OutcomeOf(rows)[Cell(row)] = [state |-> "none"]
         /\ OutcomeOf(Append(rows, row)) = [OutcomeOf(rows) EXCEPT ![Cell(row)] = Shown(row)]
<1> DEFINE n == Len(rows)
           longer == Append(rows, row)
<1>1. /\ longer \in Seq(Sheet) /\ n \in Nat /\ Len(longer) = n + 1 /\ longer[n + 1] = row
      /\ \A i \in 1..n : longer[i] = rows[i]
  BY AppendKeepsRows
<1>2. Cell(row) \in Elections \X Units  BY CellType
<1>3. OutcomeOf(rows)[Cell(row)] = [state |-> "none"]  BY <1>2, OutcomeOfCell
<1>4. ASSUME NEW c \in Elections \X Units
      PROVE  OutcomeOf(longer)[c] = IF c = Cell(row) THEN Shown(row) ELSE OutcomeOf(rows)[c]
  <2>1. CASE c = Cell(row)
    <3>1. OutcomeOf(longer)[Cell(longer[n + 1])] = Shown(longer[n + 1])
      BY <1>1, n + 1 \in 1..n + 1, OutcomeOfCell
    <3> QED  BY <1>1, <2>1, <3>1
  <2>2. CASE c # Cell(row) /\ \E i \in 1..n : Cell(rows[i]) = c
    <3>1. PICK i \in 1..n : Cell(rows[i]) = c  BY <2>2
    <3>2. OutcomeOf(rows)[c] = Shown(rows[i])  BY <3>1, OutcomeOfCell
    <3>3. i \in 1..Len(longer) /\ longer[i] = rows[i]  BY <1>1
    <3>4. OutcomeOf(longer)[c] = Shown(rows[i])  BY <1>1, <3>1, <3>3, OutcomeOfCell
    <3> QED  BY <2>2, <3>2, <3>4
  <2>3. CASE c # Cell(row) /\ \A i \in 1..n : Cell(rows[i]) # c
    <3>1. \A i \in 1..Len(longer) : Cell(longer[i]) # c
      <4>1. \A i \in 1..Len(longer) : i \in 1..n \/ i = n + 1  BY <1>1
      <4> QED  BY <1>1, <2>3, <4>1
    <3> QED  BY <1>1, <2>3, <3>1, OutcomeOfCell
  <2> QED  BY <2>1, <2>2, <2>3
<1>5. OutcomeOf(longer) = [c \in Elections \X Units |-> OutcomeOf(longer)[c]]
  BY OutcomeIsFunction
<1>6. OutcomeOf(rows) = [c \in Elections \X Units |-> OutcomeOf(rows)[c]]
  BY OutcomeIsFunction
<1> QED  BY <1>2, <1>3, <1>4, <1>5, <1>6

(* A decision on one sheet changes its unit's cell. *)
LEMMA OutcomeOfDecision ==
  ASSUME NEW rows \in Seq(Sheet), OnePerUnit(rows), NEW k \in 1..Len(rows),
         NEW s \in {"ACCEPTED", "VOID"},
         NEW decided, decided = [rows EXCEPT ![k].review_status = s], OnePerUnit(decided)
  PROVE  OutcomeOf(decided) =
           [OutcomeOf(rows) EXCEPT ![Cell(rows[k])].state = IF s = "VOID" THEN "void" ELSE "counted"]
<1> DEFINE n == Len(rows)
           new == [rows[k] EXCEPT !.review_status = s]
           c == Cell(rows[k])
<1>1. \A i \in 1..n : rows[i] \in Sheet  OBVIOUS
<1>2. new \in Sheet /\ new.payload = rows[k].payload /\ new.review_status = s
  BY <1>1 DEF Sheet
<1>3. decided = [rows EXCEPT ![k] = new]  OBVIOUS
<1>4. /\ decided \in Seq(Sheet) /\ Len(decided) = n
      /\ \A i \in 1..n : decided[i] = IF i = k THEN new ELSE rows[i]
  BY <1>2, <1>3, ExceptSeq
<1>5. \A i \in 1..n : Cell(decided[i]) = Cell(rows[i])  BY <1>2, <1>4 DEF Cell
<1>6. /\ \A i \in 1..n : OutcomeOf(decided)[Cell(decided[i])] = Shown(decided[i])
      /\ \A d \in Elections \X Units :
           (\A i \in 1..n : Cell(decided[i]) # d) => OutcomeOf(decided)[d] = [state |-> "none"]
  <2> HIDE DEF n
  <2>1. /\ \A i \in 1..Len(decided) : OutcomeOf(decided)[Cell(decided[i])] = Shown(decided[i])
        /\ \A d \in Elections \X Units :
             (\A i \in 1..Len(decided) : Cell(decided[i]) # d)
               => OutcomeOf(decided)[d] = [state |-> "none"]
    BY <1>4, OutcomeOfCell
  <2> QED  BY <1>4, <2>1
<1>7. c \in Elections \X Units  BY <1>1, CellType
<1>8. Shown(new) = [Shown(rows[k]) EXCEPT !.state = IF s = "VOID" THEN "void" ELSE "counted"]
  BY <1>2 DEF Shown, Verdict
<1>9. ASSUME NEW d \in Elections \X Units
      PROVE  OutcomeOf(decided)[d] = IF d = c THEN Shown(new) ELSE OutcomeOf(rows)[d]
  <2>1. CASE \E i \in 1..n : Cell(rows[i]) = d
    <3>1. PICK i \in 1..n : Cell(rows[i]) = d  BY <2>1
    <3>2. OutcomeOf(rows)[d] = Shown(rows[i])  BY <3>1, OutcomeOfCell
    <3>3. OutcomeOf(decided)[d] = Shown(decided[i])  BY <1>5, <1>6, <3>1
    <3>4. d = c <=> i = k  BY <3>1 DEF Cell, OnePerUnit
    <3> QED  BY <1>4, <3>2, <3>3, <3>4
  <2>2. CASE \A i \in 1..n : Cell(rows[i]) # d
    <3>1. d # c  BY <2>2
    <3>2. OutcomeOf(rows)[d] = [state |-> "none"]  BY <2>2, OutcomeOfCell
    <3>3. OutcomeOf(decided)[d] = [state |-> "none"]  BY <1>5, <1>6, <2>2
    <3> QED  BY <3>1, <3>2, <3>3
  <2> QED  BY <2>1, <2>2
<1>10. OutcomeOf(rows)[c] = Shown(rows[k])  BY OutcomeOfCell
<1>11. OutcomeOf(decided) = [d \in Elections \X Units |-> OutcomeOf(decided)[d]]
  BY OutcomeIsFunction
<1>12. OutcomeOf(rows) = [d \in Elections \X Units |-> OutcomeOf(rows)[d]]
  BY OutcomeIsFunction
<1> QED  BY <1>7, <1>8, <1>9, <1>10, <1>11, <1>12

LEMMA OutcomeInvHolds == Spec => []OutcomeInv
BY SheetsInvHolds, OneSheetPerUnitHolds, PTL DEF OutcomeInv

(* The sum that makes a sheet an overvote is OneResult's. *)
LEMMA SameOvervote ==
  ASSUME NEW p \in Payload
  PROVE  Promise!Overvote(p.figures) = Overvote(p)
BY Zenon DEF Promise!Overvote, Overvote, Promise!MapThenSumSet, MapThenSumSet,
         Promise!MapThenFoldSet, MapThenFoldSet

(* A submission reports the unit's figures. *)
LEMMA SubmitReports ==
  ASSUME OutcomeInv, OutcomeInv', NEW p \in Payload, NEW o \in Officers, NEW by \in Officers,
         Submit(p, o, [by |-> by, over |-> p, as |-> "EC8A-v1"]),
         Outcome = OutcomeOf(result_sheets), Outcome' = OutcomeOf(result_sheets')
  PROVE  Promise!Next
<1> DEFINE row == NewSheet(p, o)
           c == <<p.election_type, p.polling_unit_code>>
<1>1. /\ row \in Sheet /\ result_sheets' = Append(result_sheets, row)
      /\ status[p.election_type] # "PENDING"
      /\ SheetsOf(p.election_type, p.polling_unit_code) = {} /\ UNCHANGED status
  BY Submitted DEF OutcomeInv, SheetsInv
<1>2. result_sheets \in Seq(Sheet) /\ OnePerUnit(result_sheets) /\ OnePerUnit(result_sheets')
  BY DEF OutcomeInv, SheetsInv, TypeOK, OneSheetPerUnit
<1>3. Cell(row) = c /\ c \in Elections \X Units  BY DEF Cell, NewSheet, Payload
<1>4. \A i \in 1..Len(result_sheets) : Cell(result_sheets[i]) # Cell(row)
  BY <1>1, <1>3 DEF SheetsOf, Cell
<1>5. /\ Outcome[c] = [state |-> "none"]
      /\ Outcome' = [Outcome EXCEPT ![c] = Shown(row)]
  BY <1>1, <1>2, <1>3, <1>4, OutcomeOfAppend
<1>6. Shown(row) = [state |-> IF Promise!Overvote(p.figures) THEN "held" ELSE "counted",
                    figures |-> p.figures]
  BY SameOvervote DEF Shown, Verdict, NewSheet
<1>7. p.figures \in Reports  BY DEF Payload
<1>8. Promise!Report(c, p.figures)
  BY <1>1, <1>5, <1>6 DEF Promise!Report, Promise!NoResult, Outcome
<1> QED  BY <1>3, <1>7, <1>8 DEF Promise!Next, Promise!Cells

(* OneResult's decision, said of Outcome. *)
LEMMA DecidesOutcome ==
  ASSUME NEW c, NEW d, Outcome[c] # [state |-> "none"], Outcome[c].state = "held",
         Outcome' = [Outcome EXCEPT ![c].state = d], UNCHANGED status
  PROVE  Promise!Decide(c, d)
BY Zenon DEF Promise!Decide, Promise!NoResult, Outcome

(* A review decides on figures that were held. *)
LEMMA ReviewDecides ==
  ASSUME OutcomeInv, OutcomeInv', NEW e \in Elections, NEW u \in Units,
         NEW resolution \in {"ACCEPT", "VOID"}, Review(e, u, resolution),
         Outcome = OutcomeOf(result_sheets), Outcome' = OutcomeOf(result_sheets')
  PROVE  Promise!Next
<1>1. PICK i \in SheetsOf(e, u), s \in {"ACCEPTED", "VOID"} :
        /\ i \in 1..Len(result_sheets) /\ Reviewable(i)
        /\ result_sheets' = [result_sheets EXCEPT ![i].review_status = s]
        /\ UNCHANGED status
  BY Reviewed DEF OutcomeInv, SheetsInv
<1> DEFINE c == Cell(result_sheets[i])
           decision == IF s = "VOID" THEN "void" ELSE "counted"
<1>2. result_sheets \in Seq(Sheet) /\ OnePerUnit(result_sheets) /\ OnePerUnit(result_sheets')
  BY DEF OutcomeInv, SheetsInv, TypeOK, OneSheetPerUnit
<1>3. c \in Elections \X Units
  <2>1. result_sheets[i] \in Sheet  BY <1>1, <1>2
  <2> QED  BY <2>1, CellType
<1>4. Outcome' = [Outcome EXCEPT ![c].state = decision]
  <2>1. OutcomeOf(result_sheets') = [OutcomeOf(result_sheets) EXCEPT ![c].state = decision]
    <3> DEFINE after == result_sheets'
    <3>1. after = [result_sheets EXCEPT ![i].review_status = s] /\ OnePerUnit(after)
      BY <1>1, <1>2
    <3>2. i \in 1..Len(result_sheets)  BY <1>1
    <3> HIDE DEF after
    <3>3. OutcomeOf(after) = [OutcomeOf(result_sheets) EXCEPT ![c].state = decision]
      BY <1>2, <3>1, <3>2, OutcomeOfDecision, ZenonT(60)
    <3> QED  BY <3>3 DEF after
  <2> QED  BY <2>1
<1>5. Outcome[c].state = "held"
  <2>1. Outcome[c] = Shown(result_sheets[i])  BY <1>1, <1>2, OutcomeOfCell
  <2> QED  BY <1>1, <2>1 DEF Reviewable, Shown, Verdict
<1>6. Outcome[c] # [state |-> "none"]  BY <1>5
<1>7. Promise!Decide(c, decision)
  <2> HIDE DEF c, decision
  <2> QED  BY <1>1, <1>4, <1>5, <1>6, DecidesOutcome
<1>8. decision \in {"counted", "void"}  OBVIOUS
<1> QED  BY <1>3, <1>7, <1>8 DEF Promise!Next, Promise!Cells

(* Sheets are counted as OneResult promises: figures that add up at once    *)
(* and for good, the others after one decision which is final, whatever    *)
(* becomes of officers, countersignatures and checkpoints.                  *)
THEOREM ResultSheetsKeepPromise == Spec => ImplementsOneResult
<1>1. Init => Promise!Init
  <2> SUFFICES ASSUME Init PROVE Promise!Init  OBVIOUS
  <2>1. \A c \in Elections \X Units : SheetsOf(c[1], c[2]) = {}
    BY DEF Init, SheetsOf
  <2> QED  BY <2>1 DEF Init, Promise!Init, Promise!Cells, Promise!NoResult
<1>2. /\ OutcomeInv /\ OutcomeInv' /\ [Next]_vars
      /\ Outcome = OutcomeOf(result_sheets) /\ (Outcome = OutcomeOf(result_sheets))'
      => [Promise!Next]_(Promise!vars)
  <2> SUFFICES ASSUME OutcomeInv, OutcomeInv', [Next]_vars, Outcome = OutcomeOf(result_sheets),
                      Outcome' = OutcomeOf(result_sheets')
               PROVE  [Promise!Next]_(Promise!vars)
    OBVIOUS
  <2>1. ASSUME NEW e \in Elections, SetElectionState(e) PROVE Promise!Next
    <3>1. Outcome' = Outcome  BY <2>1 DEF SetElectionState, Transition
    <3>2. Promise!Advance(e)
      BY <2>1, <3>1 DEF SetElectionState, Transition, Promise!Advance, Outcome
    <3> QED  BY <3>2 DEF Promise!Next
  <2>2. ASSUME NEW p \in Payload, NEW o \in Officers, NEW by \in Officers,
               Submit(p, o, [by |-> by, over |-> p, as |-> "EC8A-v1"])
        PROVE  Promise!Next
    BY <2>2, SubmitReports
  <2>3. ASSUME NEW e \in Elections, NEW u \in Units, NEW resolution \in {"ACCEPT", "VOID"},
               Review(e, u, resolution)
        PROVE  Promise!Next
    BY <2>3, ReviewDecides
  <2>4. CASE UNCHANGED <<status, result_sheets>>
    <3>1. Outcome' = Outcome  BY <2>4
    <3> QED  BY <2>4, <3>1 DEF Promise!vars, Outcome
  <2> QED
    BY <2>1, <2>2, <2>3, <2>4
       DEF Next, AddOfficer, SetOfficerState, Countersign, MakeCheckpoint, vars
<1> QED
  BY <1>1, <1>2, OutcomeIsOfRows, OutcomeInvHolds, PTL
     DEF Spec, ImplementsOneResult, Promise!Spec

-----------------------------------------------------------------------------
(* The Merkle tree: induction. *)

(* Induction over 0..N, by sets instead of predicates: if some x is not in *)
(* T, taking one away is injective on what is below it and not in T.       *)
LEMMA UpTo ==
  ASSUME NEW N \in Nat, NEW T, \A n \in 0..N : 0..n - 1 \subseteq T => n \in T
  PROVE  0..N \subseteq T
<1> SUFFICES ASSUME NEW x \in 0..N, x \notin T PROVE FALSE  OBVIOUS
<1> DEFINE E == {n \in 0..x : ~ (0..n \subseteq T)}
           f == [n \in E |-> n - 1]
<1>1. x \in E /\ IsFiniteSet(E) /\ E \subseteq 0..x
  <2>1. IsFiniteSet(0..x)  BY FS_Interval
  <2>2. E \subseteq 0..x /\ x \in 0..x  OBVIOUS
  <2> QED  BY <2>1, <2>2, FS_Subset
<1>2. \A n \in E : n - 1 \in E \ {x}
  <2> SUFFICES ASSUME NEW n \in E PROVE n - 1 \in E \ {x}  OBVIOUS
  <2>1. n \in 0..x /\ n \in 0..N  OBVIOUS
  <2>2. CASE 0..n - 1 \subseteq T
    <3>1. n \in T  BY <2>1, <2>2
    <3>2. 0..n \subseteq T  BY <2>1, <2>2, <3>1
    <3> QED  BY <3>2
  <2>3. CASE ~ (0..n - 1 \subseteq T)
    <3>1. n # 0  BY <2>3
    <3> QED  BY <2>1, <2>3, <3>1
  <2> QED  BY <2>2, <2>3
<1>3. f \in [E -> E \ {x}] /\ \A n \in E : f[n] = n - 1  BY <1>2
<1>4. IsFiniteSet(E \ {x}) /\ Cardinality(E \ {x}) = Cardinality(E) - 1
  BY <1>1, FS_RemoveElement
<1>5. Cardinality(E) \in Nat  BY <1>1, FS_CardinalityType
<1>6. Cardinality(E \ {x}) < Cardinality(E)  BY <1>4, <1>5
<1>7. \A m, n \in E : m - 1 = n - 1 => m = n  BY <1>1
<1> DEFINE M == E \ {x}
<1> HIDE DEF E, f, M
<1>8. \E m, n \in E : m # n /\ f[m] = f[n]
  <2>1. IsFiniteSet(M) /\ Cardinality(M) < Cardinality(E) /\ f \in [E -> M]
    BY <1>3, <1>4, <1>6 DEF M
  <2> QED  BY <1>1, <2>1, FS_PigeonHole
<1> QED  BY <1>3, <1>7, <1>8

-----------------------------------------------------------------------------
(* _split *)

SplitStep(g, n) == [i \in 1..n - 1 |-> IF i * 2 < n THEN g[i * 2] ELSE i]

(* The recursion defines a function: Doubled is what its body says. *)
LEMMA DoubledDef ==
  ASSUME NEW n \in Nat, n > 1
  PROVE  Doubled(n) = SplitStep(Doubled(n), n)
<1> DEFINE I == 1..n - 1
           T == {j \in 0..n : \E g : \A i \in I : i >= n - j =>
                                g[i] = IF i * 2 < n THEN g[i * 2] ELSE i}
<1>1. ASSUME NEW j \in 0..n, 0..j - 1 \subseteq T PROVE j \in T
  <2>1. CASE j = 0
    <3>1. \A i \in I : ~ (i >= n - j)  BY <2>1
    <3> QED  BY <3>1
  <2>2. CASE j # 0
    <3>1. j - 1 \in T
      <4>1. j - 1 \in 0..j - 1  BY <2>2
      <4> QED  BY <1>1, <4>1
    <3> PICK g : \A i \in I : i >= n - (j - 1) => g[i] = IF i * 2 < n THEN g[i * 2] ELSE i
      BY <3>1
    <3> DEFINE h == SplitStep(g, n)
    <3>2. ASSUME NEW i \in I, i >= n - j PROVE h[i] = IF i * 2 < n THEN h[i * 2] ELSE i
      <4>1. CASE i * 2 < n
        <5>1. i * 2 \in I /\ i * 2 >= n - (j - 1)  BY <3>2, <4>1
        <5>2. g[i * 2] = h[i * 2]  BY <5>1 DEF SplitStep
        <5> QED  BY <4>1, <5>2 DEF SplitStep
      <4>2. CASE ~ (i * 2 < n)  BY <4>2 DEF SplitStep
      <4> QED  BY <4>1, <4>2
    <3> HIDE DEF h
    <3> QED  BY <3>2
  <2> QED  BY <2>1, <2>2
<1>2. n \in T
  <2> HIDE DEF T
  <2>1. 0..n \subseteq T  BY <1>1, UpTo
  <2> QED  BY <2>1
<1> PICK g : \A i \in I : g[i] = IF i * 2 < n THEN g[i * 2] ELSE i  BY <1>2
<1> DEFINE f == [i \in I |-> g[i]]
<1>3. \A i \in I : f[i] = IF i * 2 < n THEN f[i * 2] ELSE i
  <2> SUFFICES ASSUME NEW i \in I PROVE f[i] = IF i * 2 < n THEN f[i * 2] ELSE i  OBVIOUS
  <2>1. i * 2 < n => i * 2 \in I  OBVIOUS
  <2> QED  BY <2>1
<1>4. f = [i \in I |-> f[i]]  OBVIOUS
<1> HIDE DEF f
<1>5. f = [i \in I |-> IF i * 2 < n THEN f[i * 2] ELSE i]  BY <1>3, <1>4
<1> QED  BY <1>5 DEF Doubled, SplitStep

(* The doubling stays in the range it is asked of. *)
LEMMA DoubledIn ==
  ASSUME NEW n \in Nat, n > 1
  PROVE  \A i \in 1..n - 1 : /\ Doubled(n)[i] \in 1..n - 1
                             /\ Doubled(n)[i] = IF i * 2 < n THEN Doubled(n)[i * 2] ELSE i
<1> DEFINE d == Doubled(n)
           T == {j \in 0..n : \A i \in 1..n - 1 : i >= n - j => d[i] \in 1..n - 1}
<1>1. \A i \in 1..n - 1 : d[i] = IF i * 2 < n THEN d[i * 2] ELSE i
  BY DoubledDef DEF SplitStep
<1> HIDE DEF d
<1>2. ASSUME NEW j \in 0..n, 0..j - 1 \subseteq T PROVE j \in T
  <2> SUFFICES ASSUME NEW i \in 1..n - 1, i >= n - j PROVE d[i] \in 1..n - 1  OBVIOUS
  <2>1. j # 0 /\ j - 1 \in T  BY <1>2
  <2>2. i * 2 < n => i * 2 \in 1..n - 1 /\ i * 2 >= n - (j - 1)  OBVIOUS
  <2> QED  BY <1>1, <2>1, <2>2
<1>3. n \in T
  <2> HIDE DEF T
  <2>1. 0..n \subseteq T  BY <1>2, UpTo
  <2> QED  BY <2>1
<1> QED  BY <1>1, <1>3 DEF d

(* Both parts of a split are smaller than the whole, and neither is empty. *)
LEMMA SplitIn ==
  ASSUME NEW n \in Nat, n > 1
  PROVE  _split(n) \in 1..n - 1 /\ n - _split(n) \in 1..n - 1
BY DoubledIn DEF _split

(* The split of the pairs is half the split of what is paired. *)
LEMMA SplitOfPairs ==
  ASSUME NEW n \in Nat, n > 2
  PROVE  _split(n) = 2 * _split((n + 1) \div 2)
<1> DEFINE c == (n + 1) \div 2
           T == {j \in 0..c : \A i \in 1..c - 1 : i >= c - j =>
                                Doubled(n)[2 * i] = 2 * Doubled(c)[i]}
<1>1. c \in Nat /\ c > 1 /\ n <= 2 * c /\ 2 * c <= n + 1  OBVIOUS
<1> HIDE DEF c
<1>2. ASSUME NEW j \in 0..c, 0..j - 1 \subseteq T PROVE j \in T
  <2> SUFFICES ASSUME NEW i \in 1..c - 1, i >= c - j
               PROVE  Doubled(n)[2 * i] = 2 * Doubled(c)[i]
    OBVIOUS
  <2>1. j # 0 /\ j - 1 \in T
    <3>1. j # 0 /\ j - 1 \in 0..j - 1  BY <1>1
    <3> QED  BY <1>2, <3>1
  <2>2. 2 * i \in 1..n - 1 /\ (2 * i * 2 < n <=> i * 2 < c)  BY <1>1
  <2>3. /\ Doubled(n)[2 * i] = IF 2 * i * 2 < n THEN Doubled(n)[2 * i * 2] ELSE 2 * i
        /\ Doubled(c)[i] = IF i * 2 < c THEN Doubled(c)[i * 2] ELSE i
    BY <1>1, <2>2, DoubledIn
  <2>4. CASE i * 2 < c
    <3>1. i * 2 \in 1..c - 1 /\ i * 2 >= c - (j - 1) /\ 2 * i * 2 = 2 * (i * 2)
      BY <1>1, <2>4
    <3>2. Doubled(n)[2 * (i * 2)] = 2 * Doubled(c)[i * 2]  BY <2>1, <3>1
    <3> QED  BY <2>2, <2>3, <2>4, <3>1, <3>2
  <2>5. CASE ~ (i * 2 < c)  BY <2>2, <2>3, <2>5
  <2> QED  BY <2>4, <2>5
<1>3. c \in T
  <2> HIDE DEF T
  <2>1. 0..c \subseteq T  BY <1>1, <1>2, UpTo
  <2> QED  BY <1>1, <2>1
<1>4. Doubled(n)[2 * 1] = 2 * Doubled(c)[1]
  <2>1. 1 \in 1..c - 1 /\ 1 >= c - c  BY <1>1
  <2> QED  BY <1>3, <2>1
<1>5. Doubled(n)[1] = Doubled(n)[1 * 2]
  <2>1. 1 \in 1..n - 1 /\ 1 * 2 < n  OBVIOUS
  <2> QED  BY <2>1, DoubledIn
<1>6. Doubled(n)[1] = 2 * Doubled(c)[1]  BY <1>4, <1>5, 1 * 2 = 2 * 1
<1> QED  BY <1>6 DEF _split, c

-----------------------------------------------------------------------------
(* Bytes. *)

(* The digests are strings of one token; no byte string is a token. *)
Digest(d) == d = <<d[1]>>

(* SHA-256 is collision free, and no digest is None. *)
LEMMA Sha256 ==
  /\ \A b : Digest(sha256(b)) /\ sha256(b) # None
  /\ \A b, c : sha256(b) = sha256(c) => b = c
<1>1. \A b : sha256(b)[1] = <<"sha256", b>>  BY DEF sha256
<1>2. \A b : Digest(sha256(b))  BY DEF sha256, Digest
<1>3. \A b : sha256(b) # None
  <2> SUFFICES ASSUME NEW b, sha256(b) = None PROVE FALSE  OBVIOUS
  <2>1. None[1] = <<"none", 0>>  BY DEF None
  <2>2. <<"sha256", b>>[1] = "sha256" /\ <<"none", 0>>[1] = "none"  OBVIOUS
  <2> QED  BY <1>1, <2>1, <2>2
<1>4. \A b, c : sha256(b) = sha256(c) => b = c
  <2> SUFFICES ASSUME NEW b, NEW c, sha256(b) = sha256(c) PROVE b = c  OBVIOUS
  <2>1. <<"sha256", b>> = <<"sha256", c>>  BY <1>1
  <2> QED  BY <2>1
<1> QED  BY <1>2, <1>3, <1>4

(* What a node hashes: the prefix and the two digests, one token each. *)
LEMMA NodeBytes ==
  ASSUME NEW l, Digest(l), NEW r, Digest(r)
  PROVE  /\ Len(Byte(1) \o l \o r) = 3 /\ (Byte(1) \o l \o r)[1] = <<"byte", 1>>
         /\ (Byte(1) \o l \o r)[2] = l[1] /\ (Byte(1) \o l \o r)[3] = r[1]
<1> DEFINE t == <<"byte", 1>>
           S == {t, l[1], r[1]}
<1>1. <<t>> \in Seq(S) /\ l \in Seq(S) /\ r \in Seq(S) /\ Len(l) = 1 /\ Len(r) = 1
  <2>1. <<t>> \in Seq(S) /\ <<l[1]>> \in Seq(S) /\ <<r[1]>> \in Seq(S)  OBVIOUS
  <2> QED  BY <2>1 DEF Digest
<1> HIDE DEF t, S
<1>2. Len(<<t>>) = 1 /\ <<t>>[1] = t  OBVIOUS
<1>3. /\ <<t>> \o l \in Seq(S) /\ Len(<<t>> \o l) = 2
      /\ (<<t>> \o l)[1] = t /\ (<<t>> \o l)[2] = l[1]
  BY <1>1, <1>2, ConcatProperties
<1> DEFINE tl == <<t>> \o l
<1> HIDE DEF tl
<1>4. Len(tl \o r) = 3 /\ (tl \o r)[1] = t /\ (tl \o r)[2] = l[1] /\ (tl \o r)[3] = r[1]
  <2>1. tl \in Seq(S) /\ Len(tl) = 2 /\ tl[1] = t /\ tl[2] = l[1]  BY <1>3 DEF tl
  <2> QED  BY <1>1, <2>1, ConcatProperties
<1> QED  BY <1>4 DEF Byte, t, tl

(* What a leaf hashes: the prefix and its bytes. *)
LEMMA LeafBytes ==
  ASSUME NEW S, NEW d \in Seq(S)
  PROVE  /\ Len(Byte(0) \o d) = Len(d) + 1 /\ (Byte(0) \o d)[1] = <<"byte", 0>>
         /\ SubSeq(Byte(0) \o d, 2, Len(Byte(0) \o d)) = d
<1> DEFINE t == <<"byte", 0>>
           R == S \cup {t}
<1>1. <<t>> \in Seq(R) /\ d \in Seq(R) /\ Len(d) \in Nat
  <2>1. <<t>> \in Seq(R)  OBVIOUS
  <2>2. \A i \in 1..Len(d) : d[i] \in R  OBVIOUS
  <2> QED  BY <2>1, <2>2
<1> HIDE DEF t, R
<1> DEFINE b == <<t>> \o d
<1>2. b \in Seq(R) /\ Len(b) = Len(d) + 1 /\ b[1] = t /\ \A i \in 1..Len(d) : b[i + 1] = d[i]
  BY <1>1
<1> HIDE DEF b
<1> DEFINE e == SubSeq(b, 2, Len(b))
<1>3. e \in Seq(R) /\ Len(e) = Len(d) /\ \A i \in 1..Len(d) : e[i] = b[i + 1]
  BY <1>1, <1>2
<1> HIDE DEF e
<1>4. e = d  BY <1>1, <1>2, <1>3, SeqEqual
<1> QED  BY <1>2, <1>4 DEF Byte, t, b, e

(* Nodes are of one pair each, leaves of one string each, and no node is a *)
(* leaf or nothing.                                                        *)
LEMMA NodesDiffer ==
  ASSUME NEW l, Digest(l), NEW r, Digest(r), NEW ll, Digest(ll), NEW rr, Digest(rr),
         _node(l, r) = _node(ll, rr)
  PROVE  l = ll /\ r = rr
<1>1. Byte(1) \o l \o r = Byte(1) \o ll \o rr  BY Sha256 DEF _node
<1>2. l[1] = ll[1] /\ r[1] = rr[1]  BY <1>1, NodeBytes
<1> QED  BY <1>2 DEF Digest

(* Leaves with the same hash have the same bytes. *)
LEMMA LeavesDiffer ==
  ASSUME NEW S, NEW d \in Seq(S), NEW e \in Seq(S), _leaf(d) = _leaf(e)
  PROVE  d = e
<1>1. Byte(0) \o d = Byte(0) \o e  BY Sha256 DEF _leaf
<1>2. SubSeq(Byte(0) \o d, 2, Len(Byte(0) \o d)) = d  BY LeafBytes
<1>3. SubSeq(Byte(0) \o e, 2, Len(Byte(0) \o e)) = e  BY LeafBytes
<1> QED  BY <1>1, <1>2, <1>3

(* The prefix tells every leaf from every node. *)
LEMMA LeafNoNode ==
  ASSUME NEW S, NEW d \in Seq(S), NEW l, Digest(l), NEW r, Digest(r)
  PROVE  _leaf(d) # _node(l, r)
<1> SUFFICES ASSUME _leaf(d) = _node(l, r) PROVE FALSE  OBVIOUS
<1>1. Byte(0) \o d = Byte(1) \o l \o r  BY Sha256 DEF _leaf, _node
<1>2. <<"byte", 0>> = <<"byte", 1>>  BY <1>1, NodeBytes, LeafBytes
<1> QED  BY <1>2

(* The empty tree has a root no other tree has. *)
LEMMA EmptyIsAlone ==
  /\ \A S : \A d \in Seq(S) : sha256(<< >>) # _leaf(d)
  /\ \A l, r : Digest(l) /\ Digest(r) => sha256(<< >>) # _node(l, r)
<1>1. ASSUME NEW S, NEW d \in Seq(S), sha256(<< >>) = _leaf(d) PROVE FALSE
  <2>1. << >> = Byte(0) \o d  BY <1>1, Sha256 DEF _leaf
  <2>2. Len(<< >>) = 0 /\ Len(d) \in Nat  OBVIOUS
  <2> QED  BY <2>1, <2>2, LeafBytes
<1>2. ASSUME NEW l, NEW r, Digest(l), Digest(r), sha256(<< >>) = _node(l, r) PROVE FALSE
  <2>1. << >> = Byte(1) \o l \o r  BY <1>2, Sha256 DEF _node
  <2>2. Len(<< >>) = 0  OBVIOUS
  <2> QED  BY <1>2, <2>1, <2>2, NodeBytes
<1> QED  BY <1>1, <1>2

-----------------------------------------------------------------------------
(* The functions of merkle.py are defined.                                 *)
(*                                                                         *)
(* Each is the CHOOSE of a function that satisfies its equation, of which  *)
(* there is one: defined up to n, it is defined for n + 1 by its equation. *)

RootStep(g, hashes, n) ==
  [s \in 0..Len(hashes) |->
     IF n = 0 THEN sha256(<< >>)
     ELSE IF n = 1 THEN hashes[s + 1]
     ELSE _node(g[_split(n)][s], g[n - _split(n)][s + _split(n)])]

(* A step looks at smaller slices only. *)
LEMMA RootStepLocal ==
  ASSUME NEW hashes, NEW n \in Nat, NEW g, NEW h, \A i \in 0..n - 1 : h[i] = g[i]
  PROVE  RootStep(h, hashes, n) = RootStep(g, hashes, n)
<1>1. n > 1 => _split(n) \in 0..n - 1 /\ n - _split(n) \in 0..n - 1  BY SplitIn
<1>2. n > 1 => h[_split(n)] = g[_split(n)] /\ h[n - _split(n)] = g[n - _split(n)]
  BY <1>1
<1>3. n = 0 \/ n = 1 \/ n > 1  OBVIOUS
<1> QED  BY <1>2, <1>3 DEF RootStep

(* The recursion over the size of slices defines a function. *)
LEMMA RootsDef ==
  ASSUME NEW hashes, Len(hashes) \in Nat
  PROVE  \A n \in 0..Len(hashes) : Roots(hashes)[n] = RootStep(Roots(hashes), hashes, n)
<1> DEFINE N == Len(hashes)
           T == {m \in 0..N : \E g : \A n \in 0..m : g[n] = RootStep(g, hashes, n)}
<1>1. ASSUME NEW m \in 0..N, 0..m - 1 \subseteq T PROVE m \in T
  <2>1. PICK g : \A n \in 0..m - 1 : g[n] = RootStep(g, hashes, n)
    <3>1. CASE m = 0  BY <3>1
    <3>2. CASE m # 0
      <4>1. m - 1 \in 0..m - 1  BY <3>2
      <4> QED  BY <1>1, <4>1
    <3> QED  BY <3>1, <3>2
  <2> DEFINE h == [n \in 0..N |-> RootStep(g, hashes, n)]
  <2>2. \A n \in 0..m - 1 : h[n] = g[n]  BY <2>1
  <2>3. ASSUME NEW n \in 0..m PROVE h[n] = RootStep(h, hashes, n)
    <3>1. h[n] = RootStep(g, hashes, n)  OBVIOUS
    <3> HIDE DEF h
    <3>2. \A i \in 0..n - 1 : h[i] = g[i]  BY <2>2
    <3> QED  BY <3>1, <3>2, RootStepLocal
  <2> HIDE DEF h
  <2> QED  BY <2>3
<1>2. N \in T
  <2> HIDE DEF T
  <2>1. 0..N \subseteq T  BY <1>1, UpTo
  <2> QED  BY <2>1
<1> PICK g : \A n \in 0..N : g[n] = RootStep(g, hashes, n)  BY <1>2
<1> DEFINE f == [n \in 0..N |-> g[n]]
<1>3. \A n \in 0..N : f[n] = g[n]  OBVIOUS
<1>4. f = [n \in 0..N |-> f[n]]  OBVIOUS
<1> HIDE DEF f
<1>5. \A n \in 0..N : f[n] = RootStep(f, hashes, n)
  <2> SUFFICES ASSUME NEW n \in 0..N PROVE f[n] = RootStep(f, hashes, n)  OBVIOUS
  <2>1. \A i \in 0..n - 1 : f[i] = g[i]  BY <1>3
  <2>2. RootStep(f, hashes, n) = RootStep(g, hashes, n)  BY <2>1, RootStepLocal
  <2> QED  BY <1>3, <2>2
<1>6. f = [n \in 0..N |-> RootStep(f, hashes, n)]  BY <1>4, <1>5
<1>7. \E r : r = [n \in 0..N |-> RootStep(r, hashes, n)]  BY <1>6
<1>8. Roots(hashes) = [n \in 0..N |-> RootStep(Roots(hashes), hashes, n)]
  <2> DEFINE c == CHOOSE r : r = [n \in 0..N |-> RootStep(r, hashes, n)]
  <2>1. Roots(hashes) = c  BY DEF Roots, RootStep
  <2>2. c = [n \in 0..N |-> RootStep(c, hashes, n)]  BY <1>7
  <2> QED  BY <2>1, <2>2
<1> DEFINE R == Roots(hashes)
<1>9. R = [n \in 0..N |-> RootStep(R, hashes, n)]  BY <1>8
<1> HIDE DEF R
<1> QED  BY <1>9 DEF R

(* The roots of slices, by size, as merkle.root states them. *)
LEMMA RootOf ==
  ASSUME NEW hashes, Len(hashes) \in Nat, NEW s \in 0..Len(hashes)
  PROVE  /\ Roots(hashes)[0][s] = sha256(<< >>)
         /\ Len(hashes) > 0 => Roots(hashes)[1][s] = hashes[s + 1]
         /\ \A n \in 2..Len(hashes) :
              Roots(hashes)[n][s] = _node(Roots(hashes)[_split(n)][s],
                                     Roots(hashes)[n - _split(n)][s + _split(n)])
<1> DEFINE N == Len(hashes)
           R == Roots(hashes)
<1>1. \A n \in 0..N : R[n] = RootStep(R, hashes, n)  BY RootsDef
<1> HIDE DEF R
<1>2. R[0][s] = sha256(<< >>)
  <2>1. R[0] = RootStep(R, hashes, 0)  BY <1>1
  <2> QED  BY <2>1 DEF RootStep
<1>3. N > 0 => R[1][s] = hashes[s + 1]
  <2>1. N > 0 => R[1] = RootStep(R, hashes, 1)  BY <1>1
  <2> QED  BY <2>1 DEF RootStep
<1>4. ASSUME NEW n \in 2..N
      PROVE  R[n][s] = _node(R[_split(n)][s], R[n - _split(n)][s + _split(n)])
  <2>1. R[n] = RootStep(R, hashes, n)  BY <1>1
  <2>2. n # 0 /\ n # 1  OBVIOUS
  <2> QED  BY <2>1, <2>2 DEF RootStep
<1> QED  BY <1>2, <1>3, <1>4 DEF R

ProofStep(g, hashes, n) ==
  [s \in 0..Len(hashes) |-> [m \in 0..Len(hashes) |->
     IF n <= 1 THEN << >>
     ELSE IF m < _split(n)
       THEN Append(g[_split(n)][s][m], Roots(hashes)[n - _split(n)][s + _split(n)])
       ELSE Append(g[n - _split(n)][s + _split(n)][m - _split(n)],
                   Roots(hashes)[_split(n)][s])]]

(* A path of n leaves is built from paths of fewer. *)
LEMMA ProofStepLocal ==
  ASSUME NEW hashes, NEW n \in Nat, NEW g, NEW h, \A i \in 0..n - 1 : h[i] = g[i]
  PROVE  ProofStep(h, hashes, n) = ProofStep(g, hashes, n)
<1>1. n > 1 => _split(n) \in 0..n - 1 /\ n - _split(n) \in 0..n - 1  BY SplitIn
<1>2. n > 1 => h[_split(n)] = g[_split(n)] /\ h[n - _split(n)] = g[n - _split(n)]
  BY <1>1
<1>3. n <= 1 \/ n > 1  OBVIOUS
<1> QED  BY <1>2, <1>3 DEF ProofStep

(* The recursion over the size of slices defines the paths. *)
LEMMA ProofsDef ==
  ASSUME NEW hashes, Len(hashes) \in Nat
  PROVE  \A n \in 0..Len(hashes) : Proofs(hashes)[n] = ProofStep(Proofs(hashes), hashes, n)
<1> DEFINE N == Len(hashes)
           T == {m \in 0..N : \E g : \A n \in 0..m : g[n] = ProofStep(g, hashes, n)}
<1>1. ASSUME NEW m \in 0..N, 0..m - 1 \subseteq T PROVE m \in T
  <2>1. PICK g : \A n \in 0..m - 1 : g[n] = ProofStep(g, hashes, n)
    <3>1. CASE m = 0  BY <3>1
    <3>2. CASE m # 0
      <4>1. m - 1 \in 0..m - 1  BY <3>2
      <4> QED  BY <1>1, <4>1
    <3> QED  BY <3>1, <3>2
  <2> DEFINE h == [n \in 0..N |-> ProofStep(g, hashes, n)]
  <2>2. \A n \in 0..m - 1 : h[n] = g[n]  BY <2>1
  <2>3. ASSUME NEW n \in 0..m PROVE h[n] = ProofStep(h, hashes, n)
    <3>1. h[n] = ProofStep(g, hashes, n)  OBVIOUS
    <3> HIDE DEF h
    <3>2. \A i \in 0..n - 1 : h[i] = g[i]  BY <2>2
    <3> QED  BY <3>1, <3>2, ProofStepLocal
  <2> HIDE DEF h
  <2> QED  BY <2>3
<1>2. N \in T
  <2> HIDE DEF T
  <2>1. 0..N \subseteq T  BY <1>1, UpTo
  <2> QED  BY <2>1
<1> PICK g : \A n \in 0..N : g[n] = ProofStep(g, hashes, n)  BY <1>2
<1> DEFINE f == [n \in 0..N |-> g[n]]
<1>3. \A n \in 0..N : f[n] = g[n]  OBVIOUS
<1>4. f = [n \in 0..N |-> f[n]]  OBVIOUS
<1> HIDE DEF f
<1>5. \A n \in 0..N : f[n] = ProofStep(f, hashes, n)
  <2> SUFFICES ASSUME NEW n \in 0..N PROVE f[n] = ProofStep(f, hashes, n)  OBVIOUS
  <2>1. \A i \in 0..n - 1 : f[i] = g[i]  BY <1>3
  <2>2. ProofStep(f, hashes, n) = ProofStep(g, hashes, n)  BY <2>1, ProofStepLocal
  <2> QED  BY <1>3, <2>2
<1>6. f = [n \in 0..N |-> ProofStep(f, hashes, n)]  BY <1>4, <1>5
<1>7. \E r : r = [n \in 0..N |-> ProofStep(r, hashes, n)]  BY <1>6
<1>8. Proofs(hashes) = [n \in 0..N |-> ProofStep(Proofs(hashes), hashes, n)]
  <2> DEFINE c == CHOOSE r : r = [n \in 0..N |-> ProofStep(r, hashes, n)]
  <2>1. Proofs(hashes) = c  BY DEF Proofs, ProofStep
  <2>2. c = [n \in 0..N |-> ProofStep(c, hashes, n)]  BY <1>7
  <2> QED  BY <2>1, <2>2
<1> DEFINE P == Proofs(hashes)
<1>9. P = [n \in 0..N |-> ProofStep(P, hashes, n)]  BY <1>8
<1> HIDE DEF P
<1> QED  BY <1>9 DEF P

(* The paths in slices, by size, as merkle.proof states them. *)
LEMMA ProofOf ==
  ASSUME NEW hashes, Len(hashes) \in Nat, NEW s \in 0..Len(hashes), NEW m \in 0..Len(hashes)
  PROVE  /\ Len(hashes) > 0 => Proofs(hashes)[1][s][m] = << >>
         /\ \A n \in 2..Len(hashes) : m < _split(n) =>
              Proofs(hashes)[n][s][m] = Append(Proofs(hashes)[_split(n)][s][m],
                                             Roots(hashes)[n - _split(n)][s + _split(n)])
         /\ \A n \in 2..Len(hashes) : ~ (m < _split(n)) =>
              Proofs(hashes)[n][s][m] =
                Append(Proofs(hashes)[n - _split(n)][s + _split(n)][m - _split(n)],
                       Roots(hashes)[_split(n)][s])
<1> DEFINE N == Len(hashes)
           P == Proofs(hashes)
           R == Roots(hashes)
<1>1. \A n \in 0..N : P[n] = ProofStep(P, hashes, n)  BY ProofsDef
<1> HIDE DEF P
<1>2. ASSUME NEW n \in 2..N, NEW k, k = _split(n)
      PROVE  P[n][s][m] = IF m < k THEN Append(P[k][s][m], R[n - k][s + k])
                          ELSE Append(P[n - k][s + k][m - k], R[k][s])
  <2>1. P[n] = ProofStep(P, hashes, n)  BY <1>1
  <2>2. ~ (n <= 1)  OBVIOUS
  <2> QED  BY <1>2, <2>1, <2>2 DEF ProofStep
<1>3. N > 0 => P[1][s][m] = << >>
  <2>1. N > 0 => P[1] = ProofStep(P, hashes, 1)  BY <1>1
  <2> QED  BY <2>1 DEF ProofStep
<1>4. ASSUME NEW n \in 2..N, m < _split(n)
      PROVE  P[n][s][m] = Append(P[_split(n)][s][m], R[n - _split(n)][s + _split(n)])
  <2> DEFINE k == _split(n)
  <2>1. k = _split(n) /\ m < k  BY <1>4
  <2> HIDE DEF k
  <2>2. P[n][s][m] = Append(P[k][s][m], R[n - k][s + k])  BY <1>2, <2>1
  <2> QED  BY <2>1, <2>2
<1>5. ASSUME NEW n \in 2..N, ~ (m < _split(n))
      PROVE  P[n][s][m] = Append(P[n - _split(n)][s + _split(n)][m - _split(n)],
                                 R[_split(n)][s])
  <2> DEFINE k == _split(n)
  <2>1. k = _split(n) /\ ~ (m < k)  BY <1>5
  <2> HIDE DEF k
  <2>2. P[n][s][m] = Append(P[n - k][s + k][m - k], R[k][s])  BY <1>2, <2>1
  <2> QED  BY <2>1, <2>2
<1> QED  BY <1>3, <1>4, <1>5 DEF P

(* What is left of the path decides, and the elements before it are as they were. *)
Sub(h, m, n) ==
  IF m < _split(n) THEN h[m][_split(n)] ELSE h[m - _split(n)][n - _split(n)]

Joined(h, x, m, n) ==
  IF n = 1 \/ Sub(h, m, n) = None THEN None
  ELSE IF m < _split(n) THEN _node(Sub(h, m, n), x) ELSE _node(x, Sub(h, m, n))

FromStep(g, a, path, j) ==
  [m \in Nat |-> [n \in Nat |->
     IF n = 1 THEN IF j = 0 THEN a ELSE None
     ELSE IF j = 0 \/ Sub(g[j - 1], m, n) = None THEN None
     ELSE IF m < _split(n) THEN _node(Sub(g[j - 1], m, n), path[j])
     ELSE _node(path[j], Sub(g[j - 1], m, n))]]

(* What is rebuilt from j elements depends on the first j alone. *)
LEMMA FromStepLocal ==
  ASSUME NEW a, NEW p, NEW q, NEW j \in Nat, NEW g, NEW h,
         j # 0 => h[j - 1] = g[j - 1] /\ q[j] = p[j]
  PROVE  FromStep(h, a, q, j) = FromStep(g, a, p, j)
<1>1. j # 0 => \A m, n : Sub(h[j - 1], m, n) = Sub(g[j - 1], m, n)  OBVIOUS
<1> QED  BY <1>1 DEF FromStep

(* The recursion over the length of the path defines a function. *)
LEMMA FromDef ==
  ASSUME NEW a, NEW path, Len(path) \in Nat
  PROVE  \E f : /\ _from_proof(a, path) = f[Len(path)]
                /\ \A j \in 0..Len(path) : f[j] = FromStep(f, a, path, j)
<1> DEFINE N == Len(path)
           T == {m \in 0..N : \E g : \A j \in 0..m : g[j] = FromStep(g, a, path, j)}
<1>1. ASSUME NEW m \in 0..N, 0..m - 1 \subseteq T PROVE m \in T
  <2>1. PICK g : \A j \in 0..m - 1 : g[j] = FromStep(g, a, path, j)
    <3>1. CASE m = 0  BY <3>1
    <3>2. CASE m # 0
      <4>1. m - 1 \in 0..m - 1  BY <3>2
      <4> QED  BY <1>1, <4>1
    <3> QED  BY <3>1, <3>2
  <2> DEFINE h == [j \in 0..N |-> FromStep(g, a, path, j)]
  <2>2. \A j \in 0..m - 1 : h[j] = g[j]  BY <2>1
  <2>3. ASSUME NEW j \in 0..m PROVE h[j] = FromStep(h, a, path, j)
    <3>1. h[j] = FromStep(g, a, path, j)  OBVIOUS
    <3> HIDE DEF h
    <3>2. j # 0 => h[j - 1] = g[j - 1]  BY <2>2
    <3> QED  BY <3>1, <3>2, FromStepLocal
  <2> HIDE DEF h
  <2> QED  BY <2>3
<1>2. N \in T
  <2> HIDE DEF T
  <2>1. 0..N \subseteq T  BY <1>1, UpTo
  <2> QED  BY <2>1
<1> PICK g : \A j \in 0..N : g[j] = FromStep(g, a, path, j)  BY <1>2
<1> DEFINE f == [j \in 0..N |-> g[j]]
<1>3. \A j \in 0..N : f[j] = g[j]  OBVIOUS
<1>4. f = [j \in 0..N |-> f[j]]  OBVIOUS
<1> HIDE DEF f
<1>5. \A j \in 0..N : f[j] = FromStep(f, a, path, j)
  <2> SUFFICES ASSUME NEW j \in 0..N PROVE f[j] = FromStep(f, a, path, j)  OBVIOUS
  <2>1. j # 0 => f[j - 1] = g[j - 1]  BY <1>3
  <2>2. FromStep(f, a, path, j) = FromStep(g, a, path, j)  BY <2>1, FromStepLocal
  <2> QED  BY <1>3, <2>2
<1>6. f = [j \in 0..N |-> FromStep(f, a, path, j)]  BY <1>4, <1>5
<1> DEFINE c == CHOOSE r : r = [j \in 0..N |-> FromStep(r, a, path, j)]
<1>7. c = [j \in 0..N |-> FromStep(c, a, path, j)]  BY <1>6
<1>8. _from_proof(a, path) = c[N]  BY DEF _from_proof, FromStep, Sub
<1> HIDE DEF c
<1> QED  BY <1>7, <1>8

(* The last element of the path is the sibling of the topmost split. *)
LEMMA FromNothing ==
  ASSUME NEW a, NEW m \in Nat, NEW n \in Nat
  PROVE  _from_proof(a, << >>)[m][n] = IF n = 1 THEN a ELSE None
<1>1. Len(<< >>) = 0  OBVIOUS
<1>2. PICK f : _from_proof(a, << >>) = f[0] /\ f[0] = FromStep(f, a, << >>, 0)
  BY <1>1, FromDef
<1> QED  BY <1>2 DEF FromStep

(* The last element of a path is joined to what the rest of it rebuilds. *)
LEMMA FromAppend ==
  ASSUME NEW a, NEW S, NEW p \in Seq(S), NEW x \in S, NEW m \in Nat, NEW n \in Nat
  PROVE  _from_proof(a, Append(p, x))[m][n] = Joined(_from_proof(a, p), x, m, n)
<1> DEFINE q == Append(p, x)
           N == Len(p)
<1>1. N \in Nat /\ Len(q) = N + 1 /\ q[N + 1] = x /\ \A i \in 1..N : q[i] = p[i]
  OBVIOUS
<1> HIDE DEF q, N
<1>2. PICK f : _from_proof(a, p) = f[N] /\ \A j \in 0..N : f[j] = FromStep(f, a, p, j)
  BY <1>1, FromDef DEF N
<1>3. PICK g : /\ _from_proof(a, q) = g[N + 1]
               /\ \A j \in 0..N + 1 : g[j] = FromStep(g, a, q, j)
  BY <1>1, FromDef
<1> DEFINE T == {j \in 0..N : g[j] = f[j]}
<1>4. ASSUME NEW j \in 0..N, 0..j - 1 \subseteq T PROVE j \in T
  <2>1. j # 0 => g[j - 1] = f[j - 1]
    <3>1. j # 0 => j - 1 \in 0..j - 1  BY <1>1
    <3> QED  BY <1>4, <3>1
  <2>2. j # 0 => q[j] = p[j]  BY <1>1
  <2>3. FromStep(g, a, q, j) = FromStep(f, a, p, j)  BY <1>1, <2>1, <2>2, FromStepLocal
  <2>4. j \in 0..N + 1  BY <1>1
  <2> QED  BY <1>2, <1>3, <2>3, <2>4
<1>5. g[N + 1 - 1] = _from_proof(a, p)
  <2> HIDE DEF T
  <2>1. 0..N \subseteq T  BY <1>1, <1>4, UpTo
  <2>2. N \in 0..N /\ N + 1 - 1 = N  BY <1>1
  <2>3. g[N] = f[N]  BY <2>1, <2>2 DEF T
  <2> QED  BY <1>2, <2>2, <2>3
<1>6. g[N + 1] = FromStep(g, a, q, N + 1)  BY <1>1, <1>3
<1> DEFINE sub == Sub(_from_proof(a, p), m, n)
<1>7. Sub(g[N + 1 - 1], m, n) = sub  BY <1>5
<1> HIDE DEF sub
<1>8. N + 1 # 0  BY <1>1
<1>9. FromStep(g, a, q, N + 1)[m][n] =
        IF n = 1 \/ sub = None THEN None
        ELSE IF m < _split(n) THEN _node(sub, x) ELSE _node(x, sub)
  BY <1>1, <1>7, <1>8 DEF FromStep
<1> QED  BY <1>3, <1>6, <1>9 DEF Joined, q, sub

-----------------------------------------------------------------------------
(* Roots. *)

(* The hashes of leaves, each of bytes from S. *)
Hashed(S, hashes) ==
  /\ Len(hashes) \in Nat
  /\ \A i \in 1..Len(hashes) : \E d \in Seq(S) : hashes[i] = _leaf(d)

(* The root of every slice is a digest. *)
LEMMA RootsAreDigests ==
  ASSUME NEW S, NEW hashes, Hashed(S, hashes)
  PROVE  \A n \in 0..Len(hashes) : \A s \in 0..Len(hashes) - n :
           Digest(Roots(hashes)[n][s]) /\ Roots(hashes)[n][s] # None
<1> DEFINE N == Len(hashes)
           R == Roots(hashes)
<1>1. N \in Nat  BY DEF Hashed
<1>2. \A s \in 0..N :
        /\ R[0][s] = sha256(<< >>)
        /\ N > 0 => R[1][s] = hashes[s + 1]
        /\ \A n \in 2..N : R[n][s] = _node(R[_split(n)][s], R[n - _split(n)][s + _split(n)])
  BY <1>1, RootOf
<1> HIDE DEF N, R
<1> SUFFICES ASSUME NEW n \in 0..N, NEW s \in 0..N - n PROVE \E b : R[n][s] = sha256(b)
  BY Sha256 DEF N, R
<1>3. s \in 0..N  BY <1>1
<1>4. CASE n = 0  BY <1>2, <1>3, <1>4
<1>5. CASE n = 1
  <2>1. R[1][s] = hashes[s + 1] /\ s + 1 \in 1..N  BY <1>1, <1>2, <1>3, <1>5
  <2> QED  BY <1>5, <2>1 DEF Hashed, _leaf, N
<1>6. CASE n > 1
  <2>1. n \in 2..N  BY <1>1, <1>6
  <2> QED  BY <1>2, <1>3, <2>1 DEF _node
<1> QED  BY <1>1, <1>4, <1>5, <1>6

(* The two halves of a slice of more than one leaf. *)
LEMMA RootSplits ==
  ASSUME NEW hashes, Len(hashes) \in Nat,
         NEW n \in 2..Len(hashes), NEW s \in 0..Len(hashes) - n
  PROVE  /\ _split(n) \in 1..n - 1 /\ n - _split(n) \in 1..n - 1
         /\ _split(n) \in 0..Len(hashes) /\ s \in 0..Len(hashes) - _split(n)
         /\ n - _split(n) \in 0..Len(hashes)
         /\ s + _split(n) \in 0..Len(hashes) - (n - _split(n))
         /\ Roots(hashes)[n][s] = _node(Roots(hashes)[_split(n)][s],
                                        Roots(hashes)[n - _split(n)][s + _split(n)])
<1>1. _split(n) \in 1..n - 1 /\ n - _split(n) \in 1..n - 1  BY SplitIn
<1>2. s \in 0..Len(hashes)  OBVIOUS
<1>3. Roots(hashes)[n][s] = _node(Roots(hashes)[_split(n)][s],
                                  Roots(hashes)[n - _split(n)][s + _split(n)])
  BY <1>2, RootOf
<1> QED  BY <1>1, <1>3

(* The n leaves after the first s, and the m leaves of h after the first t. *)
SameLeaves(g, n, s, h, m, t) == n = m /\ \A i \in 1..n : g[s + i] = h[t + i]

(* A root fixes the number, the hashes and the order of the leaves below it. *)
LEMMA RootsDiffer ==
  ASSUME NEW S, NEW g, Hashed(S, g), NEW h, Hashed(S, h),
         NEW n \in 0..Len(g), NEW s \in 0..Len(g) - n,
         NEW m \in 0..Len(h), NEW t \in 0..Len(h) - m,
         Roots(g)[n][s] = Roots(h)[m][t]
  PROVE  SameLeaves(g, n, s, h, m, t)
<1> DEFINE M == Len(g)
           Z == Len(h)
           G == Roots(g)
           H == Roots(h)
           T == {k \in 0..M : \A j \in 0..Z, v \in 0..M - k : \A w \in 0..Z - j :
                   G[k][v] = H[j][w] => k = j /\ \A i \in 1..k : g[v + i] = h[w + i]}
<1>1. M \in Nat /\ Z \in Nat  BY DEF Hashed
<1>2. /\ \A v \in 0..M : G[0][v] = sha256(<< >>) /\ (M > 0 => G[1][v] = g[v + 1])
      /\ \A w \in 0..Z : H[0][w] = sha256(<< >>) /\ (Z > 0 => H[1][w] = h[w + 1])
  BY <1>1, RootOf
<1>3. ASSUME NEW k \in 2..M, NEW v \in 0..M - k
      PROVE  /\ _split(k) \in 1..k - 1 /\ k - _split(k) \in 1..k - 1
             /\ _split(k) \in 0..M /\ v \in 0..M - _split(k)
             /\ k - _split(k) \in 0..M /\ v + _split(k) \in 0..M - (k - _split(k))
             /\ G[k][v] = _node(G[_split(k)][v], G[k - _split(k)][v + _split(k)])
  BY <1>1, RootSplits
<1>4. ASSUME NEW k \in 2..Z, NEW w \in 0..Z - k
      PROVE  /\ _split(k) \in 1..k - 1 /\ k - _split(k) \in 1..k - 1
             /\ _split(k) \in 0..Z /\ w \in 0..Z - _split(k)
             /\ k - _split(k) \in 0..Z /\ w + _split(k) \in 0..Z - (k - _split(k))
             /\ H[k][w] = _node(H[_split(k)][w], H[k - _split(k)][w + _split(k)])
  BY <1>1, RootSplits
<1>5. /\ \A k \in 0..M : \A v \in 0..M - k : Digest(G[k][v])
      /\ \A k \in 0..Z : \A w \in 0..Z - k : Digest(H[k][w])
  BY RootsAreDigests
<1>6. /\ \A i \in 1..M : \E d \in Seq(S) : g[i] = _leaf(d)
      /\ \A i \in 1..Z : \E d \in Seq(S) : h[i] = _leaf(d)
  BY DEF Hashed
<1> HIDE DEF M, Z, G, H
<1>7. ASSUME NEW k \in 0..M, 0..k - 1 \subseteq T PROVE k \in T
  <2> SUFFICES ASSUME NEW j \in 0..Z, NEW v \in 0..M - k, NEW w \in 0..Z - j,
                      G[k][v] = H[j][w]
               PROVE  k = j /\ \A i \in 1..k : g[v + i] = h[w + i]
    OBVIOUS
  <2>0. ASSUME NEW x \in 0..k - 1, NEW y \in 0..Z, NEW a \in 0..M - x, NEW b \in 0..Z - y,
               G[x][a] = H[y][b]
        PROVE  x = y /\ \A i \in 1..x : g[a + i] = h[b + i]
    <3>1. x \in T  BY <1>7
    <3> QED  BY <2>0, <3>1
  <2> HIDE DEF T
  <2>1. v \in 0..M /\ w \in 0..Z  BY <1>1
  <2>2. k = 0 => G[k][v] = sha256(<< >>)  BY <1>2, <2>1
  <2>3. j = 0 => H[j][w] = sha256(<< >>)  BY <1>2, <2>1
  <2>4. k = 1 => G[k][v] = g[v + 1] /\ \E d \in Seq(S) : G[k][v] = _leaf(d)
    <3>1. k = 1 => v + 1 \in 1..M /\ G[1][v] = g[v + 1]  BY <1>1, <1>2, <2>1
    <3> QED  BY <1>6, <3>1
  <2>5. j = 1 => H[j][w] = h[w + 1] /\ \E d \in Seq(S) : H[j][w] = _leaf(d)
    <3>1. j = 1 => w + 1 \in 1..Z /\ H[1][w] = h[w + 1]  BY <1>1, <1>2, <2>1
    <3> QED  BY <1>6, <3>1
  <2>6. k > 1 => \E a, b : Digest(a) /\ Digest(b) /\ G[k][v] = _node(a, b)
    <3> SUFFICES ASSUME k > 1 PROVE \E a, b : Digest(a) /\ Digest(b) /\ G[k][v] = _node(a, b)
      OBVIOUS
    <3>1. k \in 2..M  BY <1>1
    <3>2. Digest(G[_split(k)][v]) /\ Digest(G[k - _split(k)][v + _split(k)])
      BY <1>3, <1>5, <3>1
    <3> QED  BY <1>3, <3>1, <3>2
  <2>7. j > 1 => \E a, b : Digest(a) /\ Digest(b) /\ H[j][w] = _node(a, b)
    <3> SUFFICES ASSUME j > 1 PROVE \E a, b : Digest(a) /\ Digest(b) /\ H[j][w] = _node(a, b)
      OBVIOUS
    <3>1. j \in 2..Z  BY <1>1
    <3>2. Digest(H[_split(j)][w]) /\ Digest(H[j - _split(j)][w + _split(j)])
      BY <1>4, <1>5, <3>1
    <3> QED  BY <1>4, <3>1, <3>2
  <2>8. k = 0 <=> j = 0
    <3>1. \A d : d = sha256(<< >>) => /\ ~ \E e \in Seq(S) : d = _leaf(e)
                                      /\ ~ \E a, b : Digest(a) /\ Digest(b) /\ d = _node(a, b)
      BY EmptyIsAlone
    <3>2. (k = 0 \/ k = 1 \/ k > 1) /\ (j = 0 \/ j = 1 \/ j > 1)  BY <1>1
    <3> QED  BY <2>2, <2>3, <2>4, <2>5, <2>6, <2>7, <3>1, <3>2
  <2>9. k = 1 <=> j = 1
    <3>1. \A d : (\E e \in Seq(S) : d = _leaf(e)) =>
                   ~ \E a, b : Digest(a) /\ Digest(b) /\ d = _node(a, b)
      BY LeafNoNode
    <3>2. (k = 0 \/ k = 1 \/ k > 1) /\ (j = 0 \/ j = 1 \/ j > 1)  BY <1>1
    <3> QED  BY <2>4, <2>5, <2>6, <2>7, <2>8, <3>1, <3>2
  <2>10. CASE k = 0  BY <2>8, <2>10
  <2>11. CASE k = 1
    <3>1. j = 1 /\ g[v + 1] = h[w + 1]  BY <2>4, <2>5, <2>9, <2>11
    <3>2. \A i \in 1..k : i = 1  BY <2>11
    <3> QED  BY <2>11, <3>1, <3>2
  <2>12. CASE k > 1
    <3> DEFINE c == _split(k)
               e == _split(j)
    <3>1. k \in 2..M /\ j \in 2..Z
      <4>1. j # 0 /\ j # 1  BY <2>8, <2>9, <2>12
      <4> QED  BY <1>1, <2>12, <4>1
    <3>2. /\ c \in 1..k - 1 /\ k - c \in 1..k - 1 /\ c \in 0..M /\ v \in 0..M - c
          /\ k - c \in 0..M /\ v + c \in 0..M - (k - c)
          /\ G[k][v] = _node(G[c][v], G[k - c][v + c])
      BY <1>3, <3>1
    <3>3. /\ e \in 1..j - 1 /\ j - e \in 1..j - 1 /\ e \in 0..Z /\ w \in 0..Z - e
          /\ j - e \in 0..Z /\ w + e \in 0..Z - (j - e)
          /\ H[j][w] = _node(H[e][w], H[j - e][w + e])
      BY <1>4, <3>1
    <3> HIDE DEF c, e
    <3>4. Digest(G[c][v]) /\ Digest(G[k - c][v + c]) /\ Digest(H[e][w]) /\ Digest(H[j - e][w + e])
      BY <1>5, <3>2, <3>3
    <3>5. G[c][v] = H[e][w] /\ G[k - c][v + c] = H[j - e][w + e]
      <4>1. _node(G[c][v], G[k - c][v + c]) = _node(H[e][w], H[j - e][w + e])
        BY <3>2, <3>3
      <4> QED  BY <3>4, <4>1, NodesDiffer
    <3>6. c \in 0..k - 1 /\ k - c \in 0..k - 1  BY <1>1, <3>2
    <3>7. c = e /\ \A i \in 1..c : g[v + i] = h[w + i]
      <4>1. c \in 0..k - 1 /\ e \in 0..Z /\ v \in 0..M - c /\ w \in 0..Z - e
        BY <3>2, <3>3, <3>6
      <4>2. G[c][v] = H[e][w]  BY <3>5
      <4> QED  BY <2>0, <4>1, <4>2
    <3>8. k - c = j - e /\ \A i \in 1..k - c : g[v + c + i] = h[w + e + i]
      <4> DEFINE x == k - c
                 y == j - e
                 a == v + c
                 b == w + e
      <4>1. x \in 0..k - 1 /\ y \in 0..Z /\ a \in 0..M - x /\ b \in 0..Z - y
        BY <3>2, <3>3, <3>6
      <4>2. G[x][a] = H[y][b]  BY <3>5
      <4> HIDE DEF x, y, a, b
      <4>3. x = y /\ \A i \in 1..x : g[a + i] = h[b + i]  BY <2>0, <4>1, <4>2
      <4> QED  BY <4>3 DEF x, y, a, b
    <3>9. k = j
      <4>1. k \in Int /\ j \in Int /\ c \in Int /\ e \in Int  BY <1>1, <3>2, <3>3
      <4>2. c = e /\ k - c = j - e  BY <3>7, <3>8
      <4> QED  BY <4>1, <4>2
    <3>10. ASSUME NEW i \in 1..k PROVE g[v + i] = h[w + i]
      <4>1. CASE i <= c
        <5>1. i \in 1..c  BY <3>2, <4>1
        <5> QED  BY <3>7, <5>1
      <4>2. CASE ~ (i <= c)
        <5>1. i - c \in 1..k - c /\ v + c + (i - c) = v + i /\ w + e + (i - c) = w + i
          BY <1>1, <2>1, <3>2, <3>7, <4>2
        <5>2. g[v + c + (i - c)] = h[w + e + (i - c)]  BY <3>8, <5>1
        <5> QED  BY <5>1, <5>2
      <4> QED  BY <4>1, <4>2
    <3> QED  BY <3>9, <3>10
  <2> QED  BY <1>1, <2>10, <2>11, <2>12
<1>8. n \in T
  <2> HIDE DEF T
  <2>1. 0..M \subseteq T  BY <1>1, <1>7, UpTo
  <2>2. n \in 0..M  BY DEF M
  <2> QED  BY <2>1, <2>2
<1>9. n = m /\ \A i \in 1..n : g[s + i] = h[t + i]  BY <1>8 DEF M, Z, G, H
<1> QED  BY <1>9 DEF SameLeaves

-----------------------------------------------------------------------------
(* Paths. *)

Nodes(hashes) ==
  UNION {{Roots(hashes)[n][s] : s \in 0..Len(hashes) - n} : n \in 0..Len(hashes)}

(* The nodes of a tree are digests. *)
LEMMA NodesAreDigests ==
  ASSUME NEW S, NEW hashes, Hashed(S, hashes)
  PROVE  /\ \A n \in 0..Len(hashes) : \A s \in 0..Len(hashes) - n :
              Roots(hashes)[n][s] \in Nodes(hashes)
         /\ \A x \in Nodes(hashes) : Digest(x)
<1>1. ASSUME NEW n \in 0..Len(hashes), NEW s \in 0..Len(hashes) - n
      PROVE  Roots(hashes)[n][s] \in Nodes(hashes)
  BY DEF Nodes
<1>2. ASSUME NEW x \in Nodes(hashes) PROVE Digest(x)
  <2> PICK n \in 0..Len(hashes) : \E s \in 0..Len(hashes) - n : x = Roots(hashes)[n][s]
    BY DEF Nodes
  <2> PICK s \in 0..Len(hashes) - n : x = Roots(hashes)[n][s]  OBVIOUS
  <2>1. Digest(Roots(hashes)[n][s])  BY RootsAreDigests
  <2> QED  BY <2>1
<1> QED  BY <1>1, <1>2

(* The path ends at the root of the half the leaf is not in. *)
LEMMA PathLeft ==
  ASSUME NEW hashes, Len(hashes) \in Nat,
         NEW n \in 2..Len(hashes), NEW s \in 0..Len(hashes) - n, NEW m \in 0..n - 1,
         m < _split(n)
  PROVE  /\ m \in 0.._split(n) - 1
         /\ Proofs(hashes)[n][s][m] = Append(Proofs(hashes)[_split(n)][s][m],
                                            Roots(hashes)[n - _split(n)][s + _split(n)])
<1>1. s \in 0..Len(hashes) /\ m \in 0..Len(hashes)  OBVIOUS
<1>2. Proofs(hashes)[n][s][m] = Append(Proofs(hashes)[_split(n)][s][m],
                                       Roots(hashes)[n - _split(n)][s + _split(n)])
  BY <1>1, ProofOf
<1>3. _split(n) \in 1..n - 1  BY SplitIn
<1>4. m \in 0.._split(n) - 1  BY <1>3
<1> QED  BY <1>2, <1>4

(* A leaf of the right part: its path there, then the root of the left. *)
LEMMA PathRight ==
  ASSUME NEW hashes, Len(hashes) \in Nat,
         NEW n \in 2..Len(hashes), NEW s \in 0..Len(hashes) - n, NEW m \in 0..n - 1,
         ~ (m < _split(n))
  PROVE  /\ m - _split(n) \in 0..(n - _split(n)) - 1
         /\ Proofs(hashes)[n][s][m] =
              Append(Proofs(hashes)[n - _split(n)][s + _split(n)][m - _split(n)],
                     Roots(hashes)[_split(n)][s])
<1>1. s \in 0..Len(hashes) /\ m \in 0..Len(hashes)  OBVIOUS
<1>2. Proofs(hashes)[n][s][m] =
        Append(Proofs(hashes)[n - _split(n)][s + _split(n)][m - _split(n)],
               Roots(hashes)[_split(n)][s])
  BY <1>1, ProofOf
<1>3. _split(n) \in 1..n - 1  BY SplitIn
<1>4. m - _split(n) \in 0..(n - _split(n)) - 1  BY <1>3
<1> QED  BY <1>2, <1>4

(* Every leaf's path leads from the leaf to the root of the slice. *)
Leads(hashes, n, s, m) ==
  /\ Proofs(hashes)[n][s][m] \in Seq(Nodes(hashes))
  /\ _from_proof(hashes[s + m + 1], Proofs(hashes)[n][s][m])[m][n] = Roots(hashes)[n][s]

(* Every path rebuilds the root of its slice from its leaf. *)
LEMMA PathsVerify ==
  ASSUME NEW S, NEW hashes, Hashed(S, hashes),
         NEW n \in 1..Len(hashes), NEW s \in 0..Len(hashes) - n, NEW m \in 0..n - 1
  PROVE  Leads(hashes, n, s, m)
<1> DEFINE N == Len(hashes)
           R == Roots(hashes)
           P == Proofs(hashes)
           D == Nodes(hashes)
           F(a, q, i, z) == _from_proof(a, q)[i][z]
           Good(k, v, i) == /\ P[k][v][i] \in Seq(D)
                            /\ F(hashes[v + i + 1], P[k][v][i], i, k) = R[k][v]
           T == {k \in 0..N : k = 0 \/ \A v \in 0..N - k, i \in 0..k - 1 : Good(k, v, i)}
<1>1. N \in Nat  BY DEF Hashed
<1>2. /\ \A k \in 0..N : \A v \in 0..N - k : R[k][v] \in D /\ R[k][v] # None
      /\ \A x \in D : Digest(x)
  BY NodesAreDigests, RootsAreDigests
<1>3. ASSUME NEW k \in 0..N, 0..k - 1 \subseteq T PROVE k \in T
  <2>1. CASE k = 0  BY <2>1
  <2>2. CASE k = 1
    <3> SUFFICES ASSUME NEW v \in 0..N - k, NEW i \in 0..k - 1 PROVE Good(k, v, i)
      OBVIOUS
    <3>1. i = 0 /\ N > 0 /\ v \in 0..N  BY <1>1, <2>2
    <3>2. P[1][v][0] = << >> /\ R[1][v] = hashes[v + 1]  BY <1>1, <3>1, RootOf, ProofOf
    <3>3. << >> \in Seq(D)  OBVIOUS
    <3>4. F(hashes[v + 1], << >>, 0, 1) = hashes[v + 1]  BY FromNothing
    <3>5. v + i + 1 = v + 1  BY <1>1, <3>1
    <3> QED  BY <2>2, <3>1, <3>2, <3>3, <3>4, <3>5
  <2>3. CASE k > 1
    <3> SUFFICES ASSUME NEW v \in 0..N - k, NEW i \in 0..k - 1 PROVE Good(k, v, i)
      BY <1>1
    <3> DEFINE c == _split(k)
    <3>1. k \in 2..N /\ v \in 0..N  BY <1>1, <2>3
    <3>2. /\ c \in 1..k - 1 /\ k - c \in 1..k - 1 /\ c \in 0..N /\ v \in 0..N - c
          /\ k - c \in 0..N /\ v + c \in 0..N - (k - c)
          /\ R[k][v] = _node(R[c][v], R[k - c][v + c])
      BY <1>1, <3>1, RootSplits
    <3>3. /\ i < c => /\ i \in 0..c - 1
                      /\ P[k][v][i] = Append(P[c][v][i], R[k - c][v + c])
          /\ ~ (i < c) => /\ i - c \in 0..(k - c) - 1
                          /\ P[k][v][i] = Append(P[k - c][v + c][i - c], R[c][v])
      <4>1. CASE i < c  BY <1>1, <3>1, <4>1, PathLeft
      <4>2. CASE ~ (i < c)  BY <1>1, <3>1, <4>2, PathRight
      <4> QED  BY <4>1, <4>2
    <3>4. \A j \in 1..k - 1 : \A w \in 0..N - j, l \in 0..j - 1 : Good(j, w, l)
      <4> SUFFICES ASSUME NEW j \in 1..k - 1
                   PROVE  \A w \in 0..N - j, l \in 0..j - 1 : Good(j, w, l)
        OBVIOUS
      <4>1. j \in 0..k - 1 /\ j # 0  BY <1>1
      <4>2. j \in T  BY <1>3, <4>1
      <4> QED  BY <4>1, <4>2
    <3>5. /\ R[c][v] \in D /\ R[c][v] # None
          /\ R[k - c][v + c] \in D /\ R[k - c][v + c] # None
      BY <1>2, <3>2
    <3>6. CASE i < c
      <4> DEFINE p == P[c][v][i]
                 x == R[k - c][v + c]
                 a == hashes[v + i + 1]
      <4>1. p \in Seq(D) /\ F(a, p, i, c) = R[c][v]
        <5>1. Good(c, v, i)  BY <3>2, <3>3, <3>4, <3>6
        <5> QED  BY <5>1
      <4>2. x \in D /\ P[k][v][i] = Append(p, x)  BY <3>3, <3>5, <3>6
      <4>3. Sub(_from_proof(a, p), i, k) = F(a, p, i, c)  BY <3>6 DEF Sub
      <4> HIDE DEF p, x, a
      <4>4. F(a, Append(p, x), i, k) =
              IF k = 1 \/ Sub(_from_proof(a, p), i, k) = None THEN None
              ELSE IF i < _split(k) THEN _node(Sub(_from_proof(a, p), i, k), x)
              ELSE _node(x, Sub(_from_proof(a, p), i, k))
        BY <1>1, <4>1, <4>2, FromAppend DEF Joined
      <4>5. F(a, Append(p, x), i, k) = _node(R[c][v], x)
        BY <2>3, <3>5, <3>6, <4>1, <4>3, <4>4
      <4>6. Append(p, x) \in Seq(D)  BY <4>1, <4>2
      <4>7. F(a, P[k][v][i], i, k) = R[k][v]  BY <3>2, <4>2, <4>5 DEF x
      <4> QED  BY <4>2, <4>6, <4>7 DEF a
    <3>7. CASE ~ (i < c)
      <4> DEFINE p == P[k - c][v + c][i - c]
                 x == R[c][v]
                 a == hashes[v + i + 1]
      <4>1. p \in Seq(D) /\ F(a, p, i - c, k - c) = R[k - c][v + c]
        <5>1. Good(k - c, v + c, i - c)  BY <3>2, <3>3, <3>4, <3>7
        <5>2. v + c + (i - c) + 1 = v + i + 1  BY <1>1, <3>1, <3>2
        <5> QED  BY <5>1, <5>2
      <4>2. x \in D /\ P[k][v][i] = Append(p, x)  BY <3>3, <3>5, <3>7
      <4>3. Sub(_from_proof(a, p), i, k) = F(a, p, i - c, k - c)  BY <3>7 DEF Sub
      <4> HIDE DEF p, x, a
      <4>4. F(a, Append(p, x), i, k) =
              IF k = 1 \/ Sub(_from_proof(a, p), i, k) = None THEN None
              ELSE IF i < _split(k) THEN _node(Sub(_from_proof(a, p), i, k), x)
              ELSE _node(x, Sub(_from_proof(a, p), i, k))
        BY <1>1, <4>1, <4>2, FromAppend DEF Joined
      <4>5. F(a, Append(p, x), i, k) = _node(x, R[k - c][v + c])
        BY <2>3, <3>5, <3>7, <4>1, <4>3, <4>4
      <4>6. Append(p, x) \in Seq(D)  BY <4>1, <4>2
      <4>7. F(a, P[k][v][i], i, k) = R[k][v]  BY <3>2, <4>2, <4>5 DEF x
      <4> QED  BY <4>2, <4>6, <4>7 DEF a
    <3> QED  BY <3>6, <3>7
  <2> QED  BY <1>1, <2>1, <2>2, <2>3
<1>4. n \in T
  <2> HIDE DEF T
  <2>1. 0..N \subseteq T  BY <1>1, <1>3, UpTo
  <2> QED  BY <1>1, <2>1
<1>5. Good(n, s, m)
  <2>1. n # 0  BY <1>1
  <2> HIDE DEF Good
  <2> QED  BY <1>4, <2>1
<1> QED  BY <1>5 DEF Leads

(* What a path of digests can lead to from a leaf. *)
LEMMA FromIsDigest ==
  ASSUME NEW a, Digest(a), NEW D, NEW q \in Seq(D), NEW m \in Nat, NEW n \in Nat
  PROVE  Digest(_from_proof(a, q)[m][n])
<1>1. Digest(None)  BY DEF None, Digest
<1>2. CASE q = << >>  BY <1>1, <1>2, FromNothing
<1>3. CASE q # << >>
  <2>0. ASSUME NEW p \in Seq(D), NEW x \in D
        PROVE  _from_proof(a, Append(p, x))[m][n] = Joined(_from_proof(a, p), x, m, n)
    <3>1. n \in Nat  OBVIOUS
    <3> QED  BY <3>1, FromAppend
  <2> PICK p \in Seq(D), x \in D : q = Append(p, x)
    <3>1. SubSeq(q, 1, Len(q) - 1) \in Seq(D) /\ q[Len(q)] \in D
          /\ q = Append(SubSeq(q, 1, Len(q) - 1), q[Len(q)])
      BY <1>3
    <3> QED  BY <3>1
  <2>1. \/ _from_proof(a, q)[m][n] = None
        \/ \E l, r : _from_proof(a, q)[m][n] = _node(l, r)
    BY <2>0 DEF Joined
  <2> QED  BY <1>1, <2>1, Sha256 DEF _node
<1> QED  BY <1>2, <1>3

Shape(a, D, q, m, n) ==
  \/ q = << >> /\ n = 1 /\ _from_proof(a, q)[m][n] = a
  \/ \E p \in Seq(D), x \in D :
       /\ q = Append(p, x) /\ n > 1
       /\ \/ /\ m < _split(n) /\ Digest(_from_proof(a, p)[m][_split(n)])
             /\ _from_proof(a, q)[m][n] = _node(_from_proof(a, p)[m][_split(n)], x)
          \/ /\ ~ (m < _split(n))
             /\ Digest(_from_proof(a, p)[m - _split(n)][n - _split(n)])
             /\ _from_proof(a, q)[m][n] =
                  _node(x, _from_proof(a, p)[m - _split(n)][n - _split(n)])

(* What a path rebuilds, if anything, has one of three shapes. *)
LEMMA FromShape ==
  ASSUME NEW a, Digest(a), NEW D, NEW q \in Seq(D), NEW m \in Nat, NEW n \in Nat \ {0},
         _from_proof(a, q)[m][n] # None
  PROVE  Shape(a, D, q, m, n)
<1> USE DEF Shape
<1>1. CASE q = << >>  BY <1>1, FromNothing
<1>2. CASE q # << >>
  <2>0. ASSUME NEW p \in Seq(D), NEW x \in D
        PROVE  _from_proof(a, Append(p, x))[m][n] = Joined(_from_proof(a, p), x, m, n)
    <3>1. n \in Nat  OBVIOUS
    <3> QED  BY <3>1, FromAppend
  <2> PICK p \in Seq(D), x \in D : q = Append(p, x)
    <3>1. SubSeq(q, 1, Len(q) - 1) \in Seq(D) /\ q[Len(q)] \in D
          /\ q = Append(SubSeq(q, 1, Len(q) - 1), q[Len(q)])
      BY <1>2
    <3> QED  BY <3>1
  <2>1. _from_proof(a, q)[m][n] =
          IF n = 1 \/ Sub(_from_proof(a, p), m, n) = None THEN None
          ELSE IF m < _split(n) THEN _node(Sub(_from_proof(a, p), m, n), x)
          ELSE _node(x, Sub(_from_proof(a, p), m, n))
    BY <2>0 DEF Joined
  <2> SUFFICES ASSUME _from_proof(a, q)[m][n] # None
               PROVE  /\ n > 1
                      /\ \/ /\ m < _split(n) /\ Digest(_from_proof(a, p)[m][_split(n)])
                            /\ _from_proof(a, q)[m][n] =
                                 _node(_from_proof(a, p)[m][_split(n)], x)
                         \/ /\ ~ (m < _split(n))
                            /\ Digest(_from_proof(a, p)[m - _split(n)][n - _split(n)])
                            /\ _from_proof(a, q)[m][n] =
                                 _node(x, _from_proof(a, p)[m - _split(n)][n - _split(n)])
    OBVIOUS
  <2>2. n > 1  BY <2>1
  <2>3. _split(n) \in 1..n - 1 /\ n - _split(n) \in 1..n - 1  BY <2>2, SplitIn
  <2>4. CASE m < _split(n)
    <3>1. Sub(_from_proof(a, p), m, n) = _from_proof(a, p)[m][_split(n)]
      BY <2>4 DEF Sub
    <3>2. _split(n) \in Nat  BY <2>3
    <3>3. Digest(_from_proof(a, p)[m][_split(n)])  BY <3>2, FromIsDigest
    <3> QED  BY <2>1, <2>2, <2>4, <3>1, <3>3
  <2>5. CASE ~ (m < _split(n))
    <3>1. Sub(_from_proof(a, p), m, n) = _from_proof(a, p)[m - _split(n)][n - _split(n)]
      BY <2>5 DEF Sub
    <3>2. m - _split(n) \in Nat /\ n - _split(n) \in Nat  BY <2>3, <2>5
    <3>3. Digest(_from_proof(a, p)[m - _split(n)][n - _split(n)])  BY <3>2, FromIsDigest
    <3> QED  BY <2>1, <2>2, <2>5, <3>1, <3>3
  <2> QED  BY <2>4, <2>5
<1> QED  BY <1>1, <1>2

IsPath(hashes, n, s, a, q, index, size) ==
  \E m \in 0..n - 1 : /\ a = hashes[s + m + 1]
                      /\ q = Proofs(hashes)[n][s][m]
                      /\ size = n => index = m

(* Whatever path of digests leads from some bytes to the root of a slice,  *)
(* it is the path of a leaf of that slice, and the bytes are that leaf's.  *)
LEMMA PathsBind ==
  ASSUME NEW S, NEW hashes, Hashed(S, hashes), NEW d \in Seq(S),
         NEW D, \A x \in D : Digest(x), NEW q \in Seq(D),
         NEW n \in 0..Len(hashes), NEW s \in 0..Len(hashes) - n,
         NEW size \in Nat \ {0}, NEW index \in 0..size - 1,
         _from_proof(_leaf(d), q)[index][size] = Roots(hashes)[n][s]
  PROVE  IsPath(hashes, n, s, _leaf(d), q, index, size)
<1> DEFINE N == Len(hashes)
           R == Roots(hashes)
           P == Proofs(hashes)
           a == _leaf(d)
           F(p, i, z) == _from_proof(a, p)[i][z]
           Bound(k, v, p, i, z) ==
             \E m \in 0..k - 1 : a = hashes[v + m + 1] /\ p = P[k][v][m] /\ (z = k => i = m)
           T == {k \in 0..N : \A v \in 0..N - k, p \in Seq(D), z \in Nat \ {0} :
                   \A i \in 0..z - 1 : F(p, i, z) = R[k][v] => Bound(k, v, p, i, z)}
<1>1. N \in Nat  BY DEF Hashed
<1>2. \A k \in 0..N : \A v \in 0..N - k : Digest(R[k][v]) /\ R[k][v] # None
  BY RootsAreDigests
<1>6. \A i \in 1..N : \E e \in Seq(S) : hashes[i] = _leaf(e)
  BY DEF Hashed
<1>7. \A v \in 0..N : /\ R[0][v] = sha256(<< >>) /\ (N > 0 => R[1][v] = hashes[v + 1])
                     /\ (N > 0 => P[1][v][0] = << >>)
  <2> SUFFICES ASSUME NEW v \in 0..N
               PROVE  /\ R[0][v] = sha256(<< >>) /\ (N > 0 => R[1][v] = hashes[v + 1])
                      /\ (N > 0 => P[1][v][0] = << >>)
    OBVIOUS
  <2>1. R[0][v] = sha256(<< >>) /\ (N > 0 => R[1][v] = hashes[v + 1])  BY <1>1, RootOf
  <2>2. 0 \in 0..N  BY <1>1
  <2>3. N > 0 => P[1][v][0] = << >>  BY <1>1, <2>2, ProofOf
  <2> QED  BY <2>1, <2>3
<1>8. ASSUME NEW k \in 2..N, NEW v \in 0..N - k
      PROVE  /\ _split(k) \in 1..k - 1 /\ k - _split(k) \in 1..k - 1
             /\ _split(k) \in 0..N /\ v \in 0..N - _split(k)
             /\ k - _split(k) \in 0..N /\ v + _split(k) \in 0..N - (k - _split(k))
             /\ R[k][v] = _node(R[_split(k)][v], R[k - _split(k)][v + _split(k)])
  BY <1>1, RootSplits
<1>9. ASSUME NEW k \in 2..N, NEW v \in 0..N - k, NEW m \in 0..k - 1, m < _split(k)
      PROVE  P[k][v][m] = Append(P[_split(k)][v][m], R[k - _split(k)][v + _split(k)])
  BY <1>1, <1>9, PathLeft
<1>10. ASSUME NEW k \in 2..N, NEW v \in 0..N - k, NEW m \in 0..k - 1, ~ (m < _split(k))
       PROVE  P[k][v][m] = Append(P[k - _split(k)][v + _split(k)][m - _split(k)],
                                  R[_split(k)][v])
  BY <1>1, <1>10, PathRight
<1>3. /\ Digest(a) /\ a # sha256(<< >>) /\ \A l, r : Digest(l) /\ Digest(r) => a # _node(l, r)
      /\ \A l, r : Digest(l) /\ Digest(r) => sha256(<< >>) # _node(l, r)
  <2>1. Digest(a)  BY Sha256 DEF _leaf
  <2> QED  BY <2>1, EmptyIsAlone, LeafNoNode
<1> HIDE DEF N, R, P
<1>4. ASSUME NEW k \in 0..N, 0..k - 1 \subseteq T PROVE k \in T
  <2> SUFFICES ASSUME NEW v \in 0..N - k, NEW p \in Seq(D), NEW z \in Nat \ {0},
                      NEW i \in 0..z - 1, F(p, i, z) = R[k][v]
               PROVE  Bound(k, v, p, i, z)
    OBVIOUS
  <2>1. \A j \in 0..k - 1 : \A w \in 0..N - j, o \in Seq(D), y \in Nat \ {0} :
          \A l \in 0..y - 1 : F(o, l, y) = R[j][w] => Bound(j, w, o, l, y)
    <3> SUFFICES ASSUME NEW j \in 0..k - 1
                 PROVE  \A w \in 0..N - j, o \in Seq(D), y \in Nat \ {0} :
                          \A l \in 0..y - 1 : F(o, l, y) = R[j][w] => Bound(j, w, o, l, y)
      OBVIOUS
    <3>1. j \in T  BY <1>4
    <3> QED  BY <3>1
  <2> HIDE DEF T
  <2>2. v \in 0..N /\ R[k][v] # None /\ i \in Nat
    <3>1. R[k][v] # None  BY <1>2
    <3>2. v \in 0..N  BY <1>1
    <3>3. i \in Nat  OBVIOUS
    <3> QED  BY <3>1, <3>2, <3>3
  <2>3. Shape(a, D, p, i, z)
    <3> HIDE DEF a
    <3>1. _from_proof(a, p)[i][z] # None  BY <2>2
    <3> QED  BY <1>3, <2>2, <3>1, FromShape
  <2>4. \/ p = << >> /\ z = 1 /\ R[k][v] = a
        \/ \E l, r : Digest(l) /\ Digest(r) /\ R[k][v] = _node(l, r)
    BY <2>3 DEF Shape
  <2>5. CASE k = 0
    <3>1. R[k][v] = sha256(<< >>)  BY <1>7, <2>2, <2>5
    <3> QED  BY <1>3, <2>4, <3>1
  <2>6. CASE k = 1
    <3>1. R[k][v] = hashes[v + 1] /\ v + 1 \in 1..N /\ P[1][v][0] = << >>
      BY <1>1, <1>7, <2>2, <2>6
    <3>2. \A l, r : Digest(l) /\ Digest(r) => hashes[v + 1] # _node(l, r)
      <4> PICK e \in Seq(S) : hashes[v + 1] = _leaf(e)  BY <1>6, <3>1
      <4> QED  BY LeafNoNode
    <3>3. p = << >> /\ z = 1 /\ a = hashes[v + 1]  BY <2>4, <3>1, <3>2
    <3>4. i = 0 /\ v + 0 + 1 = v + 1 /\ 0 \in 0..k - 1  BY <2>2, <2>6, <3>3
    <3> QED  BY <2>6, <3>1, <3>3, <3>4
  <2>7. CASE k > 1
    <3> DEFINE c == _split(k)
               b == _split(z)
    <3>1. k \in 2..N  BY <1>1, <2>7
    <3>2. /\ c \in 1..k - 1 /\ k - c \in 1..k - 1 /\ c \in 0..N /\ v \in 0..N - c
          /\ k - c \in 0..N /\ v + c \in 0..N - (k - c)
          /\ R[k][v] = _node(R[c][v], R[k - c][v + c])
      BY <1>8, <3>1
    <3>3. \A m \in 0..k - 1 :
            /\ m < c => P[k][v][m] = Append(P[c][v][m], R[k - c][v + c])
            /\ ~ (m < c) => P[k][v][m] = Append(P[k - c][v + c][m - c], R[c][v])
      BY <1>9, <1>10, <3>1
    <3>4. Digest(R[c][v]) /\ Digest(R[k - c][v + c])  BY <1>2, <3>2
    <3>5. PICK o \in Seq(D), x \in D :
             /\ p = Append(o, x) /\ z > 1
             /\ \/ /\ i < b /\ Digest(F(o, i, b)) /\ F(p, i, z) = _node(F(o, i, b), x)
                \/ /\ ~ (i < b) /\ Digest(F(o, i - b, z - b))
                   /\ F(p, i, z) = _node(x, F(o, i - b, z - b))
      <4>1. R[k][v] # a  BY <1>3, <3>2, <3>4
      <4>2. _from_proof(a, p)[i][z] = R[k][v]  OBVIOUS
      <4> HIDE DEF a
      <4> QED  BY <2>3, <4>1, <4>2 DEF Shape
    <3>6. b \in 1..z - 1 /\ z - b \in 1..z - 1  BY <3>5, SplitIn
    <3>7. z = k => b = c  OBVIOUS
    <3> HIDE DEF c, b, F, a, Bound
    <3>8. CASE i < b
      <4>1. F(p, i, z) = _node(F(o, i, b), x) /\ Digest(F(o, i, b))  BY <3>5, <3>8
      <4>2. F(o, i, b) = R[c][v] /\ x = R[k - c][v + c]
        <5>1. _node(F(o, i, b), x) = _node(R[c][v], R[k - c][v + c])  BY <3>2, <4>1
        <5> QED  BY <3>4, <4>1, <5>1, NodesDiffer
      <4>3. c \in 0..k - 1 /\ b \in Nat \ {0} /\ i \in 0..b - 1
        BY <1>1, <2>2, <3>2, <3>6, <3>8
      <4>4. Bound(c, v, o, i, b)  BY <2>1, <3>2, <4>2, <4>3
      <4> PICK m \in 0..c - 1 : a = hashes[v + m + 1] /\ o = P[c][v][m] /\ (b = c => i = m)
        BY <4>4 DEF Bound
      <4>5. m \in 0..k - 1 /\ m < c  BY <1>1, <3>2
      <4>6. p = P[k][v][m]  BY <3>3, <3>5, <4>2, <4>5
      <4> QED  BY <3>7, <4>5, <4>6 DEF Bound
    <3>9. CASE ~ (i < b)
      <4>1. F(p, i, z) = _node(x, F(o, i - b, z - b)) /\ Digest(F(o, i - b, z - b))
        BY <3>5, <3>9
      <4>2. F(o, i - b, z - b) = R[k - c][v + c] /\ x = R[c][v]
        <5>1. _node(x, F(o, i - b, z - b)) = _node(R[c][v], R[k - c][v + c])  BY <3>2, <4>1
        <5> QED  BY <3>4, <4>1, <5>1, NodesDiffer
      <4> DEFINE j == k - c
                 w == v + c
                 y == z - b
                 l == i - b
      <4>3. j \in 0..k - 1 /\ w \in 0..N - j /\ y \in Nat \ {0} /\ l \in 0..y - 1
        BY <1>1, <2>2, <3>2, <3>6, <3>9
      <4>4. F(o, l, y) = R[j][w]  BY <4>2
      <4> HIDE DEF j, w, y, l
      <4>5. Bound(j, w, o, l, y)  BY <2>1, <4>3, <4>4
      <4> PICK m \in 0..j - 1 : a = hashes[w + m + 1] /\ o = P[j][w][m] /\ (y = j => l = m)
        BY <4>5 DEF Bound
      <4> DEFINE mc == m + c
      <4>6. mc \in 0..k - 1 /\ ~ (mc < c) /\ mc - c = m /\ v + mc + 1 = w + m + 1
        <5>1. m \in 0..(k - c) - 1  BY DEF j
        <5>2. k \in Nat /\ c \in 0..k - 1 /\ v \in Nat /\ m \in Nat /\ m < k - c
          BY <1>1, <3>2, <5>1
        <5>3. c \in Nat  BY <5>2
        <5>4. m + c \in 0..k - 1  BY <5>2, <5>3
        <5>5. ~ (m + c < c) /\ (m + c) - c = m /\ v + (m + c) + 1 = (v + c) + m + 1
          BY <5>2, <5>3
        <5> QED  BY <5>4, <5>5 DEF w
      <4>7. p = P[k][v][mc]  BY <3>3, <3>5, <4>2, <4>6 DEF j, w
      <4>8. z = k => i = mc
        <5>1. z = k => y = j  BY <3>7 DEF y, j
        <5>2. l = m => i = m + b  BY <2>2, <3>6 DEF l
        <5> QED  BY <3>7, <5>1, <5>2
      <4> HIDE DEF mc
      <4>9. a = hashes[v + mc + 1]  BY <4>6
      <4> QED  BY <4>6, <4>7, <4>8, <4>9 DEF Bound
    <3> QED  BY <3>8, <3>9
  <2> QED  BY <1>1, <2>5, <2>6, <2>7
<1>5. n \in T
  <2> HIDE DEF T
  <2>1. 0..N \subseteq T  BY <1>1, <1>4, UpTo
  <2>2. n \in 0..N  BY DEF N
  <2> QED  BY <2>1, <2>2
<1> QED
  <2>1. \A v \in 0..N - n, p \in Seq(D), z \in Nat \ {0} :
          \A i \in 0..z - 1 : F(p, i, z) = R[n][v] => Bound(n, v, p, i, z)
    BY <1>5
  <2>2. F(q, index, size) = R[n][s]  BY DEF R
  <2>3. s \in 0..N - n  BY DEF N
  <2> HIDE DEF F, Bound
  <2>4. Bound(n, s, q, index, size)  BY <2>1, <2>2, <2>3
  <2> QED  BY <2>4 DEF Bound, P, IsPath

(* Read from the end, two sequences agree as far as both go. *)
AgreeFromEnd(p, q) ==
  \A j \in Nat : j < Len(p) /\ j < Len(q) => p[Len(p) - j] = q[Len(q) - j]

(* If they agree, their last elements are equal and the rest agrees. *)
LEMMA AgreeAppended ==
  ASSUME NEW D, NEW p \in Seq(D), NEW q \in Seq(D), NEW x \in D, NEW y \in D,
         AgreeFromEnd(Append(p, x), Append(q, y))
  PROVE  x = y /\ AgreeFromEnd(p, q)
<1>1. /\ Len(Append(p, x)) = Len(p) + 1 /\ Append(p, x)[Len(p) + 1] = x
      /\ \A i \in 1..Len(p) : Append(p, x)[i] = p[i]
  OBVIOUS
<1>2. /\ Len(Append(q, y)) = Len(q) + 1 /\ Append(q, y)[Len(q) + 1] = y
      /\ \A i \in 1..Len(q) : Append(q, y)[i] = q[i]
  OBVIOUS
<1>3. Len(p) \in Nat /\ Len(q) \in Nat  OBVIOUS
<1> DEFINE a == Append(p, x)
           b == Append(q, y)
<1>4. \A j \in Nat : j < Len(a) /\ j < Len(b) => a[Len(a) - j] = b[Len(b) - j]
  BY DEF AgreeFromEnd
<1> HIDE DEF a, b
<1>5. x = y
  <2>1. 0 \in Nat /\ 0 < Len(a) /\ 0 < Len(b)  BY <1>1, <1>2, <1>3 DEF a, b
  <2>2. a[Len(a) - 0] = b[Len(b) - 0]  BY <1>4, <2>1
  <2>3. Len(a) - 0 = Len(p) + 1 /\ Len(b) - 0 = Len(q) + 1  BY <1>1, <1>2, <1>3 DEF a, b
  <2> QED  BY <1>1, <1>2, <2>2, <2>3 DEF a, b
<1>6. ASSUME NEW j \in Nat, j < Len(p), j < Len(q) PROVE p[Len(p) - j] = q[Len(q) - j]
  <2>1. j + 1 \in Nat /\ j + 1 < Len(a) /\ j + 1 < Len(b)
    BY <1>1, <1>2, <1>3, <1>6 DEF a, b
  <2>2. a[Len(a) - (j + 1)] = b[Len(b) - (j + 1)]  BY <1>4, <2>1
  <2>3. Len(a) - (j + 1) = Len(p) - j /\ Len(b) - (j + 1) = Len(q) - j
    BY <1>1, <1>2, <1>3 DEF a, b
  <2>4. Len(p) - j \in 1..Len(p) /\ Len(q) - j \in 1..Len(q)  BY <1>3, <1>6
  <2> QED  BY <1>1, <1>2, <2>2, <2>3, <2>4 DEF a, b
<1> QED  BY <1>5, <1>6 DEF AgreeFromEnd

Distinct(hashes) == \A i, j \in 1..Len(hashes) : hashes[i] = hashes[j] => i = j

(* No path ends as another one does: of two leaves in different halves the *)
(* last elements differ, the roots of different leaves.                    *)
LEMMA PathsDiffer ==
  ASSUME NEW S, NEW hashes, Hashed(S, hashes),
         Distinct(hashes),
         NEW n \in 1..Len(hashes), NEW s \in 0..Len(hashes) - n,
         NEW l \in 0..n - 1, NEW m \in 0..n - 1,
         AgreeFromEnd(Proofs(hashes)[n][s][l], Proofs(hashes)[n][s][m])
  PROVE  l = m
<1> DEFINE N == Len(hashes)
           R == Roots(hashes)
           P == Proofs(hashes)
           D == Nodes(hashes)
           T == {k \in 0..N : \A v \in 0..N - k : \A i, j \in 0..k - 1 :
                   AgreeFromEnd(P[k][v][i], P[k][v][j]) => i = j}
<1>1. N \in Nat  BY DEF Hashed
<1>2. \A k \in 0..N : \A v \in 0..N - k : R[k][v] \in D  BY NodesAreDigests
<1>3. \A k \in 1..N : \A v \in 0..N - k, i \in 0..k - 1 : P[k][v][i] \in Seq(D)
  BY PathsVerify DEF Leads
<1>4. ASSUME NEW k \in 2..N, NEW v \in 0..N - k
      PROVE  /\ _split(k) \in 1..k - 1 /\ k - _split(k) \in 1..k - 1
             /\ _split(k) \in 0..N /\ v \in 0..N - _split(k)
             /\ k - _split(k) \in 0..N /\ v + _split(k) \in 0..N - (k - _split(k))
  BY <1>1, RootSplits
<1>5. ASSUME NEW k \in 2..N, NEW v \in 0..N - k, NEW i \in 0..k - 1, i < _split(k)
      PROVE  /\ i \in 0.._split(k) - 1
             /\ P[k][v][i] = Append(P[_split(k)][v][i], R[k - _split(k)][v + _split(k)])
  BY <1>1, <1>5, PathLeft
<1>6. ASSUME NEW k \in 2..N, NEW v \in 0..N - k, NEW i \in 0..k - 1, ~ (i < _split(k))
      PROVE  /\ i - _split(k) \in 0..(k - _split(k)) - 1
             /\ P[k][v][i] = Append(P[k - _split(k)][v + _split(k)][i - _split(k)],
                                    R[_split(k)][v])
  BY <1>1, <1>6, PathRight
<1>7. ASSUME NEW k \in 0..N, NEW v \in 0..N - k, NEW j \in 0..N, NEW w \in 0..N - j,
             R[k][v] = R[j][w], k # 0
      PROVE  v = w
  <2>1. k = j /\ \A i \in 1..k : hashes[v + i] = hashes[w + i]
    <3>1. Roots(hashes)[k][v] = Roots(hashes)[j][w]  BY <1>7
    <3>2. k \in 0..Len(hashes) /\ v \in 0..Len(hashes) - k
          /\ j \in 0..Len(hashes) /\ w \in 0..Len(hashes) - j
      OBVIOUS
    <3> HIDE DEF N, R
    <3>3. SameLeaves(hashes, k, v, hashes, j, w)  BY <3>1, <3>2, RootsDiffer
    <3> QED  BY <3>3 DEF SameLeaves
  <2>2. hashes[v + 1] = hashes[w + 1]
    <3>1. 1 \in 1..k  BY <1>1, <1>7
    <3> QED  BY <2>1, <3>1
  <2>3. v + 1 \in 1..N /\ w + 1 \in 1..N  BY <1>1, <1>7, <2>1
  <2>4. v + 1 = w + 1  BY <2>2, <2>3 DEF Distinct
  <2> QED  BY <1>1, <2>4
<1> HIDE DEF N, R, P, D
<1>8. ASSUME NEW k \in 0..N, 0..k - 1 \subseteq T PROVE k \in T
  <2> SUFFICES ASSUME NEW v \in 0..N - k, NEW i \in 0..k - 1, NEW j \in 0..k - 1,
                      AgreeFromEnd(P[k][v][i], P[k][v][j])
               PROVE  i = j
    OBVIOUS
  <2>1. ASSUME NEW y \in 0..k - 1, NEW w \in 0..N - y, NEW a \in 0..y - 1, NEW b \in 0..y - 1,
               AgreeFromEnd(P[y][w][a], P[y][w][b])
        PROVE  a = b
    <3>1. y \in T  BY <1>8
    <3> QED  BY <2>1, <3>1
  <2> HIDE DEF T
  <2>2. CASE k = 0 \/ k = 1  BY <1>1, <2>2
  <2>3. CASE k > 1
    <3> DEFINE c == _split(k)
               kc == k - c
               vc == v + c
    <3>1. k \in 2..N  BY <1>1, <2>3
    <3>2. /\ c \in 1..k - 1 /\ kc \in 1..k - 1 /\ c \in 0..N /\ v \in 0..N - c
          /\ kc \in 0..N /\ vc \in 0..N - kc
      BY <1>4, <3>1
    <3>3. \A x \in 0..k - 1 : x < c => /\ x \in 0..c - 1
                                      /\ P[k][v][x] = Append(P[c][v][x], R[kc][vc])
      BY <1>5, <3>1
    <3>4. \A x \in 0..k - 1 : ~ (x < c) =>
             x - c \in 0..kc - 1 /\ P[k][v][x] = Append(P[kc][vc][x - c], R[c][v])
      BY <1>6, <3>1
    <3>5. vc # v  BY <1>1, <3>2
    <3> HIDE DEF c, kc, vc
    <3>6. c \in 1..N /\ kc \in 1..N /\ c \in 0..k - 1 /\ kc \in 0..k - 1  BY <1>1, <3>2
    <3>7. R[c][v] \in D /\ R[kc][vc] \in D  BY <1>2, <3>2
    <3>8. R[c][v] # R[kc][vc]
      <4>1. c # 0  BY <3>2
      <4> QED  BY <1>7, <3>2, <3>5, <4>1
    <3>9. CASE i < c /\ j < c
      <4> DEFINE p == P[c][v][i]
                 q == P[c][v][j]
      <4>1. i \in 0..c - 1 /\ j \in 0..c - 1  BY <3>3, <3>9
      <4>2. p \in Seq(D) /\ q \in Seq(D)  BY <1>3, <3>2, <3>6, <4>1
      <4>3. AgreeFromEnd(Append(p, R[kc][vc]), Append(q, R[kc][vc]))  BY <3>3, <3>9
      <4> HIDE DEF p, q
      <4>4. AgreeFromEnd(p, q)  BY <3>7, <4>2, <4>3, AgreeAppended
      <4> QED  BY <2>1, <3>2, <3>6, <4>1, <4>4 DEF p, q
    <3>10. CASE i < c /\ ~ (j < c)
      <4> DEFINE p == P[c][v][i]
                 q == P[kc][vc][j - c]
      <4>1. i \in 0..c - 1 /\ j - c \in 0..kc - 1  BY <3>3, <3>4, <3>10
      <4>2. p \in Seq(D) /\ q \in Seq(D)  BY <1>3, <3>2, <3>6, <4>1
      <4>3. AgreeFromEnd(Append(p, R[kc][vc]), Append(q, R[c][v]))  BY <3>3, <3>4, <3>10
      <4> HIDE DEF p, q
      <4>4. R[kc][vc] = R[c][v]  BY <3>7, <4>2, <4>3, AgreeAppended
      <4> QED  BY <3>8, <4>4
    <3>11. CASE ~ (i < c) /\ j < c
      <4> DEFINE p == P[kc][vc][i - c]
                 q == P[c][v][j]
      <4>1. i - c \in 0..kc - 1 /\ j \in 0..c - 1  BY <3>3, <3>4, <3>11
      <4>2. p \in Seq(D) /\ q \in Seq(D)  BY <1>3, <3>2, <3>6, <4>1
      <4>3. AgreeFromEnd(Append(p, R[c][v]), Append(q, R[kc][vc]))  BY <3>3, <3>4, <3>11
      <4> HIDE DEF p, q
      <4>4. R[kc][vc] = R[c][v]  BY <3>7, <4>2, <4>3, AgreeAppended
      <4> QED  BY <3>8, <4>4
    <3>12. CASE ~ (i < c) /\ ~ (j < c)
      <4> DEFINE x == i - c
                 y == j - c
                 p == P[kc][vc][x]
                 q == P[kc][vc][y]
      <4>1. x \in 0..kc - 1 /\ y \in 0..kc - 1  BY <3>4, <3>12
      <4>2. p \in Seq(D) /\ q \in Seq(D)
        <5> HIDE DEF x, y
        <5> QED  BY <1>3, <3>2, <3>6, <4>1
      <4>3. AgreeFromEnd(Append(p, R[c][v]), Append(q, R[c][v]))  BY <3>4, <3>12
      <4> HIDE DEF p, q
      <4>4. AgreeFromEnd(p, q)  BY <3>7, <4>2, <4>3, AgreeAppended
      <4> HIDE DEF x, y
      <4>5. x = y  BY <2>1, <3>2, <3>6, <4>1, <4>4 DEF p, q
      <4>6. i \in Int /\ j \in Int /\ c \in Int  BY <1>1, <3>2
      <4> QED  BY <4>5, <4>6 DEF x, y
    <3> QED  BY <3>9, <3>10, <3>11, <3>12
  <2> QED  BY <1>1, <2>2, <2>3
<1>9. n \in T
  <2> HIDE DEF T
  <2>1. 0..N \subseteq T  BY <1>1, <1>8, UpTo
  <2>2. n \in 0..N  BY <1>1 DEF N
  <2> QED  BY <2>1, <2>2
<1> QED  BY <1>9 DEF N, P

-----------------------------------------------------------------------------
(* Levels. *)

(* One level up: the pairs of a level, and an odd one out. *)
LEMMA PairedAt ==
  ASSUME NEW h, Len(h) \in Nat
  PROVE  /\ Len(Paired(h)) = (Len(h) + 1) \div 2
         /\ \A i \in 1..(Len(h) + 1) \div 2 :
              Paired(h)[i] = IF 2 * i <= Len(h) THEN _node(h[2 * i - 1], h[2 * i])
                             ELSE h[2 * i - 1]
<1>1. (Len(h) + 1) \div 2 \in Nat  OBVIOUS
<1> QED  BY <1>1 DEF Paired

(* A slice that starts with a pair, and ends with one or with the last     *)
(* hash of the level, has the root of its pairs.                           *)
LEMMA PairedRoots ==
  ASSUME NEW h, Len(h) \in Nat \ {0}
  PROVE  Roots(h)[Len(h)][0] = Roots(Paired(h))[Len(Paired(h))][0]
<1> DEFINE N == Len(h)
           g == Paired(h)
           M == Len(g)
           R == Roots(h)
           Q == Roots(g)
           T == {n \in 0..N : \A u \in 0..N :
                   2 * u + n <= N /\ (2 * u + n = N \/ n % 2 = 0) /\ n # 0 =>
                     R[n][2 * u] = Q[(n + 1) \div 2][u]}
<1>1. N \in Nat /\ N > 0 /\ M = (N + 1) \div 2 /\ M \in Nat /\ M > 0
  <2>1. M = (N + 1) \div 2  BY PairedAt
  <2> HIDE DEF M
  <2> QED  BY <2>1
<1>2. \A i \in 1..M : g[i] = IF 2 * i <= N THEN _node(h[2 * i - 1], h[2 * i]) ELSE h[2 * i - 1]
  <2>1. M = (N + 1) \div 2  BY <1>1
  <2> HIDE DEF M, g
  <2> QED  BY <2>1, PairedAt DEF g
<1>3. \A s \in 0..N : R[1][s] = h[s + 1]  BY <1>1, RootOf
<1>4. \A s \in 0..M : Q[1][s] = g[s + 1]
  <2> HIDE DEF g
  <2> QED  BY <1>1, RootOf
<1>5. ASSUME NEW n \in 2..N, NEW s \in 0..N - n
      PROVE  R[n][s] = _node(R[_split(n)][s], R[n - _split(n)][s + _split(n)])
  BY <1>1, RootSplits
<1>6. ASSUME NEW n \in 2..M, NEW s \in 0..M - n
      PROVE  Q[n][s] = _node(Q[_split(n)][s], Q[n - _split(n)][s + _split(n)])
  <2> HIDE DEF g
  <2> QED  BY <1>1, RootSplits
<1> HIDE DEF N, g, M, R, Q
<1>7. ASSUME NEW n \in 0..N, 0..n - 1 \subseteq T PROVE n \in T
  <2> SUFFICES ASSUME NEW u \in 0..N, 2 * u + n <= N, 2 * u + n = N \/ n % 2 = 0, n # 0
               PROVE  R[n][2 * u] = Q[(n + 1) \div 2][u]
    OBVIOUS
  <2>1. \A x \in 0..n - 1 : \A y \in 0..N :
           2 * y + x <= N /\ (2 * y + x = N \/ x % 2 = 0) /\ x # 0 =>
             R[x][2 * y] = Q[(x + 1) \div 2][y]
    <3> SUFFICES ASSUME NEW x \in 0..n - 1
                 PROVE  \A y \in 0..N :
                          2 * y + x <= N /\ (2 * y + x = N \/ x % 2 = 0) /\ x # 0 =>
                            R[x][2 * y] = Q[(x + 1) \div 2][y]
      OBVIOUS
    <3>1. x \in T  BY <1>7
    <3> QED  BY <3>1
  <2> HIDE DEF T
  <2>2. n \in Nat /\ u \in Nat  BY <1>1
  <2>3. CASE n = 1
    <3>1. 2 * u + 1 = N  BY <1>1, <2>2, <2>3
    <3>2. 2 * u \in 0..N /\ u \in 0..M /\ u + 1 \in 1..M /\ ~ (2 * (u + 1) <= N)
      BY <1>1, <2>2, <3>1
    <3>3. R[1][2 * u] = h[2 * u + 1]  BY <1>3, <3>2
    <3>4. Q[1][u] = g[u + 1]  BY <1>4, <3>2
    <3>5. g[u + 1] = h[2 * (u + 1) - 1]  BY <1>2, <3>2
    <3>6. 2 * (u + 1) - 1 = 2 * u + 1 /\ (1 + 1) \div 2 = 1  BY <2>2
    <3> QED  BY <2>3, <3>3, <3>4, <3>5, <3>6
  <2>4. CASE n = 2
    <3>1. 2 * u \in 0..N /\ 2 * u + 1 \in 0..N /\ u \in 0..M /\ u + 1 \in 1..M
          /\ 2 * (u + 1) <= N /\ 2 * u \in 0..N - 2 /\ 2 \in 2..N
      BY <1>1, <2>2, <2>4
    <3>2. _split(2) = 1 /\ 2 - _split(2) = 1
      <4>1. _split(2) \in 1..2 - 1  BY SplitIn
      <4> QED  BY <4>1
    <3>3. R[2][2 * u] = _node(R[1][2 * u], R[1][2 * u + 1])  BY <1>5, <3>1, <3>2
    <3>4. R[1][2 * u] = h[2 * u + 1] /\ R[1][2 * u + 1] = h[2 * u + 1 + 1]  BY <1>3, <3>1
    <3>5. Q[1][u] = g[u + 1]  BY <1>4, <3>1
    <3>6. g[u + 1] = _node(h[2 * (u + 1) - 1], h[2 * (u + 1)])  BY <1>2, <3>1
    <3>7. 2 * (u + 1) - 1 = 2 * u + 1 /\ 2 * (u + 1) = 2 * u + 1 + 1 /\ (2 + 1) \div 2 = 1
      BY <2>2
    <3> QED  BY <2>4, <3>3, <3>4, <3>5, <3>6, <3>7
  <2>5. CASE n > 2
    <3> DEFINE k == (n + 1) \div 2
               c == _split(k)
    <3>1. k \in Nat /\ k > 1 /\ n <= 2 * k /\ 2 * k <= n + 1 /\ n \in 2..N /\ 2 * u \in 0..N - n
          /\ k \in 2..M /\ u \in 0..M - k
      BY <1>1, <2>2, <2>5
    <3>2. _split(n) = 2 * c  BY <2>2, <2>5, SplitOfPairs
    <3>3. c \in 1..k - 1  BY <3>1, SplitIn
    <3>4. R[n][2 * u] = _node(R[_split(n)][2 * u], R[n - _split(n)][2 * u + _split(n)])
      BY <1>5, <3>1
    <3>5. Q[k][u] = _node(Q[c][u], Q[k - c][u + c])  BY <1>6, <3>1
    <3>6. _split(n) \in 1..n - 1 /\ n - _split(n) \in 1..n - 1  BY <3>1, SplitIn
    <3> HIDE DEF c
    <3>7. R[2 * c][2 * u] = Q[c][u]
      <4>1. 2 * c \in 0..n - 1 /\ u \in 0..N /\ 2 * u + 2 * c <= N /\ (2 * c) % 2 = 0 /\ 2 * c # 0
            /\ (2 * c + 1) \div 2 = c
        BY <1>1, <2>2, <3>2, <3>3, <3>6
      <4> DEFINE x == 2 * c
      <4> HIDE DEF x
      <4>2. R[x][2 * u] = Q[(x + 1) \div 2][u]  BY <2>1, <4>1 DEF x
      <4> QED  BY <4>1, <4>2 DEF x
    <3>8. R[n - 2 * c][2 * (u + c)] = Q[k - c][u + c]
      <4> DEFINE x == n - 2 * c
                 y == u + c
      <4>1. /\ x \in 0..n - 1 /\ y \in 0..N /\ 2 * y + x <= N /\ x # 0
            /\ (x + 1) \div 2 = k - c /\ (2 * y + x = N \/ x % 2 = 0)
        <5>1. x \in 0..n - 1 /\ x # 0  BY <3>2, <3>6
        <5>2. y \in 0..N  BY <1>1, <2>2, <3>2, <3>3, <3>6
        <5>3. 2 * y + x = 2 * u + n  BY <2>2, <3>3
        <5>4. x % 2 = n % 2  BY <2>2, <3>3
        <5>5. (x + 1) \div 2 = k - c  BY <2>2, <3>3
        <5> QED  BY <5>1, <5>2, <5>3, <5>4, <5>5
      <4> HIDE DEF x, y
      <4>2. R[x][2 * y] = Q[(x + 1) \div 2][y]  BY <2>1, <4>1
      <4> QED  BY <4>1, <4>2 DEF x, y
    <3>9. 2 * (u + c) = 2 * u + 2 * c  BY <2>2, <3>3
    <3> QED  BY <3>2, <3>4, <3>5, <3>7, <3>8, <3>9
  <2> QED  BY <2>2, <2>3, <2>4, <2>5
<1>8. N \in T
  <2> HIDE DEF T
  <2>1. 0..N \subseteq T  BY <1>1, <1>7, UpTo
  <2> QED  BY <1>1, <2>1
<1>9. R[N][2 * 0] = Q[(N + 1) \div 2][0]
  <2>1. 0 \in 0..N /\ 2 * 0 + N <= N /\ 2 * 0 + N = N /\ N # 0  BY <1>1
  <2> QED  BY <1>8, <2>1
<1>10. R[N][0] = Q[M][0]  BY <1>1, <1>9, 2 * 0 = 0
<1> QED  BY <1>10 DEF N, M, R, Q, g

(* The recursion over the levels defines a function. *)
LEMMA LevelsDef ==
  ASSUME NEW hashes, Len(hashes) \in Nat
  PROVE  /\ Levels(hashes)[0] = hashes
         /\ \A l \in 1..Len(hashes) : Levels(hashes)[l] = Paired(Levels(hashes)[l - 1])
<1> DEFINE N == Len(hashes)
           Step(g, l) == IF l = 0 THEN hashes ELSE Paired(g[l - 1])
           T == {m \in 0..N : \E g : \A l \in 0..m : g[l] = Step(g, l)}
<1>1. ASSUME NEW m \in 0..N, 0..m - 1 \subseteq T PROVE m \in T
  <2>1. PICK g : \A l \in 0..m - 1 : g[l] = Step(g, l)
    <3>1. CASE m = 0  BY <3>1
    <3>2. CASE m # 0
      <4>1. m - 1 \in 0..m - 1  BY <3>2
      <4>2. m - 1 \in T  BY <1>1, <4>1
      <4> QED  BY <4>2
    <3> QED  BY <3>1, <3>2
  <2> DEFINE h == [l \in 0..N |-> Step(g, l)]
  <2>2. \A l \in 0..m - 1 : h[l] = g[l]  BY <2>1
  <2>3. ASSUME NEW l \in 0..m PROVE h[l] = Step(h, l)
    <3>1. h[l] = Step(g, l)  OBVIOUS
    <3> HIDE DEF h
    <3>2. l # 0 => h[l - 1] = g[l - 1]  BY <2>2
    <3> QED  BY <3>1, <3>2
  <2> HIDE DEF h
  <2> QED  BY <2>3
<1>2. N \in T
  <2> HIDE DEF T
  <2>1. 0..N \subseteq T  BY <1>1, UpTo
  <2> QED  BY <2>1
<1> PICK g : \A l \in 0..N : g[l] = Step(g, l)  BY <1>2
<1> DEFINE f == [l \in 0..N |-> g[l]]
<1>3. \A l \in 0..N : f[l] = g[l]  OBVIOUS
<1>4. f = [l \in 0..N |-> f[l]]  OBVIOUS
<1> HIDE DEF f
<1>5. \A l \in 0..N : f[l] = Step(f, l)
  <2> SUFFICES ASSUME NEW l \in 0..N PROVE f[l] = Step(f, l)  OBVIOUS
  <2>1. l # 0 => f[l - 1] = g[l - 1]  BY <1>3
  <2> QED  BY <1>3, <2>1
<1>6. f = [l \in 0..N |-> Step(f, l)]  BY <1>4, <1>5
<1>7. \E r : r = [l \in 0..N |-> Step(r, l)]  BY <1>6
<1> DEFINE c == CHOOSE r : r = [l \in 0..N |-> Step(r, l)]
<1>8. c = [l \in 0..N |-> Step(c, l)]  BY <1>7
<1>9. Levels(hashes) = c  BY DEF Levels
<1> HIDE DEF c
<1>10. \A l \in 0..N : c[l] = Step(c, l)  BY <1>8
<1>11. c[0] = hashes  BY <1>10
<1>12. \A l \in 1..N : c[l] = Paired(c[l - 1])  BY <1>10
<1> QED  BY <1>9, <1>11, <1>12

(* Each level at least halves what is more than one. *)
LEMMA Halving ==
  ASSUME NEW x \in Nat \ {0}, NEW l \in Nat \ {0}, NEW N \in Nat, x = 1 \/ x + (l - 1) <= N
  PROVE  (x + 1) \div 2 \in Nat \ {0} /\ ((x + 1) \div 2 = 1 \/ (x + 1) \div 2 + l <= N)
<1>1. CASE x = 1
  <2>1. (1 + 1) \div 2 = 1  OBVIOUS
  <2> QED  BY <1>1, <2>1
<1>2. CASE x # 1
  <2>1. x > 1  BY <1>2
  <2>2. 2 * ((x + 1) \div 2) <= x + 1 /\ x <= 2 * ((x + 1) \div 2) /\ (x + 1) \div 2 \in Int
    OBVIOUS
  <2> PICK y \in Int : y = (x + 1) \div 2  BY <2>2
  <2>3. y \in Nat \ {0} /\ y <= x - 1  BY <2>1, <2>2
  <2>4. y + l <= N  BY <1>2, <2>3
  <2> QED  BY <2>3, <2>4
<1> QED  BY <1>1, <1>2

(* Pairing halves a level, rounded up, and keeps its root. *)
LEMMA TopOfLevels ==
  ASSUME NEW hashes, Len(hashes) \in Nat \ {0}
  PROVE  Levels(hashes)[Len(hashes)][1] = Roots(hashes)[Len(hashes)][0]
<1> DEFINE N == Len(hashes)
           V == Levels(hashes)
           top == Roots(hashes)[N][0]
           T == {l \in 0..N : /\ Len(V[l]) \in Nat \ {0}
                              /\ (Len(V[l]) = 1 \/ Len(V[l]) + l <= N)
                              /\ Roots(V[l])[Len(V[l])][0] = top}
<1>1. N \in Nat /\ N > 0  OBVIOUS
<1>2. V[0] = hashes /\ \A l \in 1..N : V[l] = Paired(V[l - 1])  BY <1>1, LevelsDef
<1>3. Roots(V[0])[Len(V[0])][0] = top /\ Len(V[0]) = N  BY <1>2
<1> HIDE DEF N, V, top
<1>4. ASSUME NEW l \in 0..N, 0..l - 1 \subseteq T PROVE l \in T
  <2>1. CASE l = 0  BY <1>1, <1>3, <2>1
  <2>2. CASE l # 0
    <3>1. l - 1 \in 0..l - 1 /\ l \in 1..N  BY <1>1, <2>2
    <3>2. l - 1 \in T  BY <1>4, <3>1
    <3> PICK h : h = V[l - 1]  OBVIOUS
    <3>3. /\ Len(h) \in Nat \ {0} /\ (Len(h) = 1 \/ Len(h) + (l - 1) <= N)
          /\ Roots(h)[Len(h)][0] = top /\ V[l] = Paired(h)
      BY <1>2, <3>1, <3>2
    <3>4. Len(V[l]) = (Len(h) + 1) \div 2  BY <3>3, PairedAt
    <3>5. Roots(V[l])[Len(V[l])][0] = top  BY <3>3, PairedRoots
    <3>6. Len(V[l]) \in Nat \ {0} /\ (Len(V[l]) = 1 \/ Len(V[l]) + l <= N)
      <4> DEFINE x == Len(h)
                 y == Len(V[l])
      <4>1. x \in Nat \ {0} /\ (x = 1 \/ x + (l - 1) <= N) /\ y = (x + 1) \div 2
        BY <3>3, <3>4
      <4>2. l \in Nat \ {0}  BY <1>1, <3>1
      <4> HIDE DEF x, y
      <4>3. (x + 1) \div 2 \in Nat \ {0} /\ ((x + 1) \div 2 = 1 \/ (x + 1) \div 2 + l <= N)
        BY <1>1, <4>1, <4>2, Halving
      <4>4. y \in Nat \ {0} /\ (y = 1 \/ y + l <= N)  BY <4>1, <4>3
      <4> QED  BY <4>4 DEF y
    <3> QED  BY <3>5, <3>6
  <2> QED  BY <2>1, <2>2
<1>5. N \in T
  <2> HIDE DEF T
  <2>1. 0..N \subseteq T  BY <1>1, <1>4, UpTo
  <2> QED  BY <1>1, <2>1
<1> PICK h : h = V[N]  OBVIOUS
<1>6. Len(h) = 1 /\ Roots(h)[1][0] = top
  <2> PICK x : x = Len(h)  OBVIOUS
  <2>1. x \in Nat \ {0} /\ (x = 1 \/ x + N <= N) /\ Roots(h)[x][0] = top  BY <1>5
  <2>2. x = 1  BY <1>1, <2>1
  <2> QED  BY <2>1, <2>2
<1>7. Roots(h)[1][0] = h[0 + 1]
  <2>1. Len(h) \in Nat /\ 0 \in 0..Len(h) /\ Len(h) > 0  BY <1>6
  <2> QED  BY <2>1, RootOf
<1>8. V[N][1] = top  BY <1>6, <1>7, 0 + 1 = 1
<1> QED  BY <1>8 DEF N, V, top

-----------------------------------------------------------------------------
(* Leaves. *)

(* The hashes of the leaves, one for each. *)
LEMMA LeafHashesAt ==
  ASSUME NEW S, NEW leaves \in Seq(Seq(S))
  PROVE  /\ Len(leaves) \in Nat /\ Len(LeafHashes(leaves)) = Len(leaves)
         /\ \A i \in 1..Len(leaves) :
              LeafHashes(leaves)[i] = _leaf(leaves[i]) /\ leaves[i] \in Seq(S)
         /\ Hashed(S, LeafHashes(leaves))
<1>1. Len(leaves) \in Nat  OBVIOUS
<1>2. Len(LeafHashes(leaves)) = Len(leaves)  BY <1>1 DEF LeafHashes
<1>3. \A i \in 1..Len(leaves) : LeafHashes(leaves)[i] = _leaf(leaves[i])  BY DEF LeafHashes
<1>4. \A i \in 1..Len(leaves) : leaves[i] \in Seq(S)  OBVIOUS
<1>5. Hashed(S, LeafHashes(leaves))
  <2>1. \A i \in 1..Len(LeafHashes(leaves)) :
           \E d \in Seq(S) : LeafHashes(leaves)[i] = _leaf(d)
    BY <1>2, <1>3, <1>4
  <2> QED  BY <1>1, <1>2, <2>1 DEF Hashed
<1> QED  BY <1>1, <1>2, <1>3, <1>4, <1>5

(* root in merkle.py: trees of different sheets have different roots.  The *)
(* root alone fixes how many sheets it covers, which, and in which order.  *)
THEOREM RootFixesSheets ==
  ASSUME NEW S, NEW leaves \in Seq(Seq(S)), NEW others \in Seq(Seq(S)),
         root(leaves) = root(others)
  PROVE  leaves = others
<1> DEFINE g == LeafHashes(leaves)
           h == LeafHashes(others)
<1>1. /\ Len(leaves) \in Nat /\ Len(g) = Len(leaves) /\ Hashed(S, g)
      /\ \A i \in 1..Len(leaves) : g[i] = _leaf(leaves[i]) /\ leaves[i] \in Seq(S)
  BY LeafHashesAt
<1>2. /\ Len(others) \in Nat /\ Len(h) = Len(others) /\ Hashed(S, h)
      /\ \A i \in 1..Len(others) : h[i] = _leaf(others[i]) /\ others[i] \in Seq(S)
  BY LeafHashesAt
<1>3. Roots(g)[Len(g)][0] = Roots(h)[Len(h)][0]  BY <1>1, <1>2 DEF root
<1> HIDE DEF g, h
<1>4. SameLeaves(g, Len(g), 0, h, Len(h), 0)
  <2>1. Len(g) \in 0..Len(g) /\ 0 \in 0..Len(g) - Len(g)
        /\ Len(h) \in 0..Len(h) /\ 0 \in 0..Len(h) - Len(h)
    BY <1>1, <1>2
  <2> QED  BY <1>1, <1>2, <1>3, <2>1, RootsDiffer
<1>5. Len(leaves) = Len(others) /\ \A i \in 1..Len(leaves) : g[i] = h[i]
  <2>1. Len(g) = Len(h) /\ \A i \in 1..Len(g) : g[0 + i] = h[0 + i]  BY <1>4 DEF SameLeaves
  <2>2. \A i \in 1..Len(g) : 0 + i = i  BY <1>1
  <2> QED  BY <1>1, <1>2, <2>1, <2>2
<1>6. ASSUME NEW i \in 1..Len(leaves) PROVE leaves[i] = others[i]
  <2>1. /\ leaves[i] \in Seq(S) /\ others[i] \in Seq(S)
        /\ _leaf(leaves[i]) = _leaf(others[i])
    BY <1>1, <1>2, <1>5
  <2> QED  BY <2>1, LeavesDiffer
<1> QED  BY <1>5, <1>6, SeqEqual

(* proof and verify_proof in merkle.py: the path cut for a sheet verifies  *)
(* that sheet, at its position, against the root of the tree.              *)
THEOREM ProofsVerify ==
  ASSUME NEW S, NEW leaves \in Seq(Seq(S)), NEW m \in 0..Len(leaves) - 1
  PROVE  verify_proof(leaves[m + 1], m, Len(leaves), proof(leaves, m), root(leaves))
<1> DEFINE h == LeafHashes(leaves)
           N == Len(leaves)
<1>1. N \in Nat /\ Len(h) = N /\ Hashed(S, h) /\ \A i \in 1..N : h[i] = _leaf(leaves[i])
  BY LeafHashesAt
<1>2. proof(leaves, m) = Proofs(h)[N][0][m] /\ root(leaves) = Roots(h)[N][0]
  BY DEF proof, root
<1> HIDE DEF h, N
<1>3. N \in 1..Len(h) /\ 0 \in 0..Len(h) - N /\ m \in 0..N - 1 /\ 0 + m + 1 = m + 1
      /\ m + 1 \in 1..N
  BY <1>1 DEF N
<1>4. _from_proof(h[0 + m + 1], Proofs(h)[N][0][m])[m][N] = Roots(h)[N][0]
  <2>1. Leads(h, N, 0, m)  BY <1>1, <1>3, PathsVerify
  <2> QED  BY <2>1 DEF Leads
<1>5. _from_proof(_leaf(leaves[m + 1]), proof(leaves, m))[m][N] = root(leaves)
  BY <1>1, <1>2, <1>3, <1>4
<1>6. 0 <= m /\ m < N  BY <1>1, <1>3
<1> QED  BY <1>5, <1>6 DEF verify_proof, N

ProvesASheet(leaves, d, index, tree_size, path) ==
  \E m \in 0..Len(leaves) - 1 :
    d = leaves[m + 1] /\ path = proof(leaves, m) /\ (tree_size = Len(leaves) => index = m)

(* verify_proof in merkle.py: no path of digests, position and tree size   *)
(* whatever they are, verify anything against the root of a tree but one   *)
(* of its sheets by its own path; and with the right tree size, no         *)
(* position but the sheet's own.                                           *)
THEOREM VerifiedIsASheet ==
  ASSUME NEW S, NEW leaves \in Seq(Seq(S)), NEW d \in Seq(S),
         NEW D, \A x \in D : Digest(x), NEW path \in Seq(D),
         NEW index \in Int, NEW tree_size \in Nat,
         verify_proof(d, index, tree_size, path, root(leaves))
  PROVE  ProvesASheet(leaves, d, index, tree_size, path)
<1> DEFINE h == LeafHashes(leaves)
           N == Len(leaves)
<1>1. /\ N \in Nat /\ Len(h) = N /\ Hashed(S, h)
      /\ \A i \in 1..N : h[i] = _leaf(leaves[i]) /\ leaves[i] \in Seq(S)
  BY LeafHashesAt
<1>2. root(leaves) = Roots(h)[N][0] /\ \A m : proof(leaves, m) = Proofs(h)[N][0][m]
  BY DEF proof, root
<1> HIDE DEF h, N
<1>3. _from_proof(_leaf(d), path)[index][tree_size] = Roots(h)[N][0]
  BY <1>2 DEF verify_proof
<1>4. tree_size \in Nat \ {0} /\ index \in 0..tree_size - 1
  BY DEF verify_proof
<1>5. N \in 0..Len(h) /\ 0 \in 0..Len(h) - N  BY <1>1
<1>6. \E m \in 0..N - 1 : /\ _leaf(d) = h[0 + m + 1] /\ path = Proofs(h)[N][0][m]
                          /\ tree_size = N => index = m
  <2>1. IsPath(h, N, 0, _leaf(d), path, index, tree_size)
    BY <1>1, <1>3, <1>4, <1>5, PathsBind
  <2> QED  BY <2>1 DEF IsPath
<1> PICK m \in 0..N - 1 : /\ _leaf(d) = h[0 + m + 1] /\ path = Proofs(h)[N][0][m]
                          /\ tree_size = N => index = m
  BY <1>6
<1>7. m + 1 \in 1..N /\ 0 + m + 1 = m + 1  BY <1>1
<1>8. _leaf(d) = _leaf(leaves[m + 1]) /\ leaves[m + 1] \in Seq(S)  BY <1>1, <1>7
<1>9. d = leaves[m + 1]  BY <1>8, LeavesDiffer
<1> QED  BY <1>2, <1>9 DEF N, ProvesASheet

(* root in merkle.py: the split at the largest power of two gives the root *)
(* that pairing level by level gives.                                      *)
THEOREM LevelRootIsRoot ==
  ASSUME NEW S, NEW leaves \in Seq(Seq(S))
  PROVE  LevelRoot(leaves) = root(leaves)
<1> DEFINE h == LeafHashes(leaves)
           N == Len(leaves)
<1>1. N \in Nat /\ Len(h) = N  BY LeafHashesAt
<1>2. root(leaves) = Roots(h)[N][0]  BY DEF root
<1>3. leaves = << >> <=> N = 0  BY DEF N
<1>4. CASE N = 0
  <2>1. LevelRoot(leaves) = sha256(<< >>)  BY <1>3, <1>4 DEF LevelRoot
  <2> HIDE DEF h, N
  <2>2. Len(h) \in Nat /\ 0 \in 0..Len(h)  BY <1>1
  <2>3. Roots(h)[0][0] = sha256(<< >>)  BY <2>2, RootOf
  <2> QED  BY <1>2, <1>4, <2>1, <2>3
<1>5. CASE N # 0
  <2>1. LevelRoot(leaves) = Levels(h)[N][1]  BY <1>3, <1>5 DEF LevelRoot
  <2> HIDE DEF h, N
  <2>2. Len(h) \in Nat \ {0}  BY <1>1, <1>5
  <2>3. Levels(h)[Len(h)][1] = Roots(h)[Len(h)][0]  BY <2>2, TopOfLevels
  <2> QED  BY <1>1, <1>2, <2>1, <2>3
<1> QED  BY <1>4, <1>5

-----------------------------------------------------------------------------
(* The sheets and the checkpoint. *)

Blocks == {<<"block", i>> : i \in Nat}

(* Every sheet has a hash of its own, and what is signed is the root of    *)
(* the first sheets, as many as there were.                                *)
TreeInv ==
  /\ sheets \in Seq(Seq(Blocks))
  /\ \A i \in 1..Len(sheets) : sheets[i] = BlockHash(i - 1)
  /\ checkpoint # NoCheckpoint =>
       \E t \in 0..Len(sheets) : checkpoint = Signed(SubSeq(sheets, 1, t))

(* The block hashes of different sheets are different strings. *)
LEMMA BlockHashIn ==
  ASSUME NEW i \in Nat
  PROVE  BlockHash(i) \in Seq(Blocks) /\ \A j \in Nat : BlockHash(i) = BlockHash(j) => i = j
<1>1. <<"block", i>> \in Blocks  BY DEF Blocks
<1>2. BlockHash(i) \in Seq(Blocks)  BY <1>1 DEF BlockHash
<1>3. ASSUME NEW j \in Nat, BlockHash(i) = BlockHash(j) PROVE i = j
  <2>1. BlockHash(i)[1] = <<"block", i>> /\ BlockHash(j)[1] = <<"block", j>>
    BY DEF BlockHash
  <2>2. <<"block", i>> = <<"block", j>>  BY <1>3, <2>1
  <2> QED  BY <2>2
<1> QED  BY <1>2, <1>3

(* The first t elements of a sequence. *)
LEMMA Prefix ==
  ASSUME NEW S, NEW s \in Seq(S), NEW t \in 0..Len(s)
  PROVE  /\ SubSeq(s, 1, t) \in Seq(S) /\ Len(SubSeq(s, 1, t)) = t
         /\ \A i \in 1..t : SubSeq(s, 1, t)[i] = s[i]
<1>1. \A i \in 1..t : s[i] \in S  OBVIOUS
<1>2. /\ SubSeq(s, 1, t) \in Seq(S) /\ Len(SubSeq(s, 1, t)) = IF 1 <= t THEN t - 1 + 1 ELSE 0
      /\ \A i \in 1..t - 1 + 1 : SubSeq(s, 1, t)[i] = s[1 + i - 1]
  BY <1>1, SubSeqProperties
<1>3. Len(SubSeq(s, 1, t)) = t  BY <1>2
<1>4. ASSUME NEW i \in 1..t PROVE SubSeq(s, 1, t)[i] = s[i]
  <2>1. i \in 1..t - 1 + 1 /\ 1 + i - 1 = i  OBVIOUS
  <2> QED  BY <1>2, <2>1
<1> QED  BY <1>2, <1>3, <1>4

(* create_checkpoint in results_core.py: at all times the signed root is   *)
(* that of the sheets there were when it was signed, which are still the   *)
(* first ones, unchanged.                                                  *)
THEOREM SignedIsPrefix == SpecTree => []TreeInv
<1>1. InitTree => TreeInv  BY DEF InitTree, TreeInv
<1>2. TreeInv /\ [NextTree]_treeVars => TreeInv'
  <2> SUFFICES ASSUME TreeInv, [NextTree]_treeVars PROVE TreeInv'  OBVIOUS
  <2>1. /\ sheets \in Seq(Seq(Blocks)) /\ Len(sheets) \in Nat
        /\ \A i \in 1..Len(sheets) : sheets[i] = BlockHash(i - 1)
    BY DEF TreeInv
  <2>2. CASE submit_sheet
    <3> DEFINE b == BlockHash(Len(sheets))
    <3>1. sheets' = Append(sheets, b) /\ checkpoint' = checkpoint  BY <2>2 DEF submit_sheet
    <3>2. b \in Seq(Blocks)  BY <2>1, BlockHashIn
    <3>3. /\ sheets' \in Seq(Seq(Blocks)) /\ Len(sheets') = Len(sheets) + 1
          /\ sheets'[Len(sheets) + 1] = b
          /\ \A i \in 1..Len(sheets) : sheets'[i] = sheets[i]
      <4> HIDE DEF b
      <4> QED  BY <2>1, <3>1, <3>2
    <3>4. ASSUME NEW i \in 1..Len(sheets') PROVE sheets'[i] = BlockHash(i - 1)
      <4>1. CASE i = Len(sheets) + 1
        <5>1. i - 1 = Len(sheets)  BY <2>1, <4>1
        <5> QED  BY <3>3, <4>1, <5>1
      <4>2. CASE i # Len(sheets) + 1
        <5>1. i \in 1..Len(sheets)  BY <2>1, <3>3, <4>2
        <5> QED  BY <2>1, <3>3, <5>1
      <4> QED  BY <4>1, <4>2
    <3>5. ASSUME checkpoint' # NoCheckpoint
          PROVE  \E t \in 0..Len(sheets') : checkpoint' = Signed(SubSeq(sheets', 1, t))
      <4> PICK t \in 0..Len(sheets) : checkpoint = Signed(SubSeq(sheets, 1, t))
        BY <3>1, <3>5 DEF TreeInv
      <4>1. SubSeq(sheets', 1, t) = SubSeq(sheets, 1, t)
        <5>1. t \in 0..Len(sheets')  BY <2>1, <3>3
        <5>2. /\ SubSeq(sheets, 1, t) \in Seq(Seq(Blocks)) /\ Len(SubSeq(sheets, 1, t)) = t
              /\ \A i \in 1..t : SubSeq(sheets, 1, t)[i] = sheets[i]
          BY <2>1, Prefix
        <5>3. /\ SubSeq(sheets', 1, t) \in Seq(Seq(Blocks)) /\ Len(SubSeq(sheets', 1, t)) = t
              /\ \A i \in 1..t : SubSeq(sheets', 1, t)[i] = sheets'[i]
          BY <3>3, <5>1, Prefix
        <5>4. ASSUME NEW i \in 1..t PROVE sheets'[i] = sheets[i]
          <6>1. i \in 1..Len(sheets)  BY <2>1
          <6> QED  BY <3>3, <6>1
        <5> QED  BY <5>2, <5>3, <5>4, SeqEqual
      <4>2. t \in 0..Len(sheets')  BY <2>1, <3>3
      <4> QED  BY <3>1, <4>1, <4>2
    <3> QED  BY <3>3, <3>4, <3>5 DEF TreeInv
  <2>3. CASE create_checkpoint
    <3>1. sheets' = sheets /\ checkpoint' = Signed(sheets)  BY <2>3 DEF create_checkpoint
    <3>2. SubSeq(sheets, 1, Len(sheets)) = sheets  BY <2>1, SubSeqFull
    <3>3. Len(sheets) \in 0..Len(sheets)  BY <2>1
    <3>4. \E t \in 0..Len(sheets) : Signed(sheets) = Signed(SubSeq(sheets, 1, t))
      BY <3>2, <3>3
    <3> QED  BY <2>1, <3>1, <3>4 DEF TreeInv
  <2>4. CASE UNCHANGED treeVars  BY <2>4 DEF treeVars, TreeInv
  <2> QED  BY <2>2, <2>3, <2>4 DEF NextTree
<1> QED  BY <1>1, <1>2, PTL DEF SpecTree

(* What arrived are strings of tokens, known by their position. *)
LEMMA SheetsIn ==
  ASSUME TreeInv
  PROVE  /\ sheets \in Seq(Seq(Blocks)) /\ Len(sheets) \in Nat
         /\ \A i \in 1..Len(sheets) : sheets[i] = BlockHash(i - 1)
BY DEF TreeInv

(* The sheets the checkpoint covers. *)
LEMMA CoveredSheets ==
  ASSUME TreeInv, checkpoint # NoCheckpoint
  PROVE  \E t \in 0..Len(sheets), leaves \in Seq(Seq(Blocks)) :
           /\ leaves = SubSeq(sheets, 1, t) /\ Len(leaves) = t
           /\ \A i \in 1..t : leaves[i] = sheets[i]
           /\ checkpoint.tree_size = t /\ checkpoint.root = root(leaves)
<1> PICK t \in 0..Len(sheets) : checkpoint = Signed(SubSeq(sheets, 1, t))  BY DEF TreeInv
<1> DEFINE leaves == SubSeq(sheets, 1, t)
<1>1. sheets \in Seq(Seq(Blocks))  BY DEF TreeInv
<1>2. /\ leaves \in Seq(Seq(Blocks)) /\ Len(leaves) = t
      /\ \A i \in 1..t : leaves[i] = sheets[i]
  BY <1>1, Prefix
<1>3. checkpoint.tree_size = Len(leaves) /\ checkpoint.root = root(leaves)  BY DEF Signed
<1> QED  BY <1>2, <1>3

(* inclusion_proof in results_core.py: every sheet the server takes as     *)
(* covered gets a proof that verifies against the signed root, however     *)
(* many sheets arrived since it was signed.                                *)
THEOREM EveryCoveredSheetProves == SpecTree => []CoveredSheetsProve
<1>1. TreeInv => CoveredSheetsProve
  <2> SUFFICES ASSUME TreeInv, NEW pos \in Positions, Covered(pos)
               PROVE  Verifies(inclusion_proof(pos))
    BY DEF CoveredSheetsProve
  <2>1. checkpoint # NoCheckpoint /\ pos < checkpoint.tree_size  BY DEF Covered
  <2> PICK t \in 0..Len(sheets), leaves \in Seq(Seq(Blocks)) :
             /\ leaves = SubSeq(sheets, 1, t) /\ Len(leaves) = t
             /\ \A i \in 1..t : leaves[i] = sheets[i]
             /\ checkpoint.tree_size = t /\ checkpoint.root = root(leaves)
    BY <2>1, CoveredSheets
  <2>2. pos \in 0..Len(leaves) - 1 /\ pos + 1 \in 1..t
    <3>1. Len(sheets) \in Nat  BY DEF TreeInv
    <3>2. pos \in 0..Len(sheets) - 1 /\ pos < t  BY <2>1 DEF Positions
    <3> QED  BY <3>1, <3>2
  <2>3. verify_proof(leaves[pos + 1], pos, Len(leaves), proof(leaves, pos), root(leaves))
    BY <2>2, ProofsVerify
  <2> DEFINE p == inclusion_proof(pos)
  <2>4. /\ p.leaf = leaves[pos + 1] /\ p.leaf_index = pos /\ p.tree_size = Len(leaves)
        /\ p.path = proof(leaves, pos) /\ p.root = root(leaves)
    BY <2>2 DEF inclusion_proof
  <2> HIDE DEF p
  <2>5. Verifies(p)  BY <2>3, <2>4 DEF Verifies
  <2> QED  BY <2>5 DEF p
<1> QED  BY <1>1, SignedIsPrefix, PTL

(* create_checkpoint in results_core.py: the signed root is that of the    *)
(* standard's tree over the sheets it covers, and of no other number of    *)
(* the sheets.                                                             *)
THEOREM SignedRootIsThatOfRFC6962 == SpecTree => []SignedRootIsStandard
<1>1. TreeInv => SignedRootIsStandard
  <2> SUFFICES ASSUME TreeInv, checkpoint # NoCheckpoint, NEW n \in 0..Len(sheets)
               PROVE  (LevelRoot(SubSeq(sheets, 1, n)) = checkpoint.root)
                        <=> (n = checkpoint.tree_size)
    BY DEF SignedRootIsStandard
  <2> PICK t \in 0..Len(sheets), leaves \in Seq(Seq(Blocks)) :
             /\ leaves = SubSeq(sheets, 1, t) /\ Len(leaves) = t
             /\ \A i \in 1..t : leaves[i] = sheets[i]
             /\ checkpoint.tree_size = t /\ checkpoint.root = root(leaves)
    BY CoveredSheets
  <2> DEFINE others == SubSeq(sheets, 1, n)
  <2>1. others \in Seq(Seq(Blocks)) /\ Len(others) = n
    <3>1. sheets \in Seq(Seq(Blocks))  BY DEF TreeInv
    <3> QED  BY <3>1, Prefix
  <2>2. n = t => others = leaves  OBVIOUS
  <2> HIDE DEF others
  <2>3. LevelRoot(others) = root(others)  BY <2>1, LevelRootIsRoot
  <2>4. root(others) = root(leaves) => others = leaves  BY <2>1, RootFixesSheets
  <2>5. (LevelRoot(others) = checkpoint.root) <=> (n = checkpoint.tree_size)
    BY <2>1, <2>2, <2>3, <2>4
  <2> QED  BY <2>5 DEF others
<1> QED  BY <1>1, SignedIsPrefix, PTL

(* A path of the tree, what is left of it, and what is made of it agree    *)
(* read from the end.                                                      *)
LEMMA PathsAgree ==
  ASSUME NEW D, NEW p, p.path \in Seq(D), NEW path \in Paths(p)
  PROVE  path \in Seq(D) /\ AgreeFromEnd(path, p.path)
<1> DEFINE q == p.path
<1>1. q \in Seq(D) /\ Len(q) \in Nat  OBVIOUS
<1>2. \/ \E i \in 1..Len(q) + 1 : path = SubSeq(q, i, Len(q))
      \/ \E i \in 1..Min({1, Len(q)}) : path = <<q[i]>> \o q
  BY DEF Paths
<1> HIDE DEF q
<1>3. ASSUME NEW i \in 1..Len(q) + 1, path = SubSeq(q, i, Len(q))
      PROVE  path \in Seq(D) /\ AgreeFromEnd(path, q)
  <2>1. \A j \in i..Len(q) : q[j] \in D  BY <1>1
  <2>2. /\ path \in Seq(D) /\ Len(path) = IF i <= Len(q) THEN Len(q) - i + 1 ELSE 0
        /\ \A j \in 1..Len(q) - i + 1 : path[j] = q[i + j - 1]
    BY <1>1, <1>3, <2>1, SubSeqProperties
  <2>3. Len(path) = Len(q) - i + 1  BY <1>1, <2>2
  <2>4. ASSUME NEW j \in Nat, j < Len(path), j < Len(q) PROVE path[Len(path) - j] = q[Len(q) - j]
    <3>1. Len(path) - j \in 1..Len(q) - i + 1 /\ i + (Len(path) - j) - 1 = Len(q) - j
      BY <1>1, <2>3, <2>4
    <3> QED  BY <2>2, <3>1
  <2> QED  BY <2>2, <2>4 DEF AgreeFromEnd
<1>4. ASSUME NEW i \in 1..Min({1, Len(q)}), path = <<q[i]>> \o q
      PROVE  path \in Seq(D) /\ AgreeFromEnd(path, q)
  <2>1. Min({1, Len(q)}) \in {1, Len(q)} /\ \A y \in {1, Len(q)} : Min({1, Len(q)}) <= y
    <3>1. \E x \in {1, Len(q)} : \A y \in {1, Len(q)} : x <= y  BY <1>1
    <3> QED  BY <3>1 DEF Min
  <2>2. i \in 1..Len(q)  BY <1>1, <2>1
  <2>3. q[i] \in D  BY <1>1, <2>2
  <2> DEFINE f == <<q[i]>>
  <2>4. f \in Seq(D) /\ Len(f) = 1  BY <2>3
  <2> HIDE DEF f
  <2>5. /\ path \in Seq(D) /\ Len(path) = 1 + Len(q)
        /\ \A j \in 1..1 + Len(q) : path[j] = IF j <= 1 THEN f[j] ELSE q[j - 1]
    BY <1>1, <1>4, <2>4, ConcatProperties DEF f
  <2>6. ASSUME NEW j \in Nat, j < Len(path), j < Len(q) PROVE path[Len(path) - j] = q[Len(q) - j]
    <3>1. /\ Len(path) - j \in 1..1 + Len(q) /\ ~ (Len(path) - j <= 1)
          /\ Len(path) - j - 1 = Len(q) - j
      BY <1>1, <2>5, <2>6
    <3> QED  BY <2>5, <3>1
  <2> QED  BY <2>5, <2>6 DEF AgreeFromEnd
<1> QED  BY <1>2, <1>3, <1>4 DEF q

(* What could be passed off as a sheet is a string of tokens of the tree. *)
LEMMA CandidatesIn ==
  ASSUME NEW D, \A x \in D : Digest(x), NEW p, p.path \in Seq(D), Digest(_leaf(p.leaf)),
         NEW R, sheets \in Seq(Seq(R)), NEW d \in Candidates(p)
  PROVE  d \in Seq(R \cup {x[1] : x \in D} \cup {_leaf(p.leaf)[1], <<"byte", 1>>})
<1> DEFINE own == _leaf(p.leaf)
           S == R \cup {x[1] : x \in D} \cup {own[1], <<"byte", 1>>}
           digests == {p.path[i] : i \in 1..Len(p.path)}
           pairs == {own \o b : b \in digests} \cup {b \o own : b \in digests}
<1>1. d \in Range(sheets) \cup digests \cup pairs \cup {Byte(1) \o ab : ab \in pairs}
  BY DEF Candidates
<1>2. ASSUME NEW e \in Range(sheets) PROVE e \in Seq(S)
  <2>1. e \in Seq(R)  BY <1>2 DEF Range
  <2>2. R \subseteq S  OBVIOUS
  <2> HIDE DEF S
  <2> QED  BY <2>1, <2>2, SeqMonotonic
<1>3. own \in Seq(S)
  <2>1. own = <<own[1]>>  BY DEF Digest
  <2>2. own[1] \in S  OBVIOUS
  <2> HIDE DEF own, S
  <2>3. <<own[1]>> \in Seq(S)  BY <2>2
  <2> QED  BY <2>1, <2>3
<1>4. ASSUME NEW e \in digests PROVE e \in Seq(S)
  <2>1. e \in D  BY <1>4
  <2>2. e = <<e[1]>>  BY <2>1 DEF Digest
  <2>3. e[1] \in S  BY <2>1
  <2> HIDE DEF S
  <2>4. <<e[1]>> \in Seq(S)  BY <2>3
  <2> QED  BY <2>2, <2>4
<1>5. Byte(1) \in Seq(S)
  <2>1. <<"byte", 1>> \in S  OBVIOUS
  <2> HIDE DEF S
  <2> QED  BY <2>1 DEF Byte
<1> HIDE DEF own, S, digests
<1>6. ASSUME NEW e \in pairs PROVE e \in Seq(S)
  <2>1. \E b \in digests : e = own \o b \/ e = b \o own  BY <1>6
  <2> QED  BY <1>3, <1>4, <2>1, ConcatProperties
<1> HIDE DEF pairs
<1>7. \A ab \in pairs : Byte(1) \o ab \in Seq(S)  BY <1>5, <1>6, ConcatProperties
<1>8. d \in Seq(S)  BY <1>1, <1>2, <1>4, <1>6, <1>7
<1> QED  BY <1>8 DEF S, own

(* verify_proof in merkle.py: the path the server gives for a sheet        *)
(* verifies no other bytes, at no position and tree size, not when it is   *)
(* cut or made longer; and with the signed size only the sheet's position. *)
THEOREM PathsBindTheirSheet == SpecTree => []ProofsBindTheSheet
<1>1. TreeInv => ProofsBindTheSheet
  <2> SUFFICES ASSUME TreeInv, NEW pos \in Positions, Covered(pos),
                      NEW d \in Candidates(inclusion_proof(pos)),
                      NEW path \in Paths(inclusion_proof(pos)),
                      NEW size \in 1..Len(sheets) + 1, NEW index \in 0..size - 1,
                      verify_proof(d, index, size, path, inclusion_proof(pos).root)
               PROVE  /\ d = inclusion_proof(pos).leaf /\ path = inclusion_proof(pos).path
                      /\ size = inclusion_proof(pos).tree_size => index = pos
    BY DEF ProofsBindTheSheet
  <2>1. checkpoint # NoCheckpoint /\ pos < checkpoint.tree_size  BY DEF Covered
  <2> PICK t \in 0..Len(sheets), leaves \in Seq(Seq(Blocks)) :
             /\ leaves = SubSeq(sheets, 1, t) /\ Len(leaves) = t
             /\ \A i \in 1..t : leaves[i] = sheets[i]
             /\ checkpoint.tree_size = t /\ checkpoint.root = root(leaves)
    BY <2>1, CoveredSheets
  <2> DEFINE p == inclusion_proof(pos)
             h == LeafHashes(leaves)
             D == Nodes(h)
             S == Blocks \cup {x[1] : x \in D} \cup {_leaf(p.leaf)[1], <<"byte", 1>>}
  <2>2. /\ sheets \in Seq(Seq(Blocks)) /\ Len(sheets) \in Nat
        /\ \A i \in 1..Len(sheets) : sheets[i] = BlockHash(i - 1)
    BY SheetsIn
  <2>3. pos \in 0..t - 1 /\ pos + 1 \in 1..t
    <3>1. pos \in 0..Len(sheets) - 1 /\ pos < t  BY <2>1 DEF Positions
    <3> QED  BY <2>2, <3>1
  <2>4. /\ p.leaf = leaves[pos + 1] /\ p.tree_size = t
        /\ p.path = proof(leaves, pos) /\ p.root = root(leaves)
    BY <2>3 DEF inclusion_proof
  <2>5. /\ d \in Candidates(p) /\ path \in Paths(p) /\ verify_proof(d, index, size, path, p.root)
    OBVIOUS
  <2> SUFFICES d = p.leaf /\ path = p.path /\ (size = p.tree_size => index = pos)
    OBVIOUS
  <2> HIDE DEF p
  <2>6. /\ Len(h) = t /\ Hashed(Blocks, h)
        /\ \A i \in 1..t : h[i] = _leaf(leaves[i])
    BY LeafHashesAt
  <2>7. proof(leaves, pos) = Proofs(h)[t][0][pos] /\ \A m : proof(leaves, m) = Proofs(h)[t][0][m]
    BY DEF proof
  <2> HIDE DEF h
  <2>8. \A x \in D : Digest(x)  BY <2>6, NodesAreDigests
  <2>9. p.path \in Seq(D)
    <3>1. t \in 1..Len(h) /\ 0 \in 0..Len(h) - t  BY <2>2, <2>3, <2>6
    <3>2. Leads(h, t, 0, pos)  BY <2>3, <2>6, <3>1, PathsVerify
    <3> QED  BY <2>4, <2>7, <3>2 DEF Leads
  <2> HIDE DEF D
  <2>10. path \in Seq(D) /\ AgreeFromEnd(path, p.path)  BY <2>5, <2>9, PathsAgree
  <2>11. d \in Seq(S)
    <3>1. Digest(_leaf(p.leaf))  BY Sha256 DEF _leaf
    <3> QED  BY <2>2, <2>5, <2>8, <2>9, <3>1, CandidatesIn
  <2>12. leaves \in Seq(Seq(S))
    <3>1. Blocks \subseteq S  OBVIOUS
    <3> HIDE DEF S
    <3>2. Seq(Blocks) \subseteq Seq(S)  BY <3>1, SeqMonotonic
    <3> QED  BY <3>2, SeqMonotonic
  <2> HIDE DEF S
  <2>13. \E m \in 0..t - 1 : d = leaves[m + 1] /\ path = proof(leaves, m) /\ (size = t => index = m)
    <3>1. index \in Int /\ size \in Nat  BY <2>2
    <3>2. verify_proof(d, index, size, path, root(leaves))  BY <2>4, <2>5
    <3>3. ProvesASheet(leaves, d, index, size, path)
      BY <2>8, <2>10, <2>11, <2>12, <3>1, <3>2, VerifiedIsASheet
    <3> QED  BY <3>3 DEF ProvesASheet
  <2> PICK m \in 0..t - 1 : d = leaves[m + 1] /\ path = proof(leaves, m) /\ (size = t => index = m)
    BY <2>13
  <2>14. m = pos
    <3>1. Distinct(h)
      <4> SUFFICES ASSUME NEW i \in 1..Len(h), NEW j \in 1..Len(h), h[i] = h[j] PROVE i = j
        BY DEF Distinct
      <4>1. i \in 1..t /\ j \in 1..t /\ i \in 1..Len(sheets) /\ j \in 1..Len(sheets)
            /\ i - 1 \in Nat /\ j - 1 \in Nat
        BY <2>2, <2>6
      <4>2. leaves[i] = BlockHash(i - 1) /\ leaves[j] = BlockHash(j - 1)  BY <2>2, <4>1
      <4>3. leaves[i] \in Seq(Blocks) /\ leaves[j] \in Seq(Blocks)  BY <4>1, <4>2, BlockHashIn
      <4>4. _leaf(leaves[i]) = _leaf(leaves[j])  BY <2>6, <4>1
      <4>5. BlockHash(i - 1) = BlockHash(j - 1)  BY <4>2, <4>3, <4>4, LeavesDiffer
      <4>6. i - 1 = j - 1  BY <4>1, <4>5, BlockHashIn
      <4> QED  BY <4>1, <4>6
    <3>2. AgreeFromEnd(Proofs(h)[t][0][m], Proofs(h)[t][0][pos])  BY <2>4, <2>7, <2>10
    <3>3. t \in 1..Len(h) /\ 0 \in 0..Len(h) - t  BY <2>2, <2>3, <2>6
    <3> QED  BY <2>3, <2>6, <3>1, <3>2, <3>3, PathsDiffer
  <2> QED  BY <2>4, <2>14
<1> QED  BY <1>1, SignedIsPrefix, PTL

=============================================================================
