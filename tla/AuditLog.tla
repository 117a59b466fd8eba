------------------------------ MODULE AuditLog ------------------------------
(***************************************************************************)
(* The hash-chained log of administrative actions (audit_log.py) and the   *)
(* start-up migration that chains the rows of an older database (db.py     *)
(* _migrate, _backfill_audit_chain).  Every process, the server and the    *)
(* command line tool alike, runs init_db when it starts; its statements    *)
(* commit one by one, beside a server that may be up and logging.  Whole   *)
(* transactions of a process that is up are one action.                    *)
(*                                                                         *)
(* An entry stands for its ts, actor, action and detail; its hash is the   *)
(* sequence of entries it commits to.                                      *)
(***************************************************************************)
EXTENDS Integers, Sequences, FiniteSets, SequencesExt

CONSTANTS
  Processes,
  Entries,          \* what is logged
  NoHash,           \* NULL in entry_hash and prev_hash
  MaxLegacy,        \* bound: rows an older version left
  MaxEntries,       \* bound: rows of the log
  MaxCheckpoints    \* bound: checkpoints signed

Logged == Entries \cup {"AUDIT_LOG_CHECKPOINT"}
Hash == Seq(Logged)
GENESIS == << >>

ASSUME AuditLogAssumptions ==
  /\ MaxLegacy \in Nat /\ MaxEntries \in Nat /\ MaxCheckpoints \in Nat
  /\ "AUDIT_LOG_CHECKPOINT" \notin Entries
  /\ NoHash \notin Hash

COLUMNS == {"prev_hash", "entry_hash"}

Row == [entry : Logged, prev_hash : Hash \cup {NoHash}, entry_hash : Hash \cup {NoHash}]
Checkpoint == [height : Nat, head_hash : Hash]

VARIABLES
  columns,              \* of COLUMNS, those the admin_audit table has
  review_columns,       \* whether result_sheets has the columns of a review
  admin_audit,          \* rows, by id
  audit_checkpoints,    \* rows, by id
  pc,                   \* per process: where it is in init_db, or up
  cols,                 \* per process: _migrate's audit_cols
  rows,                 \* per process: the rows _backfill_audit_chain has read
  visited,              \* per process: how many of them it is done with
  prev                  \* per process: its prev

disk == <<columns, review_columns, admin_audit, audit_checkpoints>>
backfill == <<rows, visited, prev>>
vars == <<disk, pc, cols, backfill>>

Unchained(entry) == [entry |-> entry, prev_hash |-> NoHash, entry_hash |-> NoHash]

(* A new database, or one of a version that did not chain its log, with or *)
(* without the review of sheets.                                           *)
Init ==
  /\ \/ columns = COLUMNS /\ review_columns = TRUE /\ admin_audit = << >>
     \/ /\ columns = {} /\ review_columns \in BOOLEAN
        /\ \E n \in 0..MaxLegacy : admin_audit \in [1..n -> {Unchained(e) : e \in Entries}]
  /\ audit_checkpoints = << >>
  /\ pc = [p \in Processes |-> "down"]
  /\ cols = [p \in Processes |-> {}]
  /\ rows = [p \in Processes |-> << >>]
  /\ visited = [p \in Processes |-> 0]
  /\ prev = [p \in Processes |-> GENESIS]

-----------------------------------------------------------------------------
(* init_db *)

Start(p) ==
  /\ pc[p] = "down"
  /\ pc' = [pc EXCEPT ![p] = "schema"]
  /\ UNCHANGED <<disk, cols, backfill>>

(* executescript(SCHEMA) leaves tables that are there as they are, and     *)
(* builds an index on result_sheets.review_status.  Once it has succeeded, *)
(* _migrate finds no column of a review missing.                           *)
IndexesBuild == review_columns

(* No such column: start-up fails. *)
SchemaFails(p) ==
  /\ pc[p] = "schema" /\ ~IndexesBuild
  /\ pc' = [pc EXCEPT ![p] = "down"]
  /\ UNCHANGED <<disk, cols, backfill>>

(* Mutant: the columns are added without a look at the table. *)
NoTableInfo == {}

(* PRAGMA table_info *)
TableInfo == columns

ReadColumns(p) ==
  /\ pc[p] = "schema" /\ IndexesBuild
  /\ pc' = [pc EXCEPT ![p] = "columns"]
  /\ cols' = [cols EXCEPT ![p] = TableInfo]
  /\ UNCHANGED <<disk, backfill>>

(* The process is gone; what it committed stays. *)
Gone(p) ==
  /\ pc' = [pc EXCEPT ![p] = "down"]
  /\ cols' = [cols EXCEPT ![p] = {}]
  /\ rows' = [rows EXCEPT ![p] = << >>]
  /\ visited' = [visited EXCEPT ![p] = 0]
  /\ prev' = [prev EXCEPT ![p] = GENESIS]

(* ALTER TABLE ... ADD COLUMN, prev_hash first. *)
Missing(p, name) ==
  /\ pc[p] = "columns"
  /\ name \in COLUMNS \ cols[p]
  /\ name = "entry_hash" => "prev_hash" \in cols[p]

AddColumn(p, name) ==
  /\ Missing(p, name)
  /\ name \notin columns
  /\ columns' = columns \cup {name}
  /\ cols' = [cols EXCEPT ![p] = @ \cup {name}]
  /\ UNCHANGED <<review_columns, admin_audit, audit_checkpoints, pc, backfill>>

(* Another process added it in between: duplicate column, start-up fails. *)
DuplicateColumn(p, name) ==
  /\ Missing(p, name)
  /\ name \in columns
  /\ Gone(p)
  /\ UNCHANGED disk

(* SELECT ... ORDER BY id: all rows at once. *)
ReadLog(p) ==
  /\ pc[p] = "columns"
  /\ cols[p] = COLUMNS
  /\ pc' = [pc EXCEPT ![p] = "backfill"]
  /\ rows' = [rows EXCEPT ![p] = admin_audit]
  /\ UNCHANGED <<disk, cols, visited, prev>>

entry_hash(hash, entry) == Append(hash, entry)

(* Mutant: a row that has its hash already does not become prev. *)
PassedOver(hash, row) ==
  IF row.entry_hash # NoHash THEN hash ELSE entry_hash(hash, row.entry)

(* prev after a row: the hash it has, or the one it is given. *)
HashAfter(hash, row) ==
  IF row.entry_hash # NoHash THEN row.entry_hash ELSE entry_hash(hash, row.entry)

(* One turn of the loop; the UPDATE, if any, commits at once. *)
Visit(p) ==
  LET id == visited[p] + 1
      row == rows[p][id]
      hash == HashAfter(prev[p], row)
  IN /\ pc[p] = "backfill" /\ visited[p] < Len(rows[p])
     /\ visited' = [visited EXCEPT ![p] = id]
     /\ prev' = [prev EXCEPT ![p] = hash]
     /\ admin_audit' = IF row.entry_hash # NoHash THEN admin_audit
                       ELSE [admin_audit EXCEPT ![id].prev_hash = prev[p],
                                                ![id].entry_hash = hash]
     /\ UNCHANGED <<columns, review_columns, audit_checkpoints, pc, cols, rows>>

Ready(p) ==
  /\ pc[p] = "backfill" /\ visited[p] = Len(rows[p])
  /\ pc' = [pc EXCEPT ![p] = "up"]
  /\ rows' = [rows EXCEPT ![p] = << >>]
  /\ visited' = [visited EXCEPT ![p] = 0]
  /\ prev' = [prev EXCEPT ![p] = GENESIS]
  /\ UNCHANGED <<disk, cols>>

Crash(p) ==
  /\ pc[p] # "down"
  /\ Gone(p)
  /\ UNCHANGED disk

-----------------------------------------------------------------------------
(* audit_log.append and create_checkpoint, in a transaction of a process   *)
(* that is up.                                                             *)

(* prev_row["entry_hash"] if prev_row and prev_row["entry_hash"] else GENESIS *)
HeadHash(log) ==
  IF log # << >> /\ Last(log).entry_hash # NoHash THEN Last(log).entry_hash ELSE GENESIS

append(entry) ==
  Append(admin_audit, [entry |-> entry, prev_hash |-> HeadHash(admin_audit),
                       entry_hash |-> entry_hash(HeadHash(admin_audit), entry)])

Audit(p, entry) ==
  /\ pc[p] = "up"
  /\ Len(admin_audit) < MaxEntries
  /\ admin_audit' = append(entry)
  /\ UNCHANGED <<columns, review_columns, audit_checkpoints, pc, cols, backfill>>

(* any(entry_hash is None): RuntimeError, and the transaction is undone. *)
FullyChained(log) == \A i \in 1..Len(log) : log[i].entry_hash # NoHash

(* Mutant: the head is signed before the signing is logged. *)
SignedBefore(log) == [height |-> Len(log) - 1, head_hash |-> HeadHash(Front(log))]

SignedHead(log) == [height |-> Len(log), head_hash |-> HeadHash(log)]

AuditLogCheckpoint(p) ==
  /\ pc[p] = "up"
  /\ Len(admin_audit) < MaxEntries /\ Len(audit_checkpoints) < MaxCheckpoints
  /\ LET log == append("AUDIT_LOG_CHECKPOINT")
     IN /\ FullyChained(log)
        /\ admin_audit' = log
        /\ audit_checkpoints' = Append(audit_checkpoints, SignedHead(log))
  /\ UNCHANGED <<columns, review_columns, pc, cols, backfill>>

Next ==
  \E p \in Processes :
    \/ Start(p) \/ SchemaFails(p) \/ ReadColumns(p)
    \/ \E name \in COLUMNS : AddColumn(p, name) \/ DuplicateColumn(p, name)
    \/ ReadLog(p)
    \/ Visit(p)
    \/ Ready(p)
    \/ Crash(p)
    \/ \E entry \in Entries : Audit(p, entry)
    \/ AuditLogCheckpoint(p)

Spec == Init /\ [][Next]_vars

(* A process that starts goes on, and is started again when it is down *)
(* (docker-compose.yml: restart).                                      *)
StartsUp(p) ==
  \/ Start(p) \/ SchemaFails(p) \/ ReadColumns(p)
  \/ \E name \in COLUMNS : AddColumn(p, name) \/ DuplicateColumn(p, name)
  \/ ReadLog(p) \/ Visit(p) \/ Ready(p)

FairSpec == Spec /\ \A p \in Processes : WF_vars(StartsUp(p))

-----------------------------------------------------------------------------
(* audit_log.verify *)

Linked(log) ==
  \A i \in 1..Len(log) :
    LET hash == IF i = 1 THEN GENESIS ELSE log[i - 1].entry_hash
    IN /\ log[i].prev_hash = hash
       /\ log[i].entry_hash = entry_hash(hash, log[i].entry)

Reaches(log, cp) ==
  /\ cp.height <= Len(log)
  /\ cp.head_hash = IF cp.height = 0 THEN GENESIS ELSE log[cp.height].entry_hash

verify ==
  /\ Linked(admin_audit)
  /\ audit_checkpoints # << >> => Reaches(admin_audit, Last(audit_checkpoints))

-----------------------------------------------------------------------------
(* Properties. *)

(* Every variable keeps its type; rows read are at most those stored. *)
TypeOK ==
  /\ columns \subseteq COLUMNS /\ review_columns \in BOOLEAN
  /\ admin_audit \in Seq(Row)
  /\ audit_checkpoints \in Seq(Checkpoint)
  /\ pc \in [Processes -> {"down", "schema", "columns", "backfill", "up"}]
  /\ cols \in [Processes -> SUBSET COLUMNS]
  /\ rows \in [Processes -> Seq(Row)]
  /\ visited \in [Processes -> Nat]
  /\ prev \in [Processes -> Hash]

(* Whoever is up finds the log intact: however many processes migrate at   *)
(* once, die half-way and start again, beside one that is logging already. *)
NoFalseAlarm == (\E p \in Processes : pc[p] = "up") => verify

(* admin.py:312: "The entry recording this action is covered too."         *)
CheckpointsCoverThemselves ==
  \A k \in 1..Len(audit_checkpoints) :
    LET cp == audit_checkpoints[k]
    IN /\ Reaches(admin_audit, cp)
       /\ cp.height > 0 /\ admin_audit[cp.height].entry = "AUDIT_LOG_CHECKPOINT"

(* From some time on no process dies but of a start-up that fails. *)
CrashesCease ==
  <>[][\A p \in Processes :
         Crash(p) => \/ SchemaFails(p)
                     \/ \E name \in COLUMNS : DuplicateColumn(p, name)]_vars

(* Once crashes cease, every process gets up.  A start-up may still fail   *)
(* on a column that another process added in between, but every such race  *)
(* is lost for good reason: a column is there that was not there before.   *)
(* Not so for a database without the columns of a review: init_db runs the *)
(* schema script before _migrate, the script fails on the index over a     *)
(* column that only _migrate would add, and no process ever gets up,       *)
(* however often it is started.                                            *)
StartUpCompletes ==
  CrashesCease =>
    \A p \in Processes :
      /\ review_columns => <>(pc[p] = "up")
      /\ ~review_columns => [](pc[p] # "up")
=============================================================================
