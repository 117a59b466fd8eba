--------------------------- MODULE AuditLogProofs ---------------------------
(***************************************************************************)
(* The audit log is intact for whoever is up, however many processes       *)
(* migrate at once, die half-way and start again.  What is up says nothing *)
(* of the rows a migrating process has in hand, so the invariant follows   *)
(* each process through its loop: the rows it read are stale only where a  *)
(* hash was missing, and the hash it would write is the one any other      *)
(* process would.                                                          *)
(***************************************************************************)
EXTENDS AuditLog, TLAPS

-----------------------------------------------------------------------------
(* The hash of row i is the sequence of the first i entries.               *)
Logs(log, i) == [j \in 1..i |-> log[j].entry]

LEMMA LogsType ==
  ASSUME NEW log \in Seq(Row), NEW i \in 0..Len(log)
  PROVE  Logs(log, i) \in Hash /\ Logs(log, i) # NoHash
<1>1. \A j \in 1..i : log[j].entry \in Logged
  <2> SUFFICES ASSUME NEW j \in 1..i PROVE log[j].entry \in Logged  OBVIOUS
  <2>1. log[j] \in Row  OBVIOUS
  <2> QED  BY <2>1 DEF Row
<1>2. Logs(log, i) \in Seq(Logged)  BY <1>1 DEF Logs
<1> QED  BY <1>2, AuditLogAssumptions DEF Hash

LEMMA LogsNone ==
  ASSUME NEW log
  PROVE  Logs(log, 0) = GENESIS
<1>1. Logs(log, 0) \in Seq({}) /\ Len(Logs(log, 0)) = 0  BY DEF Logs
<1> QED  BY <1>1 DEF GENESIS

LEMMA LogsNext ==
  ASSUME NEW log \in Seq(Row), NEW i \in 1..Len(log)
  PROVE  Logs(log, i) = entry_hash(Logs(log, i - 1), log[i].entry)
<1> DEFINE before == Logs(log, i - 1)
           after == Append(before, log[i].entry)
<1>1. log[i].entry \in Logged
  <2>1. log[i] \in Row  OBVIOUS
  <2> QED  BY <2>1 DEF Row
<1>2. before \in Seq(Logged) /\ Len(before) = i - 1
  <2>1. before \in Hash  BY LogsType
  <2> QED  BY <2>1 DEF Logs, Hash
<1>3. \A j \in 1..(i - 1) : before[j] = log[j].entry  BY DEF Logs
<1> HIDE DEF before
<1>4. /\ Len(after) = i /\ after \in Seq(Logged) /\ after[i] = log[i].entry
      /\ \A j \in 1..(i - 1) : after[j] = before[j]
  BY <1>1, <1>2
<1>5. after = [j \in 1..i |-> after[j]]  BY <1>4
<1> HIDE DEF after
<1>6. \A j \in 1..i : after[j] = log[j].entry  BY <1>3, <1>4
<1>7. after = Logs(log, i)  BY <1>5, <1>6 DEF Logs
<1> QED  BY <1>7 DEF entry_hash, after, before

(* Logs with the same entries have the same hashes. *)
LEMMA LogsSame ==
  ASSUME NEW log, NEW other, NEW i \in Nat, \A j \in 1..i : other[j].entry = log[j].entry
  PROVE  Logs(other, i) = Logs(log, i)
BY DEF Logs

-----------------------------------------------------------------------------
(* The inductive invariant. *)

Chained(log, i) == log[i].entry_hash # NoHash

(* A hash that is there is the right one, and comes with its prev_hash. *)
RowHolds(log, i) ==
  /\ Chained(log, i) => log[i].entry_hash = Logs(log, i)
  /\ Chained(log, i) => log[i].prev_hash = Logs(log, i - 1)

LogHolds == \A i \in 1..Len(admin_audit) : RowHolds(admin_audit, i)

(* In the loop: the rows read are the log as it was, but for hashes filled *)
(* in since; the rows done with are chained, and so are those not read,    *)
(* which a process that is up has appended.                                *)
BackfillHolds(p) ==
  pc[p] = "backfill" =>
    /\ visited[p] <= Len(rows[p]) /\ Len(rows[p]) <= Len(admin_audit)
    /\ \A i \in 1..Len(rows[p]) :
         /\ rows[p][i].entry = admin_audit[i].entry
         /\ rows[p][i].entry_hash \in {NoHash, admin_audit[i].entry_hash}
    /\ \A i \in 1..Len(admin_audit) :
         i <= visited[p] \/ i > Len(rows[p]) => Chained(admin_audit, i)
    /\ prev[p] = Logs(admin_audit, visited[p])

(* The loop starts at the first row. *)
FreshHolds(p) == pc[p] # "backfill" => visited[p] = 0 /\ prev[p] = GENESIS

UpHolds(p) == pc[p] = "up" => FullyChained(admin_audit)

Covered(cp) ==
  /\ cp.height \in 1..Len(admin_audit)
  /\ cp.head_hash = Logs(admin_audit, cp.height)
  /\ Chained(admin_audit, cp.height)
  /\ admin_audit[cp.height].entry = "AUDIT_LOG_CHECKPOINT"

CheckpointsHold == \A k \in 1..Len(audit_checkpoints) : Covered(audit_checkpoints[k])

Inv ==
  /\ TypeOK /\ LogHolds /\ CheckpointsHold
  /\ \A p \in Processes : BackfillHolds(p) /\ FreshHolds(p) /\ UpHolds(p)

-----------------------------------------------------------------------------
(* What a step may do to the log: append rows that are chained, and fill   *)
(* in hashes that were missing.                                            *)
OnlyGrows ==
  /\ Len(admin_audit) <= Len(admin_audit')
  /\ \A i \in 1..Len(admin_audit) :
       /\ admin_audit'[i].entry = admin_audit[i].entry
       /\ Chained(admin_audit, i) => admin_audit'[i] = admin_audit[i]
  /\ \A i \in 1..Len(admin_audit') : i > Len(admin_audit) => Chained(admin_audit', i)

LEMMA StaysTheSame ==
  ASSUME TypeOK, admin_audit' = admin_audit
  PROVE  OnlyGrows
BY DEF OnlyGrows, TypeOK

LEMMA HashesStay ==
  ASSUME TypeOK, TypeOK', OnlyGrows, NEW i \in 0..Len(admin_audit)
  PROVE  /\ Logs(admin_audit', i) = Logs(admin_audit, i)
         /\ i > 0 /\ Chained(admin_audit, i) => Chained(admin_audit', i)
<1>1. Len(admin_audit) \in Nat /\ i \in Nat  BY DEF TypeOK
<1>2. \A j \in 1..i : admin_audit'[j].entry = admin_audit[j].entry  BY <1>1 DEF OnlyGrows
<1>3. Logs(admin_audit', i) = Logs(admin_audit, i)  BY <1>1, <1>2, LogsSame
<1> QED  BY <1>1, <1>3 DEF OnlyGrows, Chained

-----------------------------------------------------------------------------
LEMMA RowUpdated ==
  ASSUME NEW row \in Row, NEW a, NEW b
  PROVE  [row EXCEPT !.prev_hash = a, !.entry_hash = b]
           = [entry |-> row.entry, prev_hash |-> a, entry_hash |-> b]
<1> DEFINE one == [row EXCEPT !.prev_hash = a]
           two == [one EXCEPT !.entry_hash = b]
<1>1. row = [entry |-> row.entry, prev_hash |-> row.prev_hash, entry_hash |-> row.entry_hash]
  BY DEF Row
<1>2. one = [entry |-> row.entry, prev_hash |-> a, entry_hash |-> row.entry_hash]  BY <1>1
<1> HIDE DEF one
<1>3. two = [entry |-> row.entry, prev_hash |-> a, entry_hash |-> b]  BY <1>2
<1> HIDE DEF two
<1> QED  BY <1>3 DEF two, one

(* One turn of the loop gives the row the hash it has or would have.       *)
LEMMA VisitEffect ==
  ASSUME Inv, NEW p \in Processes, Visit(p)
  PROVE  LET id == visited[p] + 1
         IN /\ id \in 1..Len(rows[p]) /\ id \in 1..Len(admin_audit)
            /\ visited' = [visited EXCEPT ![p] = id]
            /\ prev' = [prev EXCEPT ![p] = Logs(admin_audit, id)]
            /\ admin_audit' = [admin_audit EXCEPT ![id] =
                 [entry |-> admin_audit[id].entry, prev_hash |-> Logs(admin_audit, id - 1),
                  entry_hash |-> Logs(admin_audit, id)]]
            /\ UNCHANGED <<columns, review_columns, audit_checkpoints, pc, cols, rows>>
<1> DEFINE id == visited[p] + 1
           row == rows[p][id]
           hash == HashAfter(prev[p], row)
<1>1. /\ admin_audit \in Seq(Row) /\ rows[p] \in Seq(Row) /\ visited[p] \in Nat
      /\ LogHolds /\ BackfillHolds(p)
  BY DEF Inv, TypeOK
<1>2. /\ pc[p] = "backfill" /\ visited[p] < Len(rows[p])
      /\ visited' = [visited EXCEPT ![p] = id]
      /\ prev' = [prev EXCEPT ![p] = hash]
      /\ admin_audit' = IF row.entry_hash # NoHash THEN admin_audit
                        ELSE [admin_audit EXCEPT ![id].prev_hash = prev[p],
                                                 ![id].entry_hash = hash]
      /\ UNCHANGED <<columns, review_columns, audit_checkpoints, pc, cols, rows>>
  BY DEF Visit
<1>3. /\ id \in 1..Len(rows[p]) /\ id \in 1..Len(admin_audit) /\ id - 1 = visited[p]
  BY <1>1, <1>2 DEF BackfillHolds
<1>4. /\ prev[p] = Logs(admin_audit, id - 1)
      /\ row.entry = admin_audit[id].entry
      /\ row.entry_hash \in {NoHash, admin_audit[id].entry_hash}
  BY <1>1, <1>2, <1>3 DEF BackfillHolds
<1>5. RowHolds(admin_audit, id) /\ admin_audit[id] \in Row
  BY <1>1, <1>3 DEF LogHolds
<1>6. Logs(admin_audit, id) = entry_hash(Logs(admin_audit, id - 1), admin_audit[id].entry)
  BY <1>1, <1>3, LogsNext
<1> DEFINE new == [entry |-> admin_audit[id].entry, prev_hash |-> Logs(admin_audit, id - 1),
                   entry_hash |-> Logs(admin_audit, id)]
<1> HIDE DEF id, row
<1>7. CASE row.entry_hash # NoHash
  <2>1. /\ hash = Logs(admin_audit, id)
        /\ admin_audit[id].entry_hash = Logs(admin_audit, id)
        /\ admin_audit[id].prev_hash = Logs(admin_audit, id - 1)
    BY <1>4, <1>5, <1>7 DEF HashAfter, RowHolds, Chained
  <2>2. admin_audit[id] = new  BY <1>5, <2>1 DEF Row
  <2>3. admin_audit = [admin_audit EXCEPT ![id] = new]  BY <1>1, <1>3, <2>2
  <2> QED  BY <1>2, <1>3, <1>7, <2>1, <2>3 DEF id
<1>8. CASE row.entry_hash = NoHash
  <2>1. hash = Logs(admin_audit, id)  BY <1>4, <1>6, <1>8 DEF HashAfter
  <2> DEFINE row1 == admin_audit[id]
             updated == [row1 EXCEPT !.prev_hash = prev[p], !.entry_hash = hash]
  <2>2. updated = new
    <3>1. row1 \in Row  BY <1>5
    <3> HIDE DEF row1, hash
    <3>2. updated = [entry |-> row1.entry, prev_hash |-> prev[p], entry_hash |-> hash]
      BY <3>1, RowUpdated
    <3> HIDE DEF updated
    <3> QED  BY <1>4, <2>1, <3>2 DEF row1
  <2>3. admin_audit' = [admin_audit EXCEPT ![id] = new]
    BY <1>1, <1>2, <1>3, <1>8, <2>2
  <2> QED  BY <1>2, <1>3, <2>1, <2>3 DEF id
<1> QED  BY <1>7, <1>8

(* An entry a process that is up appends is chained to the last one.        *)
LEMMA AppendEffect ==
  ASSUME Inv, NEW p \in Processes, pc[p] = "up", NEW entry \in Logged
  PROVE  LET log == append(entry)
             n == Len(admin_audit) + 1
         IN /\ log \in Seq(Row) /\ Len(log) = n
            /\ \A i \in 1..Len(admin_audit) : log[i] = admin_audit[i]
            /\ log[n].entry = entry
            /\ log[n].prev_hash = Logs(log, n - 1) /\ log[n].entry_hash = Logs(log, n)
<1> DEFINE log == append(entry)
           n == Len(admin_audit) + 1
           head == HeadHash(admin_audit)
           new == [entry |-> entry, prev_hash |-> head, entry_hash |-> entry_hash(head, entry)]
<1>1. /\ admin_audit \in Seq(Row) /\ Len(admin_audit) \in Nat
      /\ LogHolds /\ FullyChained(admin_audit)
  BY DEF Inv, TypeOK, UpHolds
<1>2. head = Logs(admin_audit, n - 1) /\ head \in Hash
  <2>1. CASE admin_audit = << >>
    <3>1. n - 1 = 0 /\ head = GENESIS  BY <2>1 DEF HeadHash
    <3>2. head = Logs(admin_audit, n - 1)  BY <3>1, LogsNone
    <3> QED  BY <1>1, <3>2, LogsType
  <2>2. CASE admin_audit # << >>
    <3>1. n - 1 \in 1..Len(admin_audit)  BY <1>1, <2>2
    <3>2. /\ Chained(admin_audit, n - 1) /\ RowHolds(admin_audit, n - 1)
      BY <1>1, <3>1 DEF FullyChained, Chained, LogHolds
    <3>3. head = admin_audit[n - 1].entry_hash
      BY <1>1, <2>2, <3>1, <3>2 DEF HeadHash, Last, Chained
    <3>4. head = Logs(admin_audit, n - 1)  BY <3>2, <3>3 DEF RowHolds
    <3> QED  BY <1>1, <3>4, LogsType
  <2> QED  BY <2>1, <2>2
<1> HIDE DEF head
<1>3. entry_hash(head, entry) \in Hash  BY <1>2 DEF entry_hash, Hash
<1>4. new \in Row  BY <1>2, <1>3 DEF Row
<1>5. log = Append(admin_audit, new)  BY DEF append, head
<1>6. /\ log \in Seq(Row) /\ Len(log) = n /\ log[n] = new
      /\ \A i \in 1..Len(admin_audit) : log[i] = admin_audit[i]
  <2> HIDE DEF new, log
  <2> QED  BY <1>1, <1>4, <1>5
<1> HIDE DEF log
<1>7. Logs(log, n - 1) = Logs(admin_audit, n - 1)  BY <1>1, <1>6, LogsSame
<1>8. Logs(log, n) = entry_hash(Logs(log, n - 1), log[n].entry)  BY <1>1, <1>6, LogsNext
<1>9. Logs(log, n) = entry_hash(head, entry)  BY <1>2, <1>6, <1>7, <1>8
<1> QED  BY <1>2, <1>6, <1>7, <1>9 DEF log

LEMMA VisitGrows ==
  ASSUME Inv, NEW p \in Processes, Visit(p)
  PROVE  OnlyGrows /\ admin_audit' \in Seq(Row)
<1> DEFINE id == visited[p] + 1
           new == [entry |-> admin_audit[id].entry, prev_hash |-> Logs(admin_audit, id - 1),
                   entry_hash |-> Logs(admin_audit, id)]
<1>1. /\ admin_audit \in Seq(Row) /\ id \in 1..Len(admin_audit)
      /\ admin_audit' = [admin_audit EXCEPT ![id] = new]
      /\ admin_audit[id] \in Row /\ RowHolds(admin_audit, id)
  <2>1. admin_audit \in Seq(Row) /\ LogHolds  BY DEF Inv, TypeOK
  <2>2. /\ id \in 1..Len(admin_audit) /\ admin_audit' = [admin_audit EXCEPT ![id] = new]
    BY VisitEffect
  <2> QED  BY <2>1, <2>2 DEF LogHolds
<1>2. new \in Row
  <2>1. id - 1 \in 0..Len(admin_audit) /\ id \in 0..Len(admin_audit)  BY <1>1
  <2>2. Logs(admin_audit, id - 1) \in Hash /\ Logs(admin_audit, id) \in Hash
    BY <1>1, <2>1, LogsType
  <2> QED  BY <1>1, <2>2 DEF Row
<1>3. Chained(admin_audit, id) => new = admin_audit[id]
  BY <1>1 DEF Row, RowHolds, Chained
<1>4. new.entry = admin_audit[id].entry  OBVIOUS
<1> HIDE DEF new, id
<1>5. /\ admin_audit' \in Seq(Row) /\ Len(admin_audit') = Len(admin_audit)
      /\ admin_audit'[id] = new
      /\ \A i \in 1..Len(admin_audit) \ {id} : admin_audit'[i] = admin_audit[i]
  BY <1>1, <1>2
<1> QED  BY <1>1, <1>3, <1>4, <1>5 DEF OnlyGrows

LEMMA AppendGrows ==
  ASSUME Inv, NEW p \in Processes, pc[p] = "up", NEW entry \in Logged,
         admin_audit' = append(entry)
  PROVE  /\ OnlyGrows /\ admin_audit' \in Seq(Row)
         /\ Len(admin_audit') = Len(admin_audit) + 1
         /\ RowHolds(admin_audit', Len(admin_audit')) /\ Chained(admin_audit', Len(admin_audit'))
         /\ admin_audit'[Len(admin_audit')].entry = entry
<1> DEFINE n == Len(admin_audit) + 1
<1>1. /\ admin_audit' \in Seq(Row) /\ Len(admin_audit') = n
      /\ \A i \in 1..Len(admin_audit) : admin_audit'[i] = admin_audit[i]
      /\ admin_audit'[n].entry = entry
      /\ admin_audit'[n].prev_hash = Logs(admin_audit', n - 1)
      /\ admin_audit'[n].entry_hash = Logs(admin_audit', n)
  BY AppendEffect
<1>2. Len(admin_audit) \in Nat  BY DEF Inv, TypeOK
<1>3. Chained(admin_audit', n)  BY <1>1, <1>2, LogsType DEF Chained
<1>4. OnlyGrows  BY <1>1, <1>2, <1>3 DEF OnlyGrows
<1> QED  BY <1>1, <1>3, <1>4 DEF RowHolds

(* Nothing else writes the log or signs a checkpoint. *)
Writes(p) ==
  \/ Visit(p)
  \/ \E entry \in Entries : Audit(p, entry)
  \/ AuditLogCheckpoint(p)

LEMMA OnlyWritersWrite ==
  ASSUME [Next]_vars, \A p \in Processes : ~Writes(p)
  PROVE  admin_audit' = admin_audit /\ audit_checkpoints' = audit_checkpoints
BY DEF Next, vars, disk, Writes, Start, SchemaFails, ReadColumns, AddColumn, DuplicateColumn,
       ReadLog, Ready, Crash, Gone

LEMMA LogStep ==
  ASSUME Inv, [Next]_vars
  PROVE  /\ OnlyGrows /\ admin_audit' \in Seq(Row)
         /\ \A i \in 1..Len(admin_audit') : RowHolds(admin_audit', i)
<1>1. /\ TypeOK /\ admin_audit \in Seq(Row) /\ Len(admin_audit) \in Nat
      /\ \A i \in 1..Len(admin_audit) : RowHolds(admin_audit, i)
  BY DEF Inv, TypeOK, LogHolds
<1>2. ASSUME OnlyGrows, NEW i \in 1..Len(admin_audit), admin_audit'[i] = admin_audit[i]
      PROVE  RowHolds(admin_audit', i)
  <2>1. /\ \A j \in 1..i : admin_audit'[j].entry = admin_audit[j].entry
        /\ \A j \in 1..(i - 1) : admin_audit'[j].entry = admin_audit[j].entry
    BY <1>1, <1>2 DEF OnlyGrows
  <2>2. Logs(admin_audit', i) = Logs(admin_audit, i)  BY <1>1, <2>1, LogsSame
  <2>3. Logs(admin_audit', i - 1) = Logs(admin_audit, i - 1)  BY <1>1, <2>1, LogsSame
  <2> QED  BY <1>1, <1>2, <2>2, <2>3 DEF RowHolds, Chained
<1>3. ASSUME NEW p \in Processes, Visit(p)
      PROVE  \A i \in 1..Len(admin_audit') : RowHolds(admin_audit', i)
  <2> DEFINE id == visited[p] + 1
             new == [entry |-> admin_audit[id].entry, prev_hash |-> Logs(admin_audit, id - 1),
                     entry_hash |-> Logs(admin_audit, id)]
  <2>1. id \in 1..Len(admin_audit) /\ admin_audit' = [admin_audit EXCEPT ![id] = new]
    BY <1>3, VisitEffect
  <2>2. OnlyGrows  BY <1>3, VisitGrows
  <2>3. new.entry_hash = Logs(admin_audit, id) /\ new.prev_hash = Logs(admin_audit, id - 1)
    OBVIOUS
  <2> HIDE DEF id, new
  <2>4. /\ Len(admin_audit') = Len(admin_audit) /\ admin_audit'[id] = new
        /\ \A i \in 1..Len(admin_audit) \ {id} : admin_audit'[i] = admin_audit[i]
    BY <1>1, <2>1
  <2>5. RowHolds(admin_audit', id)
    <3>1. /\ \A j \in 1..id : admin_audit'[j].entry = admin_audit[j].entry
          /\ \A j \in 1..(id - 1) : admin_audit'[j].entry = admin_audit[j].entry
      BY <1>1, <2>1, <2>2 DEF OnlyGrows
    <3>2. Logs(admin_audit', id) = Logs(admin_audit, id)
      <4>1. id \in Nat  BY <1>1, <2>1
      <4> QED  BY <3>1, <4>1, LogsSame
    <3>3. Logs(admin_audit', id - 1) = Logs(admin_audit, id - 1)
      <4>1. id - 1 \in Nat  BY <1>1, <2>1
      <4> QED  BY <3>1, <4>1, LogsSame
    <3> QED  BY <2>3, <2>4, <3>2, <3>3 DEF RowHolds
  <2> QED  BY <1>2, <2>2, <2>4, <2>5
<1>4. ASSUME NEW p \in Processes, pc[p] = "up", NEW entry \in Logged,
             admin_audit' = append(entry)
      PROVE  \A i \in 1..Len(admin_audit') : RowHolds(admin_audit', i)
  <2>1. /\ OnlyGrows /\ Len(admin_audit') = Len(admin_audit) + 1
        /\ RowHolds(admin_audit', Len(admin_audit'))
    BY <1>4, AppendGrows
  <2>2. \A i \in 1..Len(admin_audit) : admin_audit'[i] = admin_audit[i]
    BY <1>4, AppendEffect
  <2> QED  BY <1>1, <1>2, <2>1, <2>2
<1>5. ASSUME NEW p \in Processes,
             (\E entry \in Entries : Audit(p, entry)) \/ AuditLogCheckpoint(p)
      PROVE  pc[p] = "up" /\ \E entry \in Logged : admin_audit' = append(entry)
  BY <1>5 DEF Audit, AuditLogCheckpoint, Logged
<1>6. CASE \A p \in Processes : ~Writes(p)
  <2>1. admin_audit' = admin_audit  BY <1>6, OnlyWritersWrite
  <2> QED  BY <1>1, <2>1, StaysTheSame DEF RowHolds
<1> QED  BY <1>3, <1>4, <1>5, <1>6, VisitGrows, AppendGrows DEF Writes

-----------------------------------------------------------------------------
(* Type correctness. *)
LEMMA TypeStep ==
  ASSUME Inv, [Next]_vars
  PROVE  TypeOK'
<1>1. TypeOK  BY DEF Inv
<1>2. admin_audit' \in Seq(Row)  BY LogStep
<1>3. GENESIS \in Hash /\ << >> \in Seq(Row)  BY DEF GENESIS, Hash
<1>4. ASSUME NEW p \in Processes, Gone(p), UNCHANGED disk PROVE TypeOK'
  BY <1>1, <1>2, <1>3, <1>4 DEF TypeOK, Gone, disk
<1>5. ASSUME NEW p \in Processes, Start(p) \/ SchemaFails(p) \/ ReadColumns(p) PROVE TypeOK'
  BY <1>1, <1>2, <1>5 DEF TypeOK, Start, SchemaFails, ReadColumns, TableInfo, disk, backfill
<1>6. ASSUME NEW p \in Processes, NEW name \in COLUMNS, AddColumn(p, name) PROVE TypeOK'
  BY <1>1, <1>2, <1>6 DEF TypeOK, AddColumn, backfill
<1>7. ASSUME NEW p \in Processes, ReadLog(p) \/ Ready(p) PROVE TypeOK'
  <2>1. CASE ReadLog(p)  BY <1>1, <1>2, <2>1 DEF TypeOK, ReadLog, disk
  <2>2. CASE Ready(p)  BY <1>1, <1>2, <1>3, <2>2 DEF TypeOK, Ready, disk
  <2> QED  BY <1>7, <2>1, <2>2
<1>8. ASSUME NEW p \in Processes, Visit(p) PROVE TypeOK'
  <2> DEFINE id == visited[p] + 1
  <2>1. /\ id \in 1..Len(admin_audit)
        /\ visited' = [visited EXCEPT ![p] = id]
        /\ prev' = [prev EXCEPT ![p] = Logs(admin_audit, id)]
        /\ UNCHANGED <<columns, review_columns, audit_checkpoints, pc, cols, rows>>
    BY <1>8, VisitEffect
  <2>2. id \in Nat /\ Logs(admin_audit, id) \in Hash  BY <1>1, <2>1, LogsType DEF TypeOK
  <2> HIDE DEF id
  <2> QED  BY <1>1, <1>2, <2>1, <2>2 DEF TypeOK
<1>9. ASSUME NEW p \in Processes, NEW entry \in Entries, Audit(p, entry) PROVE TypeOK'
  BY <1>1, <1>2, <1>9 DEF TypeOK, Audit, backfill
<1>10. ASSUME NEW p \in Processes, AuditLogCheckpoint(p) PROVE TypeOK'
  <2> DEFINE log == append("AUDIT_LOG_CHECKPOINT")
  <2>1. /\ pc[p] = "up" /\ FullyChained(log) /\ admin_audit' = log
        /\ audit_checkpoints' = Append(audit_checkpoints, SignedHead(log))
        /\ UNCHANGED <<columns, review_columns, pc, cols, backfill>>
    BY <1>10 DEF AuditLogCheckpoint
  <2> HIDE DEF log
  <2>2. SignedHead(log) \in Checkpoint
    <3>1. log \in Seq(Row) /\ Len(log) \in Nat  BY <1>2, <2>1
    <3>2. HeadHash(log) \in Hash
      <4>1. log # << >> => Last(log) \in Row  BY <3>1 DEF Last
      <4> QED  BY <1>3, <4>1 DEF HeadHash, Row
    <3> QED  BY <3>1, <3>2 DEF SignedHead, Checkpoint
  <2>3. audit_checkpoints' \in Seq(Checkpoint)  BY <1>1, <2>1, <2>2 DEF TypeOK
  <2> QED  BY <1>1, <1>2, <2>1, <2>3 DEF TypeOK, backfill
<1>11. CASE UNCHANGED vars  BY <1>1, <1>11 DEF TypeOK, vars, disk, backfill
<1> QED
  BY <1>4, <1>5, <1>6, <1>7, <1>8, <1>9, <1>10, <1>11 DEF Next, DuplicateColumn, Crash

-----------------------------------------------------------------------------
(* A process in its loop.                                                   *)

(* Whatever the others do to the log, what p has in hand stays good. *)
LEMMA BackfillStays ==
  ASSUME Inv, TypeOK', OnlyGrows, NEW p \in Processes, pc'[p] = pc[p],
         rows'[p] = rows[p], visited'[p] = visited[p], prev'[p] = prev[p]
  PROVE  BackfillHolds(p)'
<1>1. /\ TypeOK /\ BackfillHolds(p) /\ Len(admin_audit) \in Nat /\ Len(admin_audit') \in Nat
      /\ rows[p] \in Seq(Row) /\ Len(rows[p]) \in Nat /\ visited[p] \in Nat
  BY DEF Inv, TypeOK
<1> SUFFICES ASSUME pc[p] = "backfill" PROVE BackfillHolds(p)'
  BY DEF BackfillHolds
<1>2. visited[p] <= Len(rows[p]) /\ Len(rows[p]) <= Len(admin_audit')
  BY <1>1 DEF BackfillHolds, OnlyGrows
<1>3. ASSUME NEW i \in 1..Len(rows[p])
      PROVE  /\ rows[p][i].entry = admin_audit'[i].entry
             /\ rows[p][i].entry_hash \in {NoHash, admin_audit'[i].entry_hash}
  <2>1. /\ i \in 1..Len(admin_audit) /\ rows[p][i].entry = admin_audit[i].entry
        /\ rows[p][i].entry_hash \in {NoHash, admin_audit[i].entry_hash}
    BY <1>1, <1>3 DEF BackfillHolds
  <2>2. admin_audit'[i].entry = admin_audit[i].entry  BY <2>1 DEF OnlyGrows
  <2>3. CASE Chained(admin_audit, i)
    <3>1. admin_audit'[i] = admin_audit[i]  BY <2>1, <2>3 DEF OnlyGrows
    <3> QED  BY <2>1, <3>1
  <2>4. CASE ~Chained(admin_audit, i)  BY <2>1, <2>2, <2>4 DEF Chained
  <2> QED  BY <2>3, <2>4
<1>4. ASSUME NEW i \in 1..Len(admin_audit'), i <= visited[p] \/ i > Len(rows[p])
      PROVE  Chained(admin_audit', i)
  <2>1. CASE i > Len(admin_audit)  BY <2>1 DEF OnlyGrows
  <2>2. CASE i <= Len(admin_audit)
    <3>1. i \in 1..Len(admin_audit)  BY <1>1, <2>2
    <3>2. Chained(admin_audit, i)  BY <1>1, <1>4, <3>1 DEF BackfillHolds
    <3> QED  BY <3>1, <3>2 DEF OnlyGrows, Chained
  <2> QED  BY <1>1, <2>1, <2>2
<1>5. prev[p] = Logs(admin_audit', visited[p])
  <2>1. prev[p] = Logs(admin_audit, visited[p]) /\ visited[p] \in 0..Len(admin_audit)
    BY <1>1 DEF BackfillHolds
  <2> QED  BY <1>1, <2>1, HashesStay
<1> QED  BY <1>2, <1>3, <1>4, <1>5 DEF BackfillHolds

LEMMA UpStays ==
  ASSUME Inv, TypeOK', OnlyGrows, NEW p \in Processes, pc[p] = "up"
  PROVE  UpHolds(p)'
<1>1. FullyChained(admin_audit) /\ Len(admin_audit) \in Nat /\ Len(admin_audit') \in Nat
  BY DEF Inv, UpHolds, TypeOK
<1>2. ASSUME NEW i \in 1..Len(admin_audit') PROVE admin_audit'[i].entry_hash # NoHash
  <2>1. CASE i > Len(admin_audit)  BY <2>1 DEF OnlyGrows, Chained
  <2>2. CASE i <= Len(admin_audit)
    <3>1. i \in 1..Len(admin_audit)  BY <1>1, <2>2
    <3> QED  BY <1>1, <3>1 DEF OnlyGrows, FullyChained, Chained
  <2> QED  BY <1>1, <2>1, <2>2
<1> QED  BY <1>2 DEF UpHolds, FullyChained

ProcessHolds(p) == BackfillHolds(p) /\ FreshHolds(p) /\ UpHolds(p)

(* A process whose own state is left alone. *)
LEMMA ProcessStays ==
  ASSUME Inv, TypeOK', OnlyGrows, NEW p \in Processes, pc'[p] = pc[p],
         rows'[p] = rows[p], visited'[p] = visited[p], prev'[p] = prev[p]
  PROVE  ProcessHolds(p)'
<1>1. BackfillHolds(p)'  BY BackfillStays
<1>2. FreshHolds(p)'  BY DEF Inv, FreshHolds
<1>3. UpHolds(p)'
  <2>1. CASE pc[p] = "up"  BY <2>1, UpStays
  <2>2. CASE pc[p] # "up"  BY <2>2 DEF UpHolds
  <2> QED  BY <2>1, <2>2
<1> QED  BY <1>1, <1>2, <1>3 DEF ProcessHolds

(* The rows a process reads are the log. *)
LEMMA ReadLogHolds ==
  ASSUME Inv, NEW p \in Processes, ReadLog(p)
  PROVE  ProcessHolds(p)'
<1>1. /\ TypeOK /\ FreshHolds(p) /\ admin_audit \in Seq(Row) /\ Len(admin_audit) \in Nat
  BY DEF Inv, TypeOK
<1>2. /\ pc[p] = "columns" /\ pc'[p] = "backfill" /\ rows'[p] = admin_audit
      /\ visited'[p] = visited[p] /\ prev'[p] = prev[p] /\ admin_audit' = admin_audit
  BY <1>1 DEF ReadLog, TypeOK, disk
<1>3. visited'[p] = 0 /\ prev'[p] = GENESIS  BY <1>1, <1>2 DEF FreshHolds
<1>4. prev'[p] = Logs(admin_audit', visited'[p])  BY <1>3, LogsNone
<1>5. BackfillHolds(p)'  BY <1>1, <1>2, <1>3, <1>4 DEF BackfillHolds
<1> QED  BY <1>2, <1>5 DEF ProcessHolds, FreshHolds, UpHolds

LEMMA VisitHolds ==
  ASSUME Inv, TypeOK', NEW p \in Processes, Visit(p)
  PROVE  ProcessHolds(p)'
<1> DEFINE id == visited[p] + 1
           new == [entry |-> admin_audit[id].entry, prev_hash |-> Logs(admin_audit, id - 1),
                   entry_hash |-> Logs(admin_audit, id)]
<1>1. /\ TypeOK /\ BackfillHolds(p) /\ OnlyGrows /\ pc[p] = "backfill"
      /\ Len(admin_audit) \in Nat /\ Len(rows[p]) \in Nat /\ visited[p] \in Nat
  <2>1. OnlyGrows  BY VisitGrows
  <2> QED  BY <2>1 DEF Inv, TypeOK, Visit
<1>2. /\ id \in 1..Len(rows[p]) /\ id \in 1..Len(admin_audit)
      /\ visited' = [visited EXCEPT ![p] = id]
      /\ prev' = [prev EXCEPT ![p] = Logs(admin_audit, id)]
      /\ admin_audit' = [admin_audit EXCEPT ![id] = new]
      /\ pc' = pc /\ rows' = rows
  BY VisitEffect
<1>3. new.entry_hash # NoHash
  <2>1. id \in 0..Len(admin_audit)  BY <1>1, <1>2
  <2> QED  BY <1>1, <2>1, LogsType DEF TypeOK
<1>4. id - 1 = visited[p] /\ id \in Nat  BY <1>1
<1> HIDE DEF id, new
<1>5. /\ visited'[p] = id /\ prev'[p] = Logs(admin_audit, id) /\ admin_audit'[id] = new
      /\ Len(admin_audit') = Len(admin_audit)
      /\ \A i \in 1..Len(admin_audit) \ {id} : admin_audit'[i] = admin_audit[i]
  BY <1>1, <1>2 DEF TypeOK
<1>6. prev'[p] = Logs(admin_audit', id)
  <2>1. id \in 0..Len(admin_audit)  BY <1>1, <1>2
  <2> QED  BY <1>1, <1>5, <2>1, HashesStay
<1>7. ASSUME NEW i \in 1..Len(rows[p])
      PROVE  /\ rows[p][i].entry = admin_audit'[i].entry
             /\ rows[p][i].entry_hash \in {NoHash, admin_audit'[i].entry_hash}
  <2>1. /\ i \in 1..Len(admin_audit) /\ rows[p][i].entry = admin_audit[i].entry
        /\ rows[p][i].entry_hash \in {NoHash, admin_audit[i].entry_hash}
    BY <1>1, <1>7 DEF BackfillHolds
  <2>2. admin_audit'[i].entry = admin_audit[i].entry  BY <1>1, <2>1 DEF OnlyGrows
  <2>3. CASE Chained(admin_audit, i)
    <3>1. admin_audit'[i] = admin_audit[i]  BY <1>1, <2>1, <2>3 DEF OnlyGrows
    <3> QED  BY <2>1, <3>1
  <2>4. CASE ~Chained(admin_audit, i)  BY <2>1, <2>2, <2>4 DEF Chained
  <2> QED  BY <2>3, <2>4
<1>8. ASSUME NEW i \in 1..Len(admin_audit), i <= id \/ i > Len(rows[p])
      PROVE  Chained(admin_audit', i)
  <2>1. CASE i = id  BY <1>3, <1>5, <2>1 DEF Chained
  <2>2. CASE i # id
    <3>1. i <= visited[p] \/ i > Len(rows[p])  BY <1>1, <1>4, <1>8, <2>2
    <3>2. Chained(admin_audit, i)  BY <1>1, <3>1 DEF BackfillHolds
    <3> QED  BY <1>5, <2>2, <3>2 DEF Chained
  <2> QED  BY <2>1, <2>2
<1>9. id <= Len(rows[p]) /\ Len(rows[p]) <= Len(admin_audit)
  BY <1>1, <1>2 DEF BackfillHolds
<1>10. BackfillHolds(p)'
  BY <1>1, <1>2, <1>5, <1>6, <1>7, <1>8, <1>9 DEF BackfillHolds
<1> QED  BY <1>1, <1>2, <1>10 DEF ProcessHolds, FreshHolds, UpHolds

(* A process that is through its loop finds every row chained. *)
LEMMA ReadyHolds ==
  ASSUME Inv, NEW p \in Processes, Ready(p)
  PROVE  ProcessHolds(p)'
<1>1. /\ TypeOK /\ BackfillHolds(p) /\ Len(admin_audit) \in Nat /\ Len(rows[p]) \in Nat
  BY DEF Inv, TypeOK
<1>2. /\ pc[p] = "backfill" /\ visited[p] = Len(rows[p]) /\ pc'[p] = "up"
      /\ visited'[p] = 0 /\ prev'[p] = GENESIS /\ admin_audit' = admin_audit
  BY <1>1 DEF Ready, TypeOK, disk
<1>3. FullyChained(admin_audit)
  BY <1>1, <1>2 DEF BackfillHolds, FullyChained, Chained
<1> QED  BY <1>2, <1>3 DEF ProcessHolds, BackfillHolds, FreshHolds, UpHolds

LEMMA ProcessesStep ==
  ASSUME Inv, TypeOK', [Next]_vars
  PROVE  \A p \in Processes : ProcessHolds(p)'
<1>1. OnlyGrows /\ TypeOK  BY LogStep DEF Inv
<1>2. ASSUME NEW p \in Processes, ProcessHolds(p)',
             \A q \in Processes \ {p} : /\ pc'[q] = pc[q] /\ rows'[q] = rows[q]
                                        /\ visited'[q] = visited[q] /\ prev'[q] = prev[q]
      PROVE  \A q \in Processes : ProcessHolds(q)'
  <2>1. ASSUME NEW q \in Processes \ {p} PROVE ProcessHolds(q)'
    BY <1>1, <1>2, ProcessStays
  <2> QED  BY <1>2, <2>1
<1>3. ASSUME UNCHANGED <<pc, rows, visited, prev>>
      PROVE  \A q \in Processes : ProcessHolds(q)'
  BY <1>1, <1>3, ProcessStays
<1>4. ASSUME NEW p \in Processes, pc'[p] \in {"down", "schema", "columns"},
             visited'[p] = 0, prev'[p] = GENESIS
      PROVE  ProcessHolds(p)'
  BY <1>4 DEF ProcessHolds, BackfillHolds, FreshHolds, UpHolds
<1>5. ASSUME NEW p \in Processes, Gone(p) PROVE \A q \in Processes : ProcessHolds(q)'
  <2>1. pc'[p] = "down" /\ visited'[p] = 0 /\ prev'[p] = GENESIS
    BY <1>1, <1>5 DEF Gone, TypeOK
  <2>2. \A q \in Processes \ {p} : /\ pc'[q] = pc[q] /\ rows'[q] = rows[q]
                                   /\ visited'[q] = visited[q] /\ prev'[q] = prev[q]
    BY <1>1, <1>5 DEF Gone, TypeOK
  <2> QED  BY <1>2, <1>4, <2>1, <2>2
<1>6. ASSUME NEW p \in Processes, Start(p) \/ SchemaFails(p) \/ ReadColumns(p)
      PROVE  \A q \in Processes : ProcessHolds(q)'
  <2>1. /\ pc[p] \in {"down", "schema"} /\ pc'[p] \in {"down", "schema", "columns"}
        /\ UNCHANGED <<rows, visited, prev>> /\ \A q \in Processes \ {p} : pc'[q] = pc[q]
    BY <1>1, <1>6 DEF Start, SchemaFails, ReadColumns, backfill, TypeOK
  <2>2. visited[p] = 0 /\ prev[p] = GENESIS  BY <2>1 DEF Inv, FreshHolds
  <2> QED  BY <1>2, <1>4, <2>1, <2>2
<1>7. ASSUME NEW p \in Processes, ReadLog(p) \/ Visit(p) \/ Ready(p)
      PROVE  \A q \in Processes : ProcessHolds(q)'
  <2>1. ProcessHolds(p)'  BY <1>7, ReadLogHolds, VisitHolds, ReadyHolds
  <2>2. \A q \in Processes \ {p} : /\ pc'[q] = pc[q] /\ rows'[q] = rows[q]
                                   /\ visited'[q] = visited[q] /\ prev'[q] = prev[q]
    BY <1>1, <1>7 DEF ReadLog, Visit, Ready, TypeOK
  <2> QED  BY <1>2, <2>1, <2>2
<1>8. ASSUME NEW p \in Processes, NEW name \in COLUMNS, AddColumn(p, name)
      PROVE  \A q \in Processes : ProcessHolds(q)'
  BY <1>3, <1>8 DEF AddColumn, backfill
<1>9. ASSUME NEW p \in Processes,
             (\E entry \in Entries : Audit(p, entry)) \/ AuditLogCheckpoint(p)
      PROVE  \A q \in Processes : ProcessHolds(q)'
  BY <1>3, <1>9 DEF Audit, AuditLogCheckpoint, backfill
<1>10. CASE UNCHANGED vars  BY <1>3, <1>10 DEF vars, backfill
<1> QED
  BY <1>5, <1>6, <1>7, <1>8, <1>9, <1>10 DEF Next, DuplicateColumn, Crash

-----------------------------------------------------------------------------
(* Signed checkpoints stay covered, and a new one covers its own entry.    *)
LEMMA CheckpointsStep ==
  ASSUME Inv, TypeOK', [Next]_vars
  PROVE  CheckpointsHold'
<1>1. /\ OnlyGrows /\ TypeOK /\ TypeOK' /\ CheckpointsHold
      /\ Len(admin_audit) \in Nat /\ Len(admin_audit') \in Nat
      /\ audit_checkpoints \in Seq(Checkpoint)
  BY LogStep DEF Inv, TypeOK
<1>2. ASSUME NEW cp, Covered(cp)
      PROVE  /\ cp.height \in 1..Len(admin_audit')
             /\ cp.head_hash = Logs(admin_audit', cp.height)
             /\ Chained(admin_audit', cp.height)
             /\ admin_audit'[cp.height].entry = "AUDIT_LOG_CHECKPOINT"
  <2>1. cp.height \in 1..Len(admin_audit) /\ cp.height \in 0..Len(admin_audit) /\ cp.height > 0
    BY <1>1, <1>2 DEF Covered
  <2>2. /\ Logs(admin_audit', cp.height) = Logs(admin_audit, cp.height)
        /\ Chained(admin_audit', cp.height)
    BY <1>1, <1>2, <2>1, HashesStay DEF Covered
  <2>3. /\ Len(admin_audit) <= Len(admin_audit')
        /\ admin_audit'[cp.height].entry = admin_audit[cp.height].entry
    BY <1>1, <2>1 DEF OnlyGrows
  <2> QED  BY <1>1, <1>2, <2>1, <2>2, <2>3 DEF Covered
<1>3. CASE audit_checkpoints' = audit_checkpoints
  <2>1. ASSUME NEW k \in 1..Len(audit_checkpoints) PROVE Covered(audit_checkpoints[k])'
    <3>1. Covered(audit_checkpoints[k])  BY <1>1 DEF CheckpointsHold
    <3> QED  BY <1>2, <1>3, <3>1 DEF Covered
  <2> QED  BY <1>3, <2>1 DEF CheckpointsHold
<1>4. ASSUME NEW p \in Processes, AuditLogCheckpoint(p) PROVE CheckpointsHold'
  <2> DEFINE n == Len(admin_audit')
             cp == SignedHead(admin_audit')
  <2>1. /\ pc[p] = "up" /\ admin_audit' = append("AUDIT_LOG_CHECKPOINT")
        /\ audit_checkpoints' = Append(audit_checkpoints, cp)
    BY <1>4 DEF AuditLogCheckpoint
  <2>2. /\ admin_audit' \in Seq(Row) /\ n = Len(admin_audit) + 1
        /\ RowHolds(admin_audit', n) /\ Chained(admin_audit', n)
        /\ admin_audit'[n].entry = "AUDIT_LOG_CHECKPOINT"
    <3>1. "AUDIT_LOG_CHECKPOINT" \in Logged  BY DEF Logged
    <3> QED  BY <2>1, <3>1, AppendGrows
  <2>3. n \in 1..n /\ admin_audit' # << >>  BY <1>1, <2>2
  <2>4. cp.height = n  BY DEF SignedHead
  <2>5. cp.head_hash = Logs(admin_audit', n)
    BY <2>2, <2>3 DEF SignedHead, HeadHash, Last, RowHolds, Chained
  <2>6. /\ cp.height \in 1..Len(admin_audit') /\ cp.head_hash = Logs(admin_audit', cp.height)
        /\ Chained(admin_audit', cp.height)
        /\ admin_audit'[cp.height].entry = "AUDIT_LOG_CHECKPOINT"
    BY <2>2, <2>3, <2>4, <2>5
  <2>7. cp \in Checkpoint
    <3>1. audit_checkpoints' \in Seq(Checkpoint)  BY <1>1 DEF TypeOK
    <3>2. /\ audit_checkpoints'[Len(audit_checkpoints) + 1] = cp
          /\ Len(audit_checkpoints') = Len(audit_checkpoints) + 1
      BY <1>1, <2>1
    <3> QED  BY <1>1, <3>1, <3>2
  <2> HIDE DEF cp
  <2>8. /\ Len(audit_checkpoints') = Len(audit_checkpoints) + 1
        /\ \A k \in 1..Len(audit_checkpoints) : audit_checkpoints'[k] = audit_checkpoints[k]
        /\ audit_checkpoints'[Len(audit_checkpoints) + 1] = cp
    BY <1>1, <2>1, <2>7
  <2>9. ASSUME NEW k \in 1..Len(audit_checkpoints') PROVE Covered(audit_checkpoints[k])'
    <3>1. CASE k \in 1..Len(audit_checkpoints)
      <4>1. Covered(audit_checkpoints[k])  BY <1>1, <3>1 DEF CheckpointsHold
      <4> QED  BY <1>2, <2>8, <3>1, <4>1 DEF Covered
    <3>2. CASE k = Len(audit_checkpoints) + 1
      BY <2>6, <2>8, <3>2 DEF Covered
    <3> QED  BY <1>1, <2>8, <3>1, <3>2
  <2> QED  BY <2>9 DEF CheckpointsHold
<1>5. CASE \A p \in Processes : ~AuditLogCheckpoint(p)
  <2>1. audit_checkpoints' = audit_checkpoints
    BY <1>5 DEF Next, vars, disk, Start, SchemaFails, ReadColumns, AddColumn, DuplicateColumn,
                ReadLog, Ready, Crash, Gone, Visit, Audit
  <2> QED  BY <1>3, <2>1
<1> QED  BY <1>4, <1>5

-----------------------------------------------------------------------------
LEMMA InitHolds == Init => Inv
<1> SUFFICES ASSUME Init PROVE Inv  OBVIOUS
<1>1. /\ admin_audit \in Seq(Row)
      /\ \A i \in 1..Len(admin_audit) : admin_audit[i].entry_hash = NoHash
  <2>1. CASE admin_audit = << >>  BY <2>1
  <2>2. CASE \E n \in 0..MaxLegacy : admin_audit \in [1..n -> {Unchained(e) : e \in Entries}]
    <3>1. PICK n \in 0..MaxLegacy : admin_audit \in [1..n -> {Unchained(e) : e \in Entries}]
      BY <2>2
    <3>2. \A e \in Entries : Unchained(e) \in Row /\ Unchained(e).entry_hash = NoHash
      BY DEF Unchained, Row, Logged
    <3>3. n \in Nat  BY AuditLogAssumptions
    <3>4. \A i \in 1..n : admin_audit[i] \in Row /\ admin_audit[i].entry_hash = NoHash
      BY <3>1, <3>2
    <3> QED  BY <3>1, <3>3, <3>4
  <2> QED  BY <2>1, <2>2 DEF Init
<1>2. LogHolds  BY <1>1 DEF LogHolds, RowHolds, Chained
<1>3. audit_checkpoints = << >>  BY DEF Init
<1>4. CheckpointsHold  BY <1>3 DEF CheckpointsHold
<1>5. \A p \in Processes : BackfillHolds(p) /\ FreshHolds(p) /\ UpHolds(p)
  BY DEF Init, BackfillHolds, FreshHolds, UpHolds
<1>6. TypeOK
  <2>1. GENESIS \in Hash /\ << >> \in Seq(Row) /\ << >> \in Seq(Checkpoint)
    BY DEF GENESIS, Hash
  <2> QED  BY <1>1, <2>1 DEF Init, TypeOK
<1> QED  BY <1>2, <1>4, <1>5, <1>6 DEF Inv

LEMMA InvHolds == Spec => []Inv
<1>1. Inv /\ [Next]_vars => Inv'
  <2> SUFFICES ASSUME Inv, [Next]_vars PROVE Inv'  OBVIOUS
  <2>1. TypeOK'  BY TypeStep
  <2>2. LogHolds'  BY LogStep DEF LogHolds
  <2>3. CheckpointsHold'  BY <2>1, CheckpointsStep
  <2>4. \A p \in Processes : ProcessHolds(p)'  BY <2>1, ProcessesStep
  <2> QED  BY <2>1, <2>2, <2>3, <2>4 DEF Inv, ProcessHolds
<1> QED  BY <1>1, InitHolds, PTL DEF Spec

-----------------------------------------------------------------------------
(* A log whose rows are all chained by the right hashes is what verify     *)
(* asks for.                                                               *)
LEMMA ChainedIsLinked ==
  ASSUME Inv, FullyChained(admin_audit)
  PROVE  Linked(admin_audit)
<1>1. admin_audit \in Seq(Row) /\ LogHolds  BY DEF Inv, TypeOK
<1>2. ASSUME NEW i \in 1..Len(admin_audit)
      PROVE  LET hash == IF i = 1 THEN GENESIS ELSE admin_audit[i - 1].entry_hash
             IN /\ admin_audit[i].prev_hash = hash
                /\ admin_audit[i].entry_hash = entry_hash(hash, admin_audit[i].entry)
  <2>1. /\ admin_audit[i].prev_hash = Logs(admin_audit, i - 1)
        /\ admin_audit[i].entry_hash = Logs(admin_audit, i)
    BY <1>1 DEF FullyChained, Chained, LogHolds, RowHolds
  <2>2. Logs(admin_audit, i) = entry_hash(Logs(admin_audit, i - 1), admin_audit[i].entry)
    BY <1>1, LogsNext
  <2>3. CASE i = 1
    <3>1. i - 1 = 0  BY <2>3
    <3>2. Logs(admin_audit, i - 1) = GENESIS  BY <3>1, LogsNone
    <3> QED  BY <2>1, <2>2, <2>3, <3>2
  <2>4. CASE i # 1
    <3>1. i - 1 \in 1..Len(admin_audit)  BY <1>1, <2>4
    <3>2. admin_audit[i - 1].entry_hash = Logs(admin_audit, i - 1)
      BY <1>1, <3>1 DEF FullyChained, Chained, LogHolds, RowHolds
    <3> QED  BY <2>1, <2>2, <2>4, <3>2
  <2> QED  BY <2>3, <2>4
<1> QED  BY <1>2 DEF Linked

LEMMA CoveredReaches ==
  ASSUME Inv, NEW cp, Covered(cp)
  PROVE  /\ Reaches(admin_audit, cp)
         /\ cp.height > 0 /\ admin_audit[cp.height].entry = "AUDIT_LOG_CHECKPOINT"
<1>1. LogHolds /\ cp.height \in 1..Len(admin_audit) /\ Len(admin_audit) \in Nat
  BY DEF Inv, TypeOK, Covered
<1>2. admin_audit[cp.height].entry_hash = Logs(admin_audit, cp.height)
  BY <1>1 DEF LogHolds, RowHolds, Covered
<1> QED  BY <1>1, <1>2 DEF Reaches, Covered

-----------------------------------------------------------------------------
(* Every variable keeps its type. *)
THEOREM TypeCorrect == Spec => []TypeOK
<1>1. Inv => TypeOK  BY DEF Inv
<1> QED  BY <1>1, InvHolds, PTL

(* Whoever is up finds the log intact, for any number of processes, rows   *)
(* and start-ups that overlap or die half-way.                             *)
THEOREM LogAlwaysVerifies == Spec => []NoFalseAlarm
<1>1. Inv => NoFalseAlarm
  <2> SUFFICES ASSUME Inv, NEW p \in Processes, pc[p] = "up" PROVE verify
    BY DEF NoFalseAlarm
  <2>1. FullyChained(admin_audit)  BY DEF Inv, UpHolds
  <2>2. Linked(admin_audit)  BY <2>1, ChainedIsLinked
  <2>3. ASSUME audit_checkpoints # << >> PROVE Reaches(admin_audit, Last(audit_checkpoints))
    <3> DEFINE n == Len(audit_checkpoints)
    <3>1. audit_checkpoints \in Seq(Checkpoint) /\ CheckpointsHold  BY DEF Inv, TypeOK
    <3>2. n \in 1..n  BY <2>3, <3>1
    <3>3. Covered(audit_checkpoints[n])  BY <3>1, <3>2 DEF CheckpointsHold
    <3> QED  BY <3>3, CoveredReaches DEF Last
  <2> QED  BY <2>2, <2>3 DEF verify
<1> QED  BY <1>1, InvHolds, PTL

(* Every signed checkpoint covers the entry that recorded its signing, and *)
(* the log still reaches it.                                               *)
THEOREM CheckpointsAlwaysCover == Spec => []CheckpointsCoverThemselves
<1>1. Inv => CheckpointsCoverThemselves
  BY CoveredReaches DEF Inv, CheckpointsHold, CheckpointsCoverThemselves
<1> QED  BY <1>1, InvHolds, PTL

(* The log is append-only once it is chained: a step never removes a row,  *)
(* changes what was logged, or rewrites a row that has its hash, although  *)
(* a migrating process may UPDATE a row that another has chained by then.  *)
THEOREM HistoryIsNeverRewritten == Spec => [][OnlyGrows]_vars
<1>1. Inv /\ [Next]_vars => [OnlyGrows]_vars  BY LogStep
<1> QED  BY <1>1, InvHolds, PTL DEF Spec
=============================================================================
