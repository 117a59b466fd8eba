---------------------------- MODULE Transactions ----------------------------
(***************************************************************************)
(* The ballot box statement by statement.  Every request is served by a    *)
(* worker thread that opens its own SQLite connection.  Writers run inside *)
(* db.tx: BEGIN IMMEDIATE takes the one write lock (or gives up when the   *)
(* busy timeout runs out), statements work on an uncommitted copy, COMMIT  *)
(* installs it, any exception rolls it back.  Readers run inside db.read:  *)
(* one snapshot, taken by the first SELECT, for every SELECT of the block. *)
(* The process may crash between any two statements, and a reply may be    *)
(* lost after its transaction has committed.                               *)
(*                                                                         *)
(* Sessions, their expiry and their one-time codes are in Accreditation;   *)
(* here every voter holds one live session whose code was verified, and    *)
(* whose face check runs inside a transaction, as the ballot does.         *)
(***************************************************************************)
EXTENDS Integers, Sequences, FiniteSets

CONSTANTS
  Workers,          \* threads that serve requests
  NoWorker,         \* nobody holds the write lock
  Voters, Elections, Parties, PollingUnits, Unregistered,
  FACE_MAX_ATTEMPTS,
  Kinds,            \* bound: the kinds of request clients send
  MaxCheckpoints    \* bound: how many ledger checkpoints are signed

ASSUME TransactionsAssumptions ==
  /\ IsFiniteSet(Workers) /\ NoWorker \notin Workers
  /\ IsFiniteSet(Voters)
  /\ Unregistered \notin PollingUnits
  /\ FACE_MAX_ATTEMPTS \in Nat /\ MaxCheckpoints \in Nat
  /\ Kinds \subseteq {"cast", "face", "open", "close", "checkpoint", "public_ledger"}

VARIABLES
  register,    \* voters: polling unit of each voter
  db,          \* the committed tables
  receipts,    \* receipts of committed ballots
  writer,      \* who holds SQLite's write lock
  pc,          \* the next statement of each worker
  req,         \* the request it serves
  local,       \* a writer's uncommitted copy, a reader's snapshot
  seen,        \* the ledger head a writer has read
  rows,        \* the ledger rows a reader has read
  reply,       \* the answer it is about to send
  heard,       \* per voter and election: what she heard of her ballot
  told,        \* per voter: how many verdicts on her face she heard
  published,   \* per election: the ledgers published by public_ledger
  verdicts     \* what public_ledger has said of the chain

served == <<pc, req, local, seen, rows, reply>>
public == <<heard, told, published, verdicts>>
vars == <<register, db, receipts, writer, served, public>>

Box ==
  INSTANCE BallotBox
  WITH status <- db.status, votes_cast <- db.votes_cast, ledger <- db.ledger,
       ledger_checkpoints <- db.ledger_checkpoints

Session == [face_attempts : Nat, face_verified : BOOLEAN]
NewSession == [face_attempts |-> 0, face_verified |-> FALSE]

Database == [status : [Elections -> Box!Status],
             votes_cast : SUBSET (Voters \X Elections),
             ledger : Seq(Box!Block),
             ledger_checkpoints : Seq(Box!Checkpoint),
             sessions : [Voters -> Session]]

NewDatabase == [status |-> [e \in Elections |-> "PENDING"], votes_cast |-> {},
                ledger |-> << >>, ledger_checkpoints |-> << >>,
                sessions |-> [v \in Voters |-> NewSession]]

Request ==
  [kind : {"cast"}, voter : Voters, election : Elections, party : Parties]
  \cup [kind : {"face"}, voter : Voters]
  \cup [kind : {"open", "close"}, election : Elections]
  \cup [kind : {"checkpoint", "public_ledger", "none"}]

NoRequest == [kind |-> "none"]
NoHead == Box!SignedHead(<< >>)

-----------------------------------------------------------------------------
Init ==
  /\ register \in [Voters -> PollingUnits]
  /\ db = NewDatabase
  /\ receipts = {}
  /\ writer = NoWorker
  /\ pc = [w \in Workers |-> "idle"]
  /\ req = [w \in Workers |-> NoRequest]
  /\ local = [w \in Workers |-> NewDatabase]
  /\ seen = [w \in Workers |-> NoHead]
  /\ rows = [w \in Workers |-> << >>]
  /\ reply = [w \in Workers |-> "none"]
  /\ heard = [c \in Voters \X Elections |-> {}]
  /\ told = [v \in Voters |-> 0]
  /\ published = [e \in Elections |-> {}]
  /\ verdicts = {}

Goto(w, from, to) == pc[w] = from /\ pc' = [pc EXCEPT ![w] = to]

(* The bound on checkpoints counts the requests being served. *)
CheckpointsAsked ==
  Len(db.ledger_checkpoints) + Cardinality({w \in Workers : req[w].kind = "checkpoint"})

(* A request arrives: a face to check, a ballot, an election opened or      *)
(* closed, a checkpoint to sign, or a reader of the public ledger.          *)
Accept(w, r) ==
  /\ r.kind \in Kinds
  /\ r.kind = "checkpoint" => CheckpointsAsked < MaxCheckpoints
  /\ Goto(w, "idle", IF r.kind = "public_ledger" THEN "closed" ELSE "begin")
  /\ req' = [req EXCEPT ![w] = r]
  /\ UNCHANGED <<register, db, receipts, writer, local, seen, rows, reply, public>>

-----------------------------------------------------------------------------
(* Writers: db.tx. *)

FirstStatement(kind) ==
  CASE kind = "cast" -> "check"
    [] kind = "face" -> "attempt"
    [] kind = "checkpoint" -> "head"
    [] OTHER -> "update"

(* Mutant: a deferred BEGIN, which takes no lock. *)
LockIgnored == TRUE

LockFree == writer = NoWorker

(* BEGIN IMMEDIATE takes the write lock before anything is read. *)
Begin(w) ==
  /\ LockFree
  /\ Goto(w, "begin", FirstStatement(req[w].kind))
  /\ writer' = w
  /\ local' = [local EXCEPT ![w] = db]
  /\ UNCHANGED <<register, db, receipts, req, seen, rows, reply, public>>

(* Mutant: no busy timeout. *)
WaitsForever(w) == FALSE

(* sqlite3.connect(timeout=10): the lock stayed taken, the request fails. *)
BusyTimeout(w) ==
  /\ writer # NoWorker
  /\ Goto(w, "begin", "respond")
  /\ reply' = [reply EXCEPT ![w] = "error"]
  /\ UNCHANGED <<register, db, receipts, writer, req, local, seen, rows, public>>

(* An exception inside the block: ROLLBACK, close, answer with the error. *)
Rollback(w, answer) ==
  /\ writer' = NoWorker
  /\ local' = [local EXCEPT ![w] = NewDatabase]
  /\ reply' = [reply EXCEPT ![w] = answer]
  /\ UNCHANGED <<register, db, receipts, req, seen, rows, public>>

(* One statement of a writer on its own copy. *)
Write(w, from, to, copy) ==
  /\ Goto(w, from, to)
  /\ local' = [local EXCEPT ![w] = copy]
  /\ UNCHANGED <<register, db, receipts, writer, req, seen, rows, reply, public>>

(* Mutant: the status of the election is not checked. *)
OpenAssumed(w) == TRUE

IsOpen(w) == local[w].status[req[w].election] = "OPEN"

Accredited(w) == local[w].sessions[req[w].voter].face_verified

(* 403: "Accreditation incomplete", or the election is not open. *)
CheckStatus(w) ==
  \/ /\ pc[w] = "check" /\ Accredited(w) /\ IsOpen(w)
     /\ Write(w, "check", "mark", local[w])
  \/ /\ pc[w] = "check" /\ ~(Accredited(w) /\ IsOpen(w))
     /\ Goto(w, "check", "respond") /\ Rollback(w, "refused")

Marked(w) == <<req[w].voter, req[w].election>> \in local[w].votes_cast

(* INSERT INTO votes_cast: the primary key refuses a second row. *)
MarkVoter(w) ==
  \/ /\ pc[w] = "mark" /\ ~Marked(w)
     /\ Write(w, "mark", "head",
              [local[w] EXCEPT !.votes_cast = @ \cup {<<req[w].voter, req[w].election>>}])
  \/ /\ pc[w] = "mark" /\ Marked(w)
     /\ Goto(w, "mark", "respond") /\ Rollback(w, "already")

(* SELECT the last block_hash (a ballot), or all of them (a checkpoint). *)
ReadHead(w) ==
  /\ Goto(w, "head", IF req[w].kind = "cast" THEN "insert" ELSE "sign")
  /\ seen' = [seen EXCEPT ![w] = Box!SignedHead(local[w].ledger)]
  /\ UNCHANGED <<register, db, receipts, writer, req, local, rows, reply, public>>

CastBlock(w) ==
  Box!NewBlock(seen[w].head_hash, req[w].election, req[w].party, register[req[w].voter])

InsertBlock(w) ==
  /\ pc[w] = "insert"
  /\ Write(w, "insert", "commit", [local[w] EXCEPT !.ledger = Append(@, CastBlock(w))])

InsertCheckpoint(w) ==
  /\ pc[w] = "sign"
  /\ Write(w, "sign", "commit", [local[w] EXCEPT !.ledger_checkpoints = Append(@, seen[w])])

(* UPDATE elections ... AND status = frm; rowcount 0 is a 409. *)
UpdateStatus(w) ==
  LET e == req[w].election
      frm == IF req[w].kind = "open" THEN "PENDING" ELSE "OPEN"
      to == IF req[w].kind = "open" THEN "OPEN" ELSE "CLOSED"
  IN \/ /\ pc[w] = "update" /\ local[w].status[e] = frm
        /\ Write(w, "update", "commit", [local[w] EXCEPT !.status[e] = to])
     \/ /\ pc[w] = "update" /\ local[w].status[e] # frm
        /\ Goto(w, "update", "respond") /\ Rollback(w, "refused")

(* Mutant: the attempt is not counted. *)
Uncounted(w) == local[w]

(* UPDATE sessions SET face_attempts = face_attempts + 1 *)
Attempted(w) == [local[w] EXCEPT !.sessions[req[w].voter].face_attempts = @ + 1]

AttemptsLeft(w) == local[w].sessions[req[w].voter].face_attempts < FACE_MAX_ATTEMPTS

CountAttempt(w) ==
  \/ /\ pc[w] = "attempt" /\ AttemptsLeft(w)
     /\ Write(w, "attempt", "match", Attempted(w))
  \/ /\ pc[w] = "attempt" /\ ~AttemptsLeft(w)
     /\ Write(w, "attempt", "commit", local[w])

(* sec.face_check: the matcher runs while the write lock is held.  When it  *)
(* raises (a 503), the attempt is rolled back with the rest.                *)
MatchFace(w) ==
  \/ \E match \in BOOLEAN :
       /\ Goto(w, "match", "commit")
       /\ local' = IF match THEN [local EXCEPT ![w].sessions[req[w].voter].face_verified = TRUE]
                            ELSE local
       /\ reply' = [reply EXCEPT ![w] = IF match THEN "matched" ELSE "rejected"]
       /\ UNCHANGED <<register, db, receipts, writer, req, seen, rows, public>>
  \/ Goto(w, "match", "respond") /\ Rollback(w, "error")

ReceiptOf(w) ==
  LET n == Len(local[w].ledger)
  IN [block_index |-> n, block_hash |-> local[w].ledger[n].block_hash,
      election_type |-> req[w].election]

(* Mutant: a ballot's connection is closed without COMMIT. *)
BallotDiscarded(w) == IF req[w].kind = "cast" THEN db ELSE local[w]

Committed(w) == local[w]

(* COMMIT installs the copy and releases the lock; the receipt was computed *)
(* inside the block and is returned after it.                               *)
Commit(w) ==
  /\ Goto(w, "commit", "respond")
  /\ db' = Committed(w)
  /\ writer' = NoWorker
  /\ receipts' = IF req[w].kind = "cast" THEN receipts \cup {ReceiptOf(w)} ELSE receipts
  /\ reply' = [reply EXCEPT ![w] = IF @ # "none" THEN @
                                   ELSE IF req[w].kind = "cast" THEN "receipt" ELSE "done"]
  /\ local' = [local EXCEPT ![w] = NewDatabase]
  /\ UNCHANGED <<register, req, seen, rows, public>>

InTransaction == {"attempt", "match", "check", "mark", "head", "insert", "sign", "update", "commit"}

(* A statement fails (disk full, I/O error): nothing of the block survives. *)
Abort(w) ==
  /\ \E at \in InTransaction : Goto(w, at, "respond")
  /\ Rollback(w, "error")

-----------------------------------------------------------------------------
(* The reader public_ledger: db.read. *)

(* BEGIN, SELECT the CLOSED elections: the snapshot is fixed here. *)
ReadClosed(w) ==
  /\ Goto(w, "closed", "rows")
  /\ local' = [local EXCEPT ![w] = db]
  /\ UNCHANGED <<register, db, receipts, writer, req, seen, rows, reply, public>>

(* Mutant: no BEGIN, so that every SELECT sees the latest commit. *)
NoSnapshot(w) == db

Snapshot(w) == local[w]

ReadRows(w) ==
  /\ Goto(w, "rows", "checkpoint")
  /\ rows' = [rows EXCEPT ![w] = Snapshot(w).ledger]
  /\ UNCHANGED <<register, db, receipts, writer, req, local, seen, reply, public>>

(* The rows of one election, each with its block_index. *)
BlocksFor(sequence, e) ==
  {<<i, sequence[i]>> : i \in {j \in 1..Len(sequence) : sequence[j].election_type = e}}

(* SELECT the latest checkpoint, verify the rows against it, publish the    *)
(* blocks of the elections seen CLOSED.                                     *)
ReadCheckpoint(w) ==
  /\ Goto(w, "checkpoint", "respond")
  /\ verdicts' = verdicts \cup
                   {Box!verify_chain(rows[w], Snapshot(w).ledger_checkpoints)}
  /\ published' = [e \in Elections |->
                     IF local[w].status[e] = "CLOSED"
                     THEN published[e] \cup {BlocksFor(rows[w], e)}
                     ELSE published[e]]
  /\ reply' = [reply EXCEPT ![w] = "done"]
  /\ local' = [local EXCEPT ![w] = NewDatabase]
  /\ UNCHANGED <<register, db, receipts, writer, req, seen, rows, heard, told>>

-----------------------------------------------------------------------------
(* Answers and crashes. *)

Idle(w) ==
  /\ req' = [req EXCEPT ![w] = NoRequest]
  /\ seen' = [seen EXCEPT ![w] = NoHead]
  /\ rows' = [rows EXCEPT ![w] = << >>]
  /\ reply' = [reply EXCEPT ![w] = "none"]
  /\ UNCHANGED <<register, db, receipts, writer, local, published, verdicts>>

Deliver(w) ==
  /\ Goto(w, "respond", "idle")
  /\ Idle(w)
  /\ heard' = IF reply[w] \in {"receipt", "already"}
              THEN [heard EXCEPT ![<<req[w].voter, req[w].election>>] = @ \cup {reply[w]}]
              ELSE heard
  /\ told' = IF reply[w] \in {"matched", "rejected"}
             THEN [told EXCEPT ![req[w].voter] = @ + 1] ELSE told

(* The connection is gone; nothing of the answer is kept on the server. *)
LoseReply(w) ==
  /\ Goto(w, "respond", "idle")
  /\ Idle(w)
  /\ UNCHANGED <<heard, told>>

(* The process dies: uncommitted copies and the lock go with it. *)
Crash ==
  /\ \E w \in Workers : pc[w] # "idle"
  /\ writer' = NoWorker
  /\ pc' = [w \in Workers |-> "idle"]
  /\ req' = [w \in Workers |-> NoRequest]
  /\ local' = [w \in Workers |-> NewDatabase]
  /\ seen' = [w \in Workers |-> NoHead]
  /\ rows' = [w \in Workers |-> << >>]
  /\ reply' = [w \in Workers |-> "none"]
  /\ UNCHANGED <<register, db, receipts, public>>

Step(w) ==
  \/ Begin(w) \/ BusyTimeout(w)
  \/ CountAttempt(w) \/ MatchFace(w)
  \/ CheckStatus(w) \/ MarkVoter(w) \/ ReadHead(w)
  \/ InsertBlock(w) \/ InsertCheckpoint(w) \/ UpdateStatus(w) \/ Commit(w)
  \/ ReadClosed(w) \/ ReadRows(w) \/ ReadCheckpoint(w)
  \/ Deliver(w) \/ LoseReply(w)

Next ==
  \/ \E w \in Workers :
       \/ \E r \in Request : Accept(w, r)
       \/ Step(w)
       \/ Abort(w)
  \/ Crash

Spec == Init /\ [][Next]_vars

(* A thread keeps running, the matcher returns or raises (nothing in the    *)
(* code bounds how long it may take), and a thread that waits for the lock  *)
(* either gets it or hits the busy timeout; nothing forces clients or       *)
(* crashes to come.                                                         *)
FairSpec == Spec /\ \A w \in Workers : WF_vars(Step(w))

-----------------------------------------------------------------------------
(* Properties. *)

Label == {"idle", "begin", "respond", "closed", "rows", "checkpoint"} \cup InTransaction
Answer == {"none", "matched", "rejected", "receipt", "done", "already", "refused", "error"}

(* Every variable keeps its type at every statement of every worker. *)
TypeOK ==
  /\ register \in [Voters -> PollingUnits]
  /\ db \in Database
  /\ receipts \in SUBSET Box!Receipt
  /\ writer \in Workers \cup {NoWorker}
  /\ pc \in [Workers -> Label]
  /\ req \in [Workers -> Request]
  /\ local \in [Workers -> Database]
  /\ seen \in [Workers -> Box!Checkpoint]
  /\ rows \in [Workers -> Seq(Box!Block)]
  /\ reply \in [Workers -> Answer]
  /\ heard \in [Voters \X Elections -> SUBSET Answer]
  /\ told \in [Voters -> Nat]
  /\ published \in [Elections -> SUBSET (SUBSET (Nat \X Box!Block))]
  /\ verdicts \in SUBSET BOOLEAN

(* Interleaved statements, aborts and crashes add up to whole transactions: *)
(* what commits is one step of BallotBox ("check-and-write is atomic across *)
(* workers", main.py).                                                      *)
ImplementsBallotBox == Box!Spec

(* No reader ever reports a broken or truncated ledger while votes and     *)
(* checkpoints are being written: the "spurious truncated ledger alarm"    *)
(* that db.read's snapshot is there to prevent.                            *)
NoFalseAlarm == FALSE \notin verdicts

(* Any two readers who were shown a closed election were shown the same    *)
(* blocks of it, however their reads interleaved with late ballots.        *)
OnePublishedLedger == \A e \in Elections : Cardinality(published[e]) <= 1

(* An acknowledged vote is never taken back by a crash or an abort: every  *)
(* voter who heard a receipt is marked, and there are at least as many     *)
(* committed blocks as there are such voters.                              *)
AcknowledgedIsCommitted ==
  \A e \in Elections :
    LET thanked == {v \in Voters : "receipt" \in heard[<<v, e>>]}
    IN /\ \A v \in thanked : <<v, e>> \in db.votes_cast
       /\ Cardinality(thanked) <= Cardinality(BlocksFor(db.ledger, e))

(* A verdict on a face is never given away: every one a client heard was    *)
(* counted, although the matcher may raise, the commit may fail or the      *)
(* process die after it, and nobody's ballot is in without a match.         *)
FaceVerdictsAreCounted ==
  \A v \in Voters :
    /\ told[v] <= db.sessions[v].face_attempts
    /\ db.sessions[v].face_attempts <= FACE_MAX_ATTEMPTS
    /\ (\E e \in Elections : <<v, e>> \in db.votes_cast) => db.sessions[v].face_verified

(* Every request is answered or dies with the process, and leaves the lock  *)
(* free whether its block committed, raised or died: no worker waits for    *)
(* the lock, holds it or serves one request forever.                        *)
EveryRequestEnds ==
  \A w \in Workers : pc[w] # "idle" ~> (pc[w] = "idle" /\ writer # w)
=============================================================================
