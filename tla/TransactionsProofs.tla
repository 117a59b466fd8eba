-------------------------- MODULE TransactionsProofs --------------------------
(***************************************************************************)
(* What db.tx and db.read guarantee for any number of worker threads, any  *)
(* electorate and any interleaving of their statements, aborts and         *)
(* crashes.                                                                *)
(***************************************************************************)
EXTENDS Transactions, FiniteSetTheorems, TLAPS

-----------------------------------------------------------------------------
(* Requests, copies of the tables, and where a worker can be with them. *)

LEMMA RequestFields ==
  ASSUME NEW r \in Request
  PROVE  /\ r.kind \in {"cast", "face", "open", "close", "checkpoint", "public_ledger", "none"}
         /\ r.kind = "cast" => r.voter \in Voters /\ r.election \in Elections /\ r.party \in Parties
         /\ r.kind = "face" => r.voter \in Voters
         /\ r.kind \in {"open", "close"} => r.election \in Elections
BY DEF Request

LEMMA NoRequestType == NoRequest \in Request /\ NoRequest.kind = "none"
BY DEF NoRequest, Request

(* Which requests each statement belongs to, and which answers. *)
Fits(w) ==
  /\ pc[w] \in {"attempt", "match"} => req[w].kind = "face"
  /\ pc[w] \in {"check", "mark", "insert"} => req[w].kind = "cast"
  /\ pc[w] = "head" => req[w].kind \in {"cast", "checkpoint"}
  /\ pc[w] = "sign" => req[w].kind = "checkpoint"
  /\ pc[w] = "update" => req[w].kind \in {"open", "close"}
  /\ pc[w] \in {"begin", "commit"}
       => req[w].kind \in {"cast", "face", "open", "close", "checkpoint"}
  /\ pc[w] = "commit" /\ req[w].kind = "cast" => local[w].ledger # << >>
  /\ pc[w] \notin {"commit", "respond"} => reply[w] = "none"
  /\ pc[w] = "commit" => \/ reply[w] = "none"
                         \/ req[w].kind = "face" /\ reply[w] \in {"matched", "rejected"}
  /\ reply[w] \in {"receipt", "already"} => req[w].kind = "cast"
  /\ reply[w] \in {"matched", "rejected"} => req[w].kind = "face"

StatementsFit == \A w \in Workers : Fits(w)

TypeInv == TypeOK /\ StatementsFit

LEMMA DatabaseFields ==
  ASSUME NEW d \in Database
  PROVE  /\ d.status \in [Elections -> Box!Status]
         /\ d.votes_cast \in SUBSET (Voters \X Elections)
         /\ d.ledger \in Seq(Box!Block) /\ Len(d.ledger) \in Nat
         /\ d.ledger_checkpoints \in Seq(Box!Checkpoint)
         /\ d.sessions \in [Voters -> Session]
BY DEF Database

LEMMA NewDatabaseType == NewDatabase \in Database
BY DEF NewDatabase, Database, Box!Status, NewSession, Session

LEMMA SignedHeadType ==
  ASSUME NEW ledger \in Seq(Box!Block)
  PROVE  /\ Box!HeadHash(ledger) \in Box!Hash
         /\ Box!SignedHead(ledger) \in Box!Checkpoint
<1>1. << >> \in Box!Hash  BY DEF Box!Hash
<1>2. ledger # << >> => ledger[Len(ledger)] \in Box!Block  OBVIOUS
<1>3. Box!HeadHash(ledger) \in Box!Hash
  BY <1>1, <1>2 DEF Box!HeadHash, Box!GENESIS, Box!Block
<1> QED  BY <1>3 DEF Box!SignedHead, Box!Checkpoint

LEMMA NoHeadType == << >> \in Seq(Box!Block) /\ NoHead \in Box!Checkpoint
<1>1. << >> \in Seq(Box!Block)  OBVIOUS
<1> QED  BY <1>1, SignedHeadType DEF NoHead

LEMMA NewBlockType ==
  ASSUME NEW prev \in Box!Hash, NEW e \in Elections, NEW p \in Parties, NEW u \in PollingUnits
  PROVE  Box!NewBlock(prev, e, p, u) \in Box!Block
<1>1. <<e, p, u>> \in Box!Ballot  BY DEF Box!Ballot
<1>2. Box!compute_hash(prev, e, p, u) \in Box!Hash  BY <1>1 DEF Box!compute_hash, Box!Hash
<1> QED  BY <1>2 DEF Box!NewBlock, Box!Block

LEMMA BlocksForType ==
  ASSUME NEW ledger \in Seq(Box!Block), NEW e
  PROVE  BlocksFor(ledger, e) \in SUBSET (Nat \X Box!Block)
BY DEF BlocksFor

LEMMA VerdictType ==
  ASSUME NEW ledger, NEW cps
  PROVE  Box!verify_chain(ledger, cps) \in BOOLEAN
BY DEF Box!verify_chain

-----------------------------------------------------------------------------
(* Type correctness, one statement at a time. *)

(* What the statements of w leave alone, and the requests they read. *)
LEMMA Typed ==
  ASSUME TypeInv, NEW w \in Workers
  PROVE  /\ db \in Database /\ local[w] \in Database /\ req[w] \in Request
         /\ seen[w] \in Box!Checkpoint /\ rows[w] \in Seq(Box!Block)
         /\ pc[w] \in Label /\ reply[w] \in Answer
BY DEF TypeInv, TypeOK

LEMMA WriteType ==
  ASSUME TypeInv, NEW w \in Workers, NEW from, NEW to \in Label, NEW copy \in Database,
         Write(w, from, to, copy)
  PROVE  TypeOK'
BY DEF TypeInv, TypeOK, Write, Goto, public

LEMMA RollbackType ==
  ASSUME TypeInv, NEW w \in Workers, NEW from, NEW answer \in Answer,
         Goto(w, from, "respond"), Rollback(w, answer)
  PROVE  TypeOK'
<1>1. "respond" \in Label  BY DEF Label
<1> QED  BY <1>1, NewDatabaseType DEF TypeInv, TypeOK, Rollback, Goto, public

LEMMA CastBlockType ==
  ASSUME TypeInv, NEW w \in Workers, req[w].kind = "cast"
  PROVE  /\ req[w].voter \in Voters /\ req[w].election \in Elections
         /\ CastBlock(w) \in Box!Block
         /\ Append(local[w].ledger, CastBlock(w)) \in Seq(Box!Block) \ {<< >>}
<1>1. req[w].voter \in Voters /\ req[w].election \in Elections /\ req[w].party \in Parties
  BY Typed, RequestFields
<1>2. seen[w].head_hash \in Box!Hash  BY Typed DEF Box!Checkpoint
<1>3. register[req[w].voter] \in PollingUnits  BY <1>1 DEF TypeInv, TypeOK
<1>4. CastBlock(w) \in Box!Block  BY <1>1, <1>2, <1>3, NewBlockType DEF CastBlock
<1>5. local[w].ledger \in Seq(Box!Block)  BY Typed, DatabaseFields
<1>6. Append(local[w].ledger, CastBlock(w)) \in Seq(Box!Block) \ {<< >>}
  BY <1>4, <1>5
<1> QED  BY <1>1, <1>4, <1>6

LEMMA BallotWritesType ==
  ASSUME TypeInv, NEW w \in Workers,
         CheckStatus(w) \/ MarkVoter(w) \/ InsertBlock(w)
  PROVE  TypeOK'
<1>1. /\ "mark" \in Label /\ "head" \in Label /\ "commit" \in Label
      /\ "refused" \in Answer /\ "already" \in Answer
  BY DEF Label, InTransaction, Answer
<1>2. CASE CheckStatus(w)
  BY <1>1, <1>2, WriteType, RollbackType, Typed DEF CheckStatus
<1>3. CASE MarkVoter(w)
  <2>1. CASE Goto(w, "mark", "respond") /\ Rollback(w, "already")
    BY <1>1, <2>1, RollbackType
  <2>2. CASE pc[w] = "mark" /\ Write(w, "mark", "head",
              [local[w] EXCEPT !.votes_cast = @ \cup {<<req[w].voter, req[w].election>>}])
    <3>1. req[w].voter \in Voters /\ req[w].election \in Elections
      BY <2>2, Typed, RequestFields DEF TypeInv, StatementsFit, Fits
    <3>2. local[w].votes_cast \cup {<<req[w].voter, req[w].election>>}
             \in SUBSET (Voters \X Elections)
      BY <3>1, Typed, DatabaseFields
    <3>3. [local[w] EXCEPT !.votes_cast = @ \cup {<<req[w].voter, req[w].election>>}] \in Database
      BY <3>2, Typed DEF Database
    <3> QED  BY <1>1, <2>2, <3>3, WriteType
  <2> QED  BY <1>3, <2>1, <2>2 DEF MarkVoter
<1>4. CASE InsertBlock(w)
  <2>1. req[w].kind = "cast"  BY <1>4 DEF InsertBlock, TypeInv, StatementsFit, Fits
  <2>2. Append(local[w].ledger, CastBlock(w)) \in Seq(Box!Block)
    BY <2>1, CastBlockType
  <2>3. [local[w] EXCEPT !.ledger = Append(@, CastBlock(w))] \in Database
    BY <2>2, Typed DEF Database
  <2> QED  BY <1>1, <1>4, <2>3, WriteType DEF InsertBlock
<1> QED  BY <1>2, <1>3, <1>4

LEMMA AdminWritesType ==
  ASSUME TypeInv, NEW w \in Workers,
         InsertCheckpoint(w) \/ UpdateStatus(w)
  PROVE  TypeOK'
<1>1. "commit" \in Label /\ "refused" \in Answer  BY DEF Label, InTransaction, Answer
<1>2. CASE InsertCheckpoint(w)
  <2>1. Append(local[w].ledger_checkpoints, seen[w]) \in Seq(Box!Checkpoint)
    BY Typed, DatabaseFields
  <2>2. [local[w] EXCEPT !.ledger_checkpoints = Append(@, seen[w])] \in Database
    BY <2>1, Typed DEF Database
  <2> QED  BY <1>1, <1>2, <2>2, WriteType DEF InsertCheckpoint
<1>3. CASE UpdateStatus(w)
  <2> DEFINE to == IF req[w].kind = "open" THEN "OPEN" ELSE "CLOSED"
  <2>1. CASE Goto(w, "update", "respond") /\ Rollback(w, "refused")
    BY <1>1, <2>1, RollbackType
  <2>2. CASE pc[w] = "update" /\ Write(w, "update", "commit",
               [local[w] EXCEPT !.status[req[w].election] = to])
    <3>1. req[w].election \in Elections
      BY <2>2, Typed, RequestFields DEF TypeInv, StatementsFit, Fits
    <3>2. [local[w].status EXCEPT ![req[w].election] = to] \in [Elections -> Box!Status]
      BY Typed DEF Database, Box!Status
    <3>3. [local[w] EXCEPT !.status[req[w].election] = to] \in Database
      BY <3>2, Typed DEF Database
    <3> QED  BY <1>1, <2>2, <3>3, WriteType
  <2> QED  BY <1>3, <2>1, <2>2 DEF UpdateStatus
<1> QED  BY <1>2, <1>3

LEMMA FaceWritesType ==
  ASSUME TypeInv, NEW w \in Workers,
         CountAttempt(w) \/ MatchFace(w)
  PROVE  TypeOK'
<1>1. /\ "match" \in Label /\ "commit" \in Label
      /\ {"error", "matched", "rejected"} \subseteq Answer
  BY DEF Label, InTransaction, Answer
<1>2. pc[w] \in {"attempt", "match"}
  BY DEF CountAttempt, MatchFace, Goto
<1>3. req[w].voter \in Voters
  BY <1>2, Typed, RequestFields DEF TypeInv, StatementsFit, Fits
<1>4. /\ local[w].sessions \in [Voters -> Session]
      /\ local[w].sessions[req[w].voter] \in Session
  BY <1>3, Typed DEF Database
<1>5. CASE CountAttempt(w)
  <2>1. Attempted(w) \in Database
    <3>1. [local[w].sessions[req[w].voter] EXCEPT !.face_attempts = @ + 1] \in Session
      BY <1>4 DEF Session
    <3>2. [local[w].sessions EXCEPT ![req[w].voter].face_attempts = @ + 1]
             \in [Voters -> Session]
      BY <1>4, <3>1
    <3> QED  BY <3>2, Typed DEF Attempted, Database
  <2> QED  BY <1>1, <1>5, <2>1, Typed, WriteType DEF CountAttempt
<1>6. CASE MatchFace(w)
  <2>1. CASE Goto(w, "match", "respond") /\ Rollback(w, "error")
    BY <1>1, <2>1, RollbackType
  <2>2. ASSUME NEW match \in BOOLEAN,
               Goto(w, "match", "commit"),
               local' = IF match
                        THEN [local EXCEPT ![w].sessions[req[w].voter].face_verified = TRUE]
                        ELSE local,
               reply' = [reply EXCEPT ![w] = IF match THEN "matched" ELSE "rejected"],
               UNCHANGED <<register, db, receipts, writer, req, seen, rows, public>>
        PROVE  TypeOK'
    <3>1. [local[w].sessions[req[w].voter] EXCEPT !.face_verified = TRUE] \in Session
      BY <1>4 DEF Session
    <3>2. [local[w].sessions EXCEPT ![req[w].voter].face_verified = TRUE]
             \in [Voters -> Session]
      BY <1>4, <3>1
    <3>3. [local[w] EXCEPT !.sessions[req[w].voter].face_verified = TRUE] \in Database
      BY <3>2, Typed DEF Database
    <3>4. local' \in [Workers -> Database]
      BY <2>2, <3>3 DEF TypeInv, TypeOK
    <3> QED  BY <1>1, <2>2, <3>4 DEF TypeInv, TypeOK, Goto, public
  <2> QED  BY <1>6, <2>1, <2>2 DEF MatchFace
<1> QED  BY <1>5, <1>6

LEMMA CommitType ==
  ASSUME TypeInv, NEW w \in Workers, Commit(w)
  PROVE  TypeOK'
<1>1. "respond" \in Label /\ {"receipt", "done"} \subseteq Answer  BY DEF Label, Answer
<1>2. db' \in Database /\ local' \in [Workers -> Database]
  BY Typed, NewDatabaseType DEF Commit, Committed, TypeInv, TypeOK
<1>3. receipts' \in SUBSET Box!Receipt
  <2>1. CASE req[w].kind # "cast"  BY <2>1 DEF Commit, TypeInv, TypeOK
  <2>2. CASE req[w].kind = "cast"
    <3>1. local[w].ledger # << >> /\ req[w].election \in Elections
      BY <2>2, Typed, RequestFields DEF Commit, Goto, TypeInv, StatementsFit, Fits
    <3>2. /\ Len(local[w].ledger) \in Nat
          /\ local[w].ledger[Len(local[w].ledger)] \in Box!Block
      BY <3>1, Typed, DatabaseFields
    <3>3. ReceiptOf(w) \in Box!Receipt
      BY <3>1, <3>2 DEF ReceiptOf, Box!Receipt, Box!Block
    <3> QED  BY <2>2, <3>3 DEF Commit, TypeInv, TypeOK
  <2> QED  BY <2>1, <2>2
<1>4. reply' \in [Workers -> Answer]  BY <1>1, Typed DEF Commit, TypeInv, TypeOK
<1> QED  BY <1>1, <1>2, <1>3, <1>4 DEF Commit, Goto, TypeInv, TypeOK, public

LEMMA ReadersType ==
  ASSUME TypeInv, NEW w \in Workers,
         ReadHead(w) \/ ReadClosed(w) \/ ReadRows(w) \/ ReadCheckpoint(w)
  PROVE  TypeOK'
<1>1. /\ {"insert", "sign", "rows", "checkpoint", "respond"} \subseteq Label
      /\ "done" \in Answer
  BY DEF Label, Answer, InTransaction
<1>2. CASE ReadHead(w)
  <2>1. Box!SignedHead(local[w].ledger) \in Box!Checkpoint
    BY Typed, DatabaseFields, SignedHeadType
  <2> QED  BY <1>1, <1>2, <2>1 DEF ReadHead, Goto, TypeInv, TypeOK, public
<1>3. CASE ReadClosed(w)
  BY <1>1, <1>3 DEF ReadClosed, Goto, TypeInv, TypeOK, public
<1>4. CASE ReadRows(w)
  <2>1. local[w].ledger \in Seq(Box!Block)  BY Typed, DatabaseFields
  <2> QED  BY <1>1, <1>4, <2>1 DEF ReadRows, Snapshot, Goto, TypeInv, TypeOK, public
<1>5. CASE ReadCheckpoint(w)
  <2>1. verdicts' \in SUBSET BOOLEAN
    BY <1>5, VerdictType DEF ReadCheckpoint, TypeInv, TypeOK
  <2>2. \A e \in Elections : BlocksFor(rows[w], e) \in SUBSET (Nat \X Box!Block)
    BY Typed, BlocksForType
  <2>3. published' \in [Elections -> SUBSET (SUBSET (Nat \X Box!Block))]
    BY <1>5, <2>2 DEF ReadCheckpoint, TypeInv, TypeOK
  <2> QED
    BY <1>1, <1>5, <2>1, <2>3, NewDatabaseType
       DEF ReadCheckpoint, Goto, TypeInv, TypeOK
<1> QED  BY <1>2, <1>3, <1>4, <1>5

LEMMA AnswersType ==
  ASSUME TypeInv, NEW w \in Workers,
         Deliver(w) \/ LoseReply(w)
  PROVE  TypeOK'
<1>1. /\ "idle" \in Label /\ "none" \in Answer /\ NoHead \in Box!Checkpoint
      /\ << >> \in Seq(Box!Block)
  BY NoHeadType DEF Label, Answer
<1>2. /\ heard' \in [Voters \X Elections -> SUBSET Answer]
      /\ told' \in [Voters -> Nat]
      /\ UNCHANGED <<register, db, receipts, writer, local, published, verdicts>>
      /\ pc' = [pc EXCEPT ![w] = "idle"]
      /\ Idle(w)
  <2>1. heard' \in [Voters \X Elections -> SUBSET Answer]
    <3>1. CASE heard' = heard  BY <3>1 DEF TypeInv, TypeOK
    <3>2. CASE /\ reply[w] \in {"receipt", "already"}
               /\ heard' = [heard EXCEPT ![<<req[w].voter, req[w].election>>] = @ \cup {reply[w]}]
      <4>1. req[w].voter \in Voters /\ req[w].election \in Elections
        BY <3>2, Typed, RequestFields DEF TypeInv, StatementsFit, Fits
      <4>2. heard[<<req[w].voter, req[w].election>>] \cup {reply[w]} \in SUBSET Answer
        BY <4>1, Typed DEF TypeInv, TypeOK
      <4> QED  BY <3>2, <4>2 DEF TypeInv, TypeOK
    <3> QED  BY <3>1, <3>2 DEF Deliver, LoseReply
  <2>2. told' \in [Voters -> Nat]
    BY DEF Deliver, LoseReply, TypeInv, TypeOK
  <2> QED  BY <2>1, <2>2 DEF Deliver, LoseReply, Idle, Goto
<1> QED  BY <1>1, <1>2, NoRequestType DEF Idle, TypeInv, TypeOK

LEMMA OthersType ==
  ASSUME TypeInv, NEW w \in Workers,
         \/ \E r \in Request : Accept(w, r)
         \/ Begin(w) \/ BusyTimeout(w)
         \/ Abort(w)
         \/ Crash
  PROVE  TypeOK'
<1>1. /\ {"begin", "closed", "respond", "idle"} \subseteq Label
      /\ {"error", "none"} \subseteq Answer /\ NoHead \in Box!Checkpoint
      /\ << >> \in Seq(Box!Block)
  BY NoHeadType DEF Label, Answer
<1>2. ASSUME NEW r \in Request, Accept(w, r) PROVE TypeOK'
  BY <1>1, <1>2 DEF Accept, Goto, TypeInv, TypeOK, public
<1>3. CASE Begin(w)
  <2>1. FirstStatement(req[w].kind) \in Label
    BY DEF FirstStatement, Label, InTransaction
  <2> QED  BY <1>3, <2>1 DEF Begin, Goto, TypeInv, TypeOK, public
<1>4. CASE BusyTimeout(w)
  BY <1>1, <1>4 DEF BusyTimeout, Goto, TypeInv, TypeOK, public
<1>5. CASE Abort(w)
  BY <1>1, <1>5, RollbackType DEF Abort
<1>6. CASE Crash
  BY <1>1, <1>6, NewDatabaseType, NoRequestType DEF Crash, TypeInv, TypeOK, public
<1> QED  BY <1>2, <1>3, <1>4, <1>5, <1>6

(* A step of w leaves the statement, the request and the answer of every   *)
(* other worker alone, unless the process dies.                            *)
OnlyMoves(w) ==
  \A x \in Workers \ {w} :
    /\ pc'[x] = pc[x] /\ req'[x] = req[x] /\ local'[x] = local[x] /\ seen'[x] = seen[x]
    /\ rows'[x] = rows[x] /\ reply'[x] = reply[x]

LEMMA StepMovesOne ==
  ASSUME TypeInv, NEW w \in Workers,
         (\E r \in Request : Accept(w, r)) \/ Step(w) \/ Abort(w)
  PROVE  OnlyMoves(w)
<1>1. ASSUME NEW answer, Rollback(w, answer), NEW from, Goto(w, from, "respond")
      PROVE OnlyMoves(w)
  BY <1>1 DEF Rollback, Goto, OnlyMoves, TypeInv, TypeOK
<1>2. ASSUME NEW from, NEW to, NEW copy, Write(w, from, to, copy) PROVE OnlyMoves(w)
  BY <1>2 DEF Write, Goto, OnlyMoves, TypeInv, TypeOK
<1>3. ASSUME CheckStatus(w) \/ MarkVoter(w) \/ InsertBlock(w) \/ InsertCheckpoint(w)
             \/ UpdateStatus(w) \/ CountAttempt(w) \/ Abort(w)
      PROVE OnlyMoves(w)
  BY <1>1, <1>2, <1>3
     DEF CheckStatus, MarkVoter, InsertBlock, InsertCheckpoint, UpdateStatus, CountAttempt, Abort
<1>4. CASE MatchFace(w)
  <2>1. CASE Goto(w, "match", "respond") /\ Rollback(w, "error")  BY <1>1, <2>1
  <2>2. CASE ~(Goto(w, "match", "respond") /\ Rollback(w, "error"))
    BY <1>4, <2>2 DEF MatchFace, Goto, OnlyMoves, TypeInv, TypeOK
  <2> QED  BY <2>1, <2>2
<1>5. CASE Begin(w) \/ BusyTimeout(w) \/ Commit(w) \/ ReadHead(w)
  BY <1>5 DEF Begin, BusyTimeout, Commit, ReadHead, Goto, OnlyMoves, TypeInv, TypeOK
<1>6. CASE ReadClosed(w) \/ ReadRows(w) \/ ReadCheckpoint(w)
  BY <1>6 DEF ReadClosed, ReadRows, ReadCheckpoint, Goto, OnlyMoves, TypeInv, TypeOK
<1>7. CASE Deliver(w) \/ LoseReply(w)
  BY <1>7 DEF Deliver, LoseReply, Idle, Goto, OnlyMoves, TypeInv, TypeOK
<1>8. CASE \E r \in Request : Accept(w, r)
  BY <1>8 DEF Accept, Goto, OnlyMoves, TypeInv, TypeOK
<1> QED  BY <1>3, <1>4, <1>5, <1>6, <1>7, <1>8 DEF Step

LEMMA MoverFits ==
  ASSUME TypeInv, NEW w \in Workers,
         (\E r \in Request : Accept(w, r)) \/ Step(w) \/ Abort(w)
  PROVE  Fits(w)'
<1> USE DEF TypeInv, TypeOK
<1>1. ASSUME NEW answer \in {"error", "refused"}, Rollback(w, answer),
             NEW from, Goto(w, from, "respond")
      PROVE  Fits(w)'
  BY <1>1 DEF Rollback, Goto, Fits
<1>2. CASE \E r \in Request : Accept(w, r)
  <2>1. PICK r \in Request : Accept(w, r)  BY <1>2
  <2>2. r.kind \in {"cast", "face", "open", "close", "checkpoint", "public_ledger"}
    BY <2>1, TransactionsAssumptions DEF Accept
  <2>3. req'[w] = r /\ pc'[w] = IF r.kind = "public_ledger" THEN "closed" ELSE "begin"
    BY <2>1 DEF Accept, Goto
  <2>4. reply'[w] = "none"
    BY <2>1 DEF Accept, Goto, StatementsFit, Fits
  <2> QED  BY <2>2, <2>3, <2>4 DEF Fits
<1>3. CASE Begin(w)
  <2>1. req[w].kind \in {"cast", "face", "open", "close", "checkpoint"} /\ reply[w] = "none"
    BY <1>3 DEF Begin, Goto, StatementsFit, Fits
  <2>2. /\ req'[w] = req[w] /\ reply'[w] = "none"
        /\ pc'[w] = FirstStatement(req[w].kind)
    BY <1>3, <2>1 DEF Begin, Goto
  <2> QED  BY <2>1, <2>2 DEF FirstStatement, Fits
<1>4. CASE BusyTimeout(w) \/ ReadClosed(w) \/ ReadRows(w) \/ ReadCheckpoint(w)
  BY <1>4 DEF BusyTimeout, ReadClosed, ReadRows, ReadCheckpoint, Goto, StatementsFit, Fits
<1>5. CASE CheckStatus(w) \/ ReadHead(w) \/ InsertCheckpoint(w)
  BY <1>1, <1>5 DEF CheckStatus, ReadHead, InsertCheckpoint, Write, Goto, StatementsFit, Fits
<1>6. CASE MarkVoter(w)
  <2>1. req[w].kind = "cast" /\ req'[w] = req[w]
    BY <1>6 DEF MarkVoter, Write, Rollback, StatementsFit, Fits
  <2> QED  BY <1>6, <2>1 DEF MarkVoter, Write, Rollback, Goto, StatementsFit, Fits
<1>7. CASE InsertBlock(w)
  <2>1. local'[w].ledger = Append(local[w].ledger, CastBlock(w))
    BY <1>7, Typed, DatabaseFields DEF InsertBlock, Write, Database
  <2>2. req[w].kind = "cast"  BY <1>7 DEF InsertBlock, StatementsFit, Fits
  <2>3. local'[w].ledger # << >>  BY <2>1, <2>2, CastBlockType DEF TypeInv
  <2> QED  BY <1>7, <2>3 DEF InsertBlock, Write, Goto, StatementsFit, Fits
<1>8. CASE UpdateStatus(w)
  BY <1>1, <1>8 DEF UpdateStatus, Write, Goto, StatementsFit, Fits
<1>9. CASE CountAttempt(w)
  BY <1>9 DEF CountAttempt, Write, Goto, StatementsFit, Fits
<1>10. CASE MatchFace(w)
  BY <1>1, <1>10 DEF MatchFace, Goto, StatementsFit, Fits
<1>11. CASE Commit(w)
  BY <1>11 DEF Commit, Goto, StatementsFit, Fits
<1>12. CASE Deliver(w) \/ LoseReply(w)
  BY <1>12, NoRequestType DEF Deliver, LoseReply, Idle, Goto, Fits
<1>13. CASE Abort(w)
  BY <1>1, <1>13 DEF Abort
<1> QED
  BY <1>2, <1>3, <1>4, <1>5, <1>6, <1>7, <1>8, <1>9, <1>10, <1>11, <1>12, <1>13 DEF Step

LEMMA TypeInvHolds == Spec => []TypeInv
<1>1. Init => TypeInv
  <2> SUFFICES ASSUME Init PROVE TypeInv  OBVIOUS
  <2>1. TypeOK
    BY NoRequestType, NewDatabaseType, NoHeadType DEF Init, TypeOK, Label, Answer
  <2>2. StatementsFit  BY NoRequestType DEF Init, StatementsFit, Fits
  <2> QED  BY <2>1, <2>2 DEF TypeInv
<1>2. TypeInv /\ [Next]_vars => TypeInv'
  <2> SUFFICES ASSUME TypeInv, [Next]_vars PROVE TypeInv'  OBVIOUS
  <2>1. ASSUME NEW w \in Workers,
               (\E r \in Request : Accept(w, r)) \/ Step(w) \/ Abort(w)
        PROVE  TypeInv'
    <3>1. TypeOK'
      BY <2>1, BallotWritesType, AdminWritesType, FaceWritesType, CommitType, ReadersType,
         AnswersType, OthersType DEF Step
    <3>2. Fits(w)'  BY <2>1, MoverFits
    <3>3. ASSUME NEW x \in Workers, x # w PROVE Fits(x)'
      <4>1. OnlyMoves(w)  BY <2>1, StepMovesOne
      <4>2. Fits(x)  BY DEF TypeInv, StatementsFit
      <4> QED  BY <3>3, <4>1, <4>2 DEF OnlyMoves, Fits
    <3> QED  BY <3>1, <3>2, <3>3 DEF TypeInv, StatementsFit
  <2>2. CASE Crash
    <3>1. TypeOK'
      BY <2>2, OthersType DEF Crash
    <3>2. StatementsFit'  BY <2>2, NoRequestType DEF Crash, StatementsFit, Fits
    <3> QED  BY <3>1, <3>2 DEF TypeInv
  <2>3. CASE UNCHANGED vars
    BY <2>3 DEF vars, served, public, TypeInv, TypeOK, StatementsFit, Fits
  <2> QED  BY <2>1, <2>2, <2>3 DEF Next
<1> QED  BY <1>1, <1>2, PTL DEF Spec

(* Type correctness: at every statement of every worker, uncommitted       *)
(* copies, snapshots and answers are what the tables and clients may hold.  *)
THEOREM TypeCorrect == Spec => []TypeOK
<1>1. TypeInv => TypeOK  BY DEF TypeInv
<1> QED  BY <1>1, TypeInvHolds, PTL

-----------------------------------------------------------------------------
(* The write lock.  Whoever is between BEGIN IMMEDIATE and the end of its   *)
(* block holds it, so the committed tables stand still under a writer, and  *)
(* its copy differs from them by exactly the statements it has run.         *)

LockInv == \A w \in Workers : pc[w] \in InTransaction <=> writer = w

From(r) == IF r.kind = "open" THEN "PENDING" ELSE "OPEN"
To(r) == IF r.kind = "open" THEN "OPEN" ELSE "CLOSED"

Moved(w) == pc[w] = "commit" /\ req[w].kind \in {"open", "close"}
MarkedBy(w) == pc[w] \in {"head", "insert", "commit"} /\ req[w].kind = "cast"
Chained(w) == pc[w] = "commit" /\ req[w].kind = "cast"
SignedBy(w) == pc[w] = "commit" /\ req[w].kind = "checkpoint"
Tried(w) == pc[w] = "match" \/ (pc[w] = "commit" /\ reply[w] \in {"matched", "rejected"})

ChainedBlock(w) ==
  Box!NewBlock(Box!HeadHash(db.ledger), req[w].election, req[w].party,
               register[req[w].voter])

(* One attempt more, and a match if there was one. *)
TriedSessions(w) ==
  LET v == req[w].voter
      new == local[w].sessions
  IN /\ \A x \in Voters \ {v} : new[x] = db.sessions[x]
     /\ new[v].face_attempts = db.sessions[v].face_attempts + 1
     /\ db.sessions[v].face_verified => new[v].face_verified
     /\ new[v].face_verified => db.sessions[v].face_verified \/ reply[w] = "matched"

HeldCopy(w) ==
  pc[w] \in InTransaction =>
    /\ local[w].status =
         IF Moved(w) THEN [db.status EXCEPT ![req[w].election] = To(req[w])] ELSE db.status
    /\ local[w].votes_cast =
         IF MarkedBy(w) THEN db.votes_cast \cup {<<req[w].voter, req[w].election>>}
         ELSE db.votes_cast
    /\ local[w].ledger = IF Chained(w) THEN Append(db.ledger, ChainedBlock(w)) ELSE db.ledger
    /\ local[w].ledger_checkpoints =
         IF SignedBy(w) THEN Append(db.ledger_checkpoints, Box!SignedHead(db.ledger))
         ELSE db.ledger_checkpoints
    /\ IF Tried(w) THEN TriedSessions(w) ELSE local[w].sessions = db.sessions

(* What it has read under the lock is still so. *)
HeldChecks(w) ==
  /\ pc[w] = "mark" \/ MarkedBy(w)
       => db.status[req[w].election] = "OPEN" /\ db.sessions[req[w].voter].face_verified
  /\ MarkedBy(w) => <<req[w].voter, req[w].election>> \notin db.votes_cast
  /\ Moved(w) => db.status[req[w].election] = From(req[w])
  /\ Tried(w) => db.sessions[req[w].voter].face_attempts < FACE_MAX_ATTEMPTS
  /\ pc[w] \in {"insert", "sign"} => seen[w] = Box!SignedHead(db.ledger)

Held(w) == HeldCopy(w) /\ HeldChecks(w)

WriterInv == TypeInv /\ LockInv /\ \A w \in Workers : Held(w)

(* How the lock changes hands. *)
LEMMA LockMoves ==
  ASSUME TypeInv, NEW w \in Workers,
         (\E r \in Request : Accept(w, r)) \/ Step(w) \/ Abort(w)
  PROVE  \/ /\ pc[w] \in InTransaction
            /\ \/ writer' = writer /\ pc'[w] \in InTransaction
               \/ writer' = NoWorker /\ pc'[w] \notin InTransaction
         \/ /\ pc[w] \notin InTransaction
            /\ \/ writer' = writer /\ pc'[w] \notin InTransaction
               \/ writer = NoWorker /\ writer' = w /\ pc'[w] \in InTransaction
<1> DEFINE L == {"idle", "begin", "respond", "closed", "rows", "checkpoint"}
<1>1. \A l \in L : l \notin InTransaction  BY DEF InTransaction
<1>2. \A l \in {"attempt", "match", "check", "mark", "head", "insert", "sign", "update",
               "commit"} : l \in InTransaction
  BY DEF InTransaction
<1>3. \A k : FirstStatement(k) \in InTransaction  BY DEF FirstStatement, InTransaction
<1> USE DEF TypeInv, TypeOK
<1>4. CASE \E r \in Request : Accept(w, r)  BY <1>1, <1>4 DEF Accept, Goto
<1>5. CASE Begin(w)  BY <1>1, <1>3, <1>5 DEF Begin, LockFree, Goto
<1>6. CASE BusyTimeout(w) \/ ReadClosed(w) \/ ReadRows(w) \/ ReadCheckpoint(w)
  BY <1>1, <1>6 DEF BusyTimeout, ReadClosed, ReadRows, ReadCheckpoint, Goto
<1>7. CASE Deliver(w) \/ LoseReply(w)  BY <1>1, <1>7 DEF Deliver, LoseReply, Idle, Goto
<1>8. CASE CheckStatus(w) \/ MarkVoter(w) \/ UpdateStatus(w)
  BY <1>1, <1>2, <1>8 DEF CheckStatus, MarkVoter, UpdateStatus, Write, Rollback, Goto
<1>9. CASE ReadHead(w) \/ InsertBlock(w) \/ InsertCheckpoint(w) \/ Commit(w)
  BY <1>1, <1>2, <1>9 DEF ReadHead, InsertBlock, InsertCheckpoint, Commit, Write, Goto
<1>10. CASE CountAttempt(w) \/ MatchFace(w)
  BY <1>1, <1>2, <1>10 DEF CountAttempt, MatchFace, Write, Rollback, Goto
<1>11. CASE Abort(w)  BY <1>1, <1>11 DEF Abort, Rollback, Goto
<1> QED  BY <1>4, <1>5, <1>6, <1>7, <1>8, <1>9, <1>10, <1>11 DEF Step

LEMMA LockStep ==
  ASSUME TypeInv, LockInv, NEW w \in Workers,
         (\E r \in Request : Accept(w, r)) \/ Step(w) \/ Abort(w)
  PROVE  LockInv'
BY LockMoves, StepMovesOne, TransactionsAssumptions DEF LockInv, OnlyMoves

(* Only COMMIT writes the tables. *)
LEMMA OnlyCommitWrites ==
  ASSUME TypeInv, NEW w \in Workers,
         (\E r \in Request : Accept(w, r)) \/ Step(w) \/ Abort(w), ~Commit(w)
  PROVE  UNCHANGED <<register, db, receipts>>
BY DEF Step, Accept, Begin, BusyTimeout, ReadClosed, ReadRows, ReadCheckpoint, Deliver, LoseReply,
       Idle, CheckStatus, MarkVoter, UpdateStatus, ReadHead, InsertBlock, InsertCheckpoint,
       CountAttempt, MatchFace, Abort, Write, Rollback

(* Nothing is promised of a worker outside a transaction. *)
LEMMA OutsideHeld ==
  ASSUME NEW w \in Workers, pc[w] \notin InTransaction
  PROVE  Held(w)
BY DEF Held, HeldCopy, HeldChecks, MarkedBy, Moved, Tried, InTransaction

LEMMA OutsideHeldNext ==
  ASSUME NEW w \in Workers, pc'[w] \notin InTransaction
  PROVE  Held(w)'
BY DEF Held, HeldCopy, HeldChecks, MarkedBy, Moved, Tried, InTransaction

(* The other workers: either the tables stand still, or they hold no lock. *)
LEMMA OthersHeld ==
  ASSUME WriterInv, NEW w \in Workers,
         (\E r \in Request : Accept(w, r)) \/ Step(w) \/ Abort(w),
         NEW x \in Workers, x # w
  PROVE  Held(x)'
<1>1. OnlyMoves(w)  BY StepMovesOne DEF WriterInv
<1>2. CASE Commit(w)
  <2>1. pc[w] \in InTransaction  BY <1>2 DEF Commit, Goto, InTransaction
  <2>2. pc[x] \notin InTransaction  BY <2>1 DEF WriterInv, LockInv
  <2>3. pc'[x] \notin InTransaction  BY <1>1, <2>2 DEF OnlyMoves
  <2> QED  BY <2>3, OutsideHeldNext
<1>3. CASE ~Commit(w)
  <2>1. UNCHANGED <<register, db>>  BY <1>3, OnlyCommitWrites DEF WriterInv
  <2>2. Held(x)  BY DEF WriterInv
  <2>3. /\ pc'[x] = pc[x] /\ req'[x] = req[x] /\ local'[x] = local[x] /\ seen'[x] = seen[x]
        /\ reply'[x] = reply[x]
    BY <1>1 DEF OnlyMoves
  <2>4. /\ ChainedBlock(x)' = ChainedBlock(x) /\ (TriedSessions(x)' <=> TriedSessions(x))
        /\ Moved(x)' = Moved(x) /\ MarkedBy(x)' = MarkedBy(x) /\ Chained(x)' = Chained(x)
        /\ SignedBy(x)' = SignedBy(x) /\ Tried(x)' = Tried(x)
    BY <2>1, <2>3 DEF ChainedBlock, TriedSessions, Moved, MarkedBy, Chained, SignedBy, Tried
  <2>5. HeldCopy(x)'
    BY <2>1, <2>2, <2>3, <2>4 DEF Held, HeldCopy
  <2>6. HeldChecks(x)'
    BY <2>1, <2>2, <2>3, <2>4 DEF Held, HeldChecks
  <2> QED  BY <2>5, <2>6 DEF Held
<1> QED  BY <1>2, <1>3

(* What a statement of a writer leaves alone. *)
LEMMA WriteKeeps ==
  ASSUME TypeInv, NEW w \in Workers, NEW from, NEW to, NEW copy, Write(w, from, to, copy)
  PROVE  /\ pc[w] = from /\ pc'[w] = to /\ local'[w] = copy
         /\ UNCHANGED <<register, db, receipts, writer, req, seen, reply>>
BY DEF Write, Goto, TypeInv, TypeOK

LEMMA BeginHeld ==
  ASSUME WriterInv, NEW w \in Workers, Begin(w)
  PROVE  Held(w)'
<1>1. /\ pc[w] = "begin" /\ pc'[w] = FirstStatement(req[w].kind) /\ local'[w] = db
      /\ UNCHANGED <<db, req, reply>>
  BY DEF Begin, Goto, WriterInv, TypeInv, TypeOK
<1>2. pc'[w] \in {"check", "attempt", "head", "update"} /\ (pc'[w] = "head" => req[w].kind = "checkpoint")
  BY <1>1 DEF FirstStatement
<1>3. ~Moved(w)' /\ ~MarkedBy(w)' /\ ~Chained(w)' /\ ~SignedBy(w)' /\ ~Tried(w)'
  BY <1>1, <1>2 DEF Moved, MarkedBy, Chained, SignedBy, Tried
<1>4. HeldCopy(w)'  BY <1>1, <1>3 DEF HeldCopy
<1>5. HeldChecks(w)'  BY <1>2, <1>3 DEF HeldChecks
<1> QED  BY <1>4, <1>5 DEF Held

LEMMA BallotHeld ==
  ASSUME WriterInv, NEW w \in Workers, pc'[w] \in InTransaction,
         CheckStatus(w) \/ MarkVoter(w) \/ ReadHead(w) \/ InsertBlock(w)
  PROVE  Held(w)'
<1> DEFINE v == req[w].voter
           e == req[w].election
<1>1. Held(w) /\ TypeInv /\ Fits(w)  BY DEF WriterInv, TypeInv, StatementsFit
<1>2. "respond" \notin InTransaction  BY DEF InTransaction
<1>3. CASE CheckStatus(w)
  <2>1. Accredited(w) /\ IsOpen(w) /\ Write(w, "check", "mark", local[w])
    BY <1>1, <1>2, <1>3 DEF CheckStatus, Goto, TypeInv, TypeOK
  <2>2. /\ pc[w] = "check" /\ pc'[w] = "mark" /\ local'[w] = local[w]
        /\ UNCHANGED <<register, db, req, seen, reply>>
    BY <1>1, <2>1, WriteKeeps
  <2>3. pc[w] \in InTransaction  BY <2>2 DEF InTransaction
  <2>4. /\ ~Moved(w) /\ ~MarkedBy(w) /\ ~Chained(w) /\ ~SignedBy(w) /\ ~Tried(w)
        /\ ~Moved(w)' /\ ~MarkedBy(w)' /\ ~Chained(w)' /\ ~SignedBy(w)' /\ ~Tried(w)'
    BY <2>2 DEF Moved, MarkedBy, Chained, SignedBy, Tried
  <2>5. HeldCopy(w)'  BY <1>1, <2>2, <2>3, <2>4 DEF Held, HeldCopy
  <2>6. HeldChecks(w)'
    BY <1>1, <2>1, <2>2, <2>3, <2>4 DEF Held, HeldCopy, HeldChecks, Accredited, IsOpen
  <2> QED  BY <2>5, <2>6 DEF Held
<1>4. CASE MarkVoter(w)
  <2> DEFINE copy == [local[w] EXCEPT !.votes_cast = @ \cup {<<v, e>>}]
  <2>1. ~Marked(w) /\ Write(w, "mark", "head", copy)
    BY <1>1, <1>2, <1>4 DEF MarkVoter, Goto, TypeInv, TypeOK
  <2>2. /\ pc[w] = "mark" /\ pc'[w] = "head" /\ local'[w] = copy
        /\ UNCHANGED <<register, db, req, seen, reply>>
    BY <1>1, <2>1, WriteKeeps
  <2>3. /\ copy.status = local[w].status /\ copy.votes_cast = local[w].votes_cast \cup {<<v, e>>}
        /\ copy.ledger = local[w].ledger /\ copy.sessions = local[w].sessions
        /\ copy.ledger_checkpoints = local[w].ledger_checkpoints
    BY <1>1, Typed DEF Database
  <2> HIDE DEF copy
  <2>4. pc[w] \in InTransaction /\ req[w].kind = "cast"  BY <1>1, <2>2 DEF InTransaction, Fits
  <2>5. /\ ~Moved(w) /\ ~MarkedBy(w) /\ ~Chained(w) /\ ~SignedBy(w) /\ ~Tried(w)
        /\ ~Moved(w)' /\ MarkedBy(w)' /\ ~Chained(w)' /\ ~SignedBy(w)' /\ ~Tried(w)'
    BY <2>2, <2>4 DEF Moved, MarkedBy, Chained, SignedBy, Tried
  <2>6. HeldCopy(w)'  BY <1>1, <2>2, <2>3, <2>4, <2>5 DEF Held, HeldCopy
  <2>7. HeldChecks(w)'
    BY <1>1, <2>1, <2>2, <2>4, <2>5 DEF Held, HeldCopy, HeldChecks, Marked
  <2> QED  BY <2>6, <2>7 DEF Held
<1>5. CASE ReadHead(w)
  <2>1. /\ pc[w] = "head" /\ pc'[w] \in {"insert", "sign"}
        /\ pc'[w] = IF req[w].kind = "cast" THEN "insert" ELSE "sign"
        /\ seen'[w] = Box!SignedHead(local[w].ledger)
        /\ UNCHANGED <<register, db, req, local, reply>>
    BY <1>1, <1>5 DEF ReadHead, Goto, TypeInv, TypeOK
  <2>2. pc[w] \in InTransaction /\ (pc'[w] = "insert" <=> req[w].kind = "cast")
    BY <2>1 DEF InTransaction
  <2>3. /\ ~Moved(w) /\ ~Chained(w) /\ ~SignedBy(w) /\ ~Tried(w)
        /\ ~Moved(w)' /\ ~Chained(w)' /\ ~SignedBy(w)' /\ ~Tried(w)'
        /\ MarkedBy(w)' <=> MarkedBy(w)
    BY <2>1, <2>2 DEF Moved, MarkedBy, Chained, SignedBy, Tried
  <2>4. HeldCopy(w)'  BY <1>1, <2>1, <2>2, <2>3 DEF Held, HeldCopy
  <2>5. HeldChecks(w)'
    BY <1>1, <2>1, <2>2, <2>3 DEF Held, HeldCopy, HeldChecks
  <2> QED  BY <2>4, <2>5 DEF Held
<1>6. CASE InsertBlock(w)
  <2> DEFINE copy == [local[w] EXCEPT !.ledger = Append(@, CastBlock(w))]
  <2>1. Write(w, "insert", "commit", copy)  BY <1>6 DEF InsertBlock
  <2>2. /\ pc[w] = "insert" /\ pc'[w] = "commit" /\ local'[w] = copy
        /\ UNCHANGED <<register, db, req, seen, reply>>
    BY <1>1, <2>1, WriteKeeps
  <2>3. /\ copy.status = local[w].status /\ copy.votes_cast = local[w].votes_cast
        /\ copy.ledger = Append(local[w].ledger, CastBlock(w))
        /\ copy.sessions = local[w].sessions
        /\ copy.ledger_checkpoints = local[w].ledger_checkpoints
    BY <1>1, Typed DEF Database
  <2> HIDE DEF copy
  <2>4. pc[w] \in InTransaction /\ req[w].kind = "cast" /\ reply[w] = "none"
    BY <1>1, <2>2 DEF InTransaction, Fits
  <2>5. /\ ~Moved(w) /\ MarkedBy(w) /\ ~Chained(w) /\ ~SignedBy(w) /\ ~Tried(w)
        /\ ~Moved(w)' /\ MarkedBy(w)' /\ Chained(w)' /\ ~SignedBy(w)' /\ ~Tried(w)'
    BY <2>2, <2>4 DEF Moved, MarkedBy, Chained, SignedBy, Tried
  <2>6. CastBlock(w) = ChainedBlock(w)' /\ ChainedBlock(w)' = ChainedBlock(w)
    <3>1. seen[w] = Box!SignedHead(db.ledger)  BY <1>1, <2>2 DEF Held, HeldChecks
    <3>2. seen[w].head_hash = Box!HeadHash(db.ledger)  BY <3>1 DEF Box!SignedHead
    <3> QED  BY <2>2, <3>2 DEF CastBlock, ChainedBlock
  <2>7. HeldCopy(w)'  BY <1>1, <2>2, <2>3, <2>4, <2>5, <2>6 DEF Held, HeldCopy
  <2>8. HeldChecks(w)'
    BY <1>1, <2>2, <2>4, <2>5 DEF Held, HeldCopy, HeldChecks
  <2> QED  BY <2>7, <2>8 DEF Held
<1> QED  BY <1>3, <1>4, <1>5, <1>6

LEMMA AdminHeld ==
  ASSUME WriterInv, NEW w \in Workers, pc'[w] \in InTransaction,
         InsertCheckpoint(w) \/ UpdateStatus(w)
  PROVE  Held(w)'
<1> DEFINE e == req[w].election
<1>1. Held(w) /\ TypeInv /\ Fits(w)  BY DEF WriterInv, TypeInv, StatementsFit
<1>2. "respond" \notin InTransaction  BY DEF InTransaction
<1>3. CASE InsertCheckpoint(w)
  <2> DEFINE copy == [local[w] EXCEPT !.ledger_checkpoints = Append(@, seen[w])]
  <2>1. Write(w, "sign", "commit", copy)  BY <1>3 DEF InsertCheckpoint
  <2>2. /\ pc[w] = "sign" /\ pc'[w] = "commit" /\ local'[w] = copy
        /\ UNCHANGED <<register, db, req, seen, reply>>
    BY <1>1, <2>1, WriteKeeps
  <2>3. /\ copy.status = local[w].status /\ copy.votes_cast = local[w].votes_cast
        /\ copy.ledger = local[w].ledger /\ copy.sessions = local[w].sessions
        /\ copy.ledger_checkpoints = Append(local[w].ledger_checkpoints, seen[w])
    BY <1>1, Typed DEF Database
  <2> HIDE DEF copy
  <2>4. pc[w] \in InTransaction /\ req[w].kind = "checkpoint" /\ reply[w] = "none"
    BY <1>1, <2>2 DEF InTransaction, Fits
  <2>5. /\ ~Moved(w) /\ ~MarkedBy(w) /\ ~Chained(w) /\ ~SignedBy(w) /\ ~Tried(w)
        /\ ~Moved(w)' /\ ~MarkedBy(w)' /\ ~Chained(w)' /\ SignedBy(w)' /\ ~Tried(w)'
    BY <2>2, <2>4 DEF Moved, MarkedBy, Chained, SignedBy, Tried
  <2>6. seen[w] = Box!SignedHead(db.ledger)  BY <1>1, <2>2 DEF Held, HeldChecks
  <2>7. HeldCopy(w)'  BY <1>1, <2>2, <2>3, <2>4, <2>5, <2>6 DEF Held, HeldCopy
  <2>8. HeldChecks(w)'  BY <2>2, <2>5 DEF HeldChecks
  <2> QED  BY <2>7, <2>8 DEF Held
<1>4. CASE UpdateStatus(w)
  <2> DEFINE copy == [local[w] EXCEPT !.status[e] = To(req[w])]
  <2>1. local[w].status[e] = From(req[w]) /\ Write(w, "update", "commit", copy)
    BY <1>1, <1>2, <1>4 DEF UpdateStatus, Goto, TypeInv, TypeOK, From, To
  <2>2. /\ pc[w] = "update" /\ pc'[w] = "commit" /\ local'[w] = copy
        /\ UNCHANGED <<register, db, req, seen, reply>>
    BY <1>1, <2>1, WriteKeeps
  <2>3. /\ copy.status = [local[w].status EXCEPT ![e] = To(req[w])]
        /\ copy.votes_cast = local[w].votes_cast
        /\ copy.ledger = local[w].ledger /\ copy.sessions = local[w].sessions
        /\ copy.ledger_checkpoints = local[w].ledger_checkpoints
    BY <1>1, Typed DEF Database
  <2> HIDE DEF copy
  <2>4. pc[w] \in InTransaction /\ req[w].kind \in {"open", "close"} /\ reply[w] = "none"
    BY <1>1, <2>2 DEF InTransaction, Fits
  <2>5. /\ ~Moved(w) /\ ~MarkedBy(w) /\ ~Chained(w) /\ ~SignedBy(w) /\ ~Tried(w)
        /\ Moved(w)' /\ ~MarkedBy(w)' /\ ~Chained(w)' /\ ~SignedBy(w)' /\ ~Tried(w)'
    BY <2>2, <2>4 DEF Moved, MarkedBy, Chained, SignedBy, Tried
  <2>6. HeldCopy(w)'  BY <1>1, <2>2, <2>3, <2>4, <2>5 DEF Held, HeldCopy
  <2>7. HeldChecks(w)'
    BY <1>1, <2>1, <2>2, <2>4, <2>5 DEF Held, HeldCopy, HeldChecks
  <2> QED  BY <2>6, <2>7 DEF Held
<1> QED  BY <1>3, <1>4

LEMMA FaceHeld ==
  ASSUME WriterInv, NEW w \in Workers, pc'[w] \in InTransaction,
         CountAttempt(w) \/ MatchFace(w)
  PROVE  Held(w)'
<1> DEFINE v == req[w].voter
<1>1. Held(w) /\ TypeInv /\ Fits(w)  BY DEF WriterInv, TypeInv, StatementsFit
<1>2. "respond" \notin InTransaction  BY DEF InTransaction
<1>3. req[w].kind = "face" /\ v \in Voters
  <2>1. pc[w] \in {"attempt", "match"}  BY DEF CountAttempt, MatchFace, Goto
  <2> QED  BY <1>1, <2>1, Typed, RequestFields DEF Fits
<1>4. /\ db.sessions \in [Voters -> Session] /\ db.sessions[v] \in Session
      /\ local[w].sessions \in [Voters -> Session]
  BY <1>1, <1>3, Typed, DatabaseFields
<1>5. CASE /\ pc[w] = "attempt" /\ AttemptsLeft(w) /\ Write(w, "attempt", "match", Attempted(w))
  <2>1. /\ pc[w] = "attempt" /\ pc'[w] = "match" /\ local'[w] = Attempted(w)
        /\ UNCHANGED <<register, db, req, seen, reply>>
    BY <1>1, <1>5, WriteKeeps
  <2>2. /\ Attempted(w).status = local[w].status
        /\ Attempted(w).votes_cast = local[w].votes_cast
        /\ Attempted(w).ledger = local[w].ledger
        /\ Attempted(w).sessions = [local[w].sessions EXCEPT
             ![v] = [local[w].sessions[v] EXCEPT !.face_attempts = @ + 1]]
        /\ Attempted(w).ledger_checkpoints = local[w].ledger_checkpoints
    BY <1>1, Typed DEF Database, Attempted
  <2>3. pc[w] \in InTransaction /\ reply[w] = "none"
    BY <1>1, <2>1 DEF InTransaction, Fits
  <2>4. /\ ~Moved(w) /\ ~MarkedBy(w) /\ ~Chained(w) /\ ~SignedBy(w) /\ ~Tried(w)
        /\ ~Moved(w)' /\ ~MarkedBy(w)' /\ ~Chained(w)' /\ ~SignedBy(w)' /\ Tried(w)'
    <3>1. Tried(w)'  BY <2>1 DEF Tried
    <3>2. ~Tried(w)  BY <2>1 DEF Tried
    <3>3. /\ ~Moved(w) /\ ~MarkedBy(w) /\ ~Chained(w) /\ ~SignedBy(w)
          /\ ~Moved(w)' /\ ~MarkedBy(w)' /\ ~Chained(w)' /\ ~SignedBy(w)'
      BY <1>3, <2>1 DEF Moved, MarkedBy, Chained, SignedBy
    <3> QED  BY <3>1, <3>2, <3>3
  <2>5. local[w].sessions = db.sessions  BY <1>1, <2>3, <2>4 DEF Held, HeldCopy
  <2>6. TriedSessions(w)'
    <3>1. /\ local'[w].sessions = [db.sessions EXCEPT
               ![v] = [db.sessions[v] EXCEPT !.face_attempts = @ + 1]]
          /\ db' = db /\ req'[w] = req[w]
      BY <2>1, <2>2, <2>5
    <3>2. local'[w].sessions[v] = [db.sessions[v] EXCEPT !.face_attempts = @ + 1]
      BY <1>3, <1>4, <3>1
    <3>3. /\ local'[w].sessions[v].face_attempts = db.sessions[v].face_attempts + 1
          /\ local'[w].sessions[v].face_verified = db.sessions[v].face_verified
      BY <1>4, <3>2 DEF Session
    <3> QED  BY <1>4, <3>1, <3>3 DEF TriedSessions
  <2>7. HeldCopy(w)'  BY <1>1, <2>1, <2>2, <2>3, <2>4, <2>5, <2>6 DEF Held, HeldCopy
  <2>8. HeldChecks(w)'
    BY <1>5, <2>1, <2>4, <2>5 DEF HeldChecks, AttemptsLeft
  <2> QED  BY <2>7, <2>8 DEF Held
<1>6. CASE pc[w] = "attempt" /\ ~AttemptsLeft(w) /\ Write(w, "attempt", "commit", local[w])
  <2>1. /\ pc[w] = "attempt" /\ pc'[w] = "commit" /\ local'[w] = local[w]
        /\ UNCHANGED <<register, db, req, seen, reply>>
    BY <1>1, <1>6, WriteKeeps
  <2>2. pc[w] \in InTransaction /\ reply[w] = "none"
    BY <1>1, <2>1 DEF InTransaction, Fits
  <2>3. /\ ~Moved(w) /\ ~MarkedBy(w) /\ ~Chained(w) /\ ~SignedBy(w) /\ ~Tried(w)
        /\ ~Moved(w)' /\ ~MarkedBy(w)' /\ ~Chained(w)' /\ ~SignedBy(w)' /\ ~Tried(w)'
    BY <1>3, <2>1, <2>2 DEF Moved, MarkedBy, Chained, SignedBy, Tried
  <2>4. HeldCopy(w)'  BY <1>1, <2>1, <2>2, <2>3 DEF Held, HeldCopy
  <2>5. HeldChecks(w)'  BY <2>1, <2>3 DEF HeldChecks
  <2> QED  BY <2>4, <2>5 DEF Held
<1>7. CASE MatchFace(w)
  <2>1. PICK match \in BOOLEAN :
          /\ Goto(w, "match", "commit")
          /\ local' = IF match THEN [local EXCEPT ![w].sessions[v].face_verified = TRUE]
                               ELSE local
          /\ reply' = [reply EXCEPT ![w] = IF match THEN "matched" ELSE "rejected"]
          /\ UNCHANGED <<register, db, req, seen>>
    BY <1>1, <1>2, <1>7 DEF MatchFace, Goto, TypeInv, TypeOK
  <2>2. /\ pc[w] = "match" /\ pc'[w] = "commit"
        /\ reply'[w] = IF match THEN "matched" ELSE "rejected"
        /\ req'[w] = req[w] /\ local[w] \in Database
    BY <1>1, <2>1, Typed DEF Goto, TypeInv, TypeOK
  <2>3. pc[w] \in InTransaction /\ reply[w] = "none"
    BY <1>1, <2>2 DEF InTransaction, Fits
  <2>4. /\ ~Moved(w) /\ ~MarkedBy(w) /\ ~Chained(w) /\ ~SignedBy(w) /\ Tried(w)
        /\ ~Moved(w)' /\ ~MarkedBy(w)' /\ ~Chained(w)' /\ ~SignedBy(w)' /\ Tried(w)'
    <3>1. Tried(w)'  BY <2>2 DEF Tried
    <3>2. Tried(w)  BY <2>2 DEF Tried
    <3>3. /\ ~Moved(w) /\ ~MarkedBy(w) /\ ~Chained(w) /\ ~SignedBy(w)
          /\ ~Moved(w)' /\ ~MarkedBy(w)' /\ ~Chained(w)' /\ ~SignedBy(w)'
      BY <1>3, <2>2 DEF Moved, MarkedBy, Chained, SignedBy
    <3> QED  BY <3>1, <3>2, <3>3
  <2>5. TriedSessions(w)  BY <1>1, <2>3, <2>4 DEF Held, HeldCopy
  <2>6. /\ local'[w].status = local[w].status /\ local'[w].votes_cast = local[w].votes_cast
        /\ local'[w].ledger = local[w].ledger
        /\ local'[w].ledger_checkpoints = local[w].ledger_checkpoints
        /\ match => local'[w].sessions =
                      [local[w].sessions EXCEPT
                         ![v] = [local[w].sessions[v] EXCEPT !.face_verified = TRUE]]
        /\ ~match => local'[w].sessions = local[w].sessions
    BY <1>1, <2>1, <2>2 DEF Database, TypeInv, TypeOK
  <2>7. /\ \A x \in Voters \ {v} : local'[w].sessions[x] = local[w].sessions[x]
        /\ local'[w].sessions[v].face_attempts = local[w].sessions[v].face_attempts
        /\ match => local'[w].sessions[v].face_verified
        /\ ~match => local'[w].sessions[v].face_verified = local[w].sessions[v].face_verified
    <3>1. local[w].sessions[v] \in Session  BY <1>3, <1>4
    <3>2. CASE match
      <4>1. local'[w].sessions[v] = [local[w].sessions[v] EXCEPT !.face_verified = TRUE]
        BY <1>3, <1>4, <2>6, <3>2
      <4>2. /\ local'[w].sessions[v].face_attempts = local[w].sessions[v].face_attempts
            /\ local'[w].sessions[v].face_verified
        BY <3>1, <4>1 DEF Session
      <4> QED  BY <1>4, <2>6, <3>2, <4>2
    <3>3. CASE ~match  BY <2>6, <3>3
    <3> QED  BY <3>2, <3>3
  <2>8. match => reply'[w] = "matched"  BY <2>2
  <2>9. TriedSessions(w)'
    <3>1. db' = db /\ req'[w] = req[w] /\ reply[w] # "matched"  BY <2>1, <2>2, <2>3
    <3> QED  BY <2>5, <2>7, <2>8, <3>1 DEF TriedSessions
  <2>10. HeldCopy(w)'
    BY <1>1, <2>1, <2>2, <2>3, <2>4, <2>6, <2>9 DEF Held, HeldCopy
  <2>11. HeldChecks(w)'
    BY <1>1, <2>1, <2>2, <2>4 DEF Held, HeldChecks
  <2> QED  BY <2>10, <2>11 DEF Held
<1> QED  BY <1>5, <1>6, <1>7 DEF CountAttempt

LEMMA MoverHeld ==
  ASSUME WriterInv, NEW w \in Workers,
         (\E r \in Request : Accept(w, r)) \/ Step(w) \/ Abort(w)
  PROVE  Held(w)'
<1>1. CASE pc'[w] \notin InTransaction  BY <1>1, OutsideHeldNext
<1>2. CASE pc'[w] \in InTransaction
  <2>1. \A l \in {"idle", "begin", "respond", "closed", "rows", "checkpoint"} :
          pc'[w] # l
    BY <1>2 DEF InTransaction
  <2>2. /\ ~(\E r \in Request : Accept(w, r)) /\ ~BusyTimeout(w) /\ ~Commit(w)
        /\ ~ReadClosed(w) /\ ~ReadRows(w) /\ ~ReadCheckpoint(w) /\ ~Deliver(w)
        /\ ~LoseReply(w) /\ ~Abort(w)
    BY <2>1 DEF Accept, BusyTimeout, Commit, ReadClosed, ReadRows, ReadCheckpoint, Deliver,
                LoseReply, Abort, Goto, WriterInv, TypeInv, TypeOK
  <2> QED  BY <1>2, <2>2, BeginHeld, BallotHeld, AdminHeld, FaceHeld DEF Step
<1> QED  BY <1>1, <1>2

LEMMA WriterInvHolds == Spec => []WriterInv
<1>1. Init => WriterInv
  <2> SUFFICES ASSUME Init PROVE WriterInv  OBVIOUS
  <2>1. TypeOK
    BY NoRequestType, NewDatabaseType, NoHeadType DEF Init, TypeOK, Label, Answer
  <2>2. StatementsFit  BY NoRequestType DEF Init, StatementsFit, Fits
  <2>3. \A w \in Workers : pc[w] \notin InTransaction /\ writer # w
    BY TransactionsAssumptions DEF Init, InTransaction
  <2> QED  BY <2>1, <2>2, <2>3, OutsideHeld DEF WriterInv, TypeInv, LockInv
<1>2. WriterInv /\ TypeInv' /\ [Next]_vars => WriterInv'
  <2> SUFFICES ASSUME WriterInv, TypeInv', [Next]_vars PROVE WriterInv'  OBVIOUS
  <2>1. ASSUME NEW w \in Workers,
               (\E r \in Request : Accept(w, r)) \/ Step(w) \/ Abort(w)
        PROVE  WriterInv'
    <3>1. LockInv'  BY <2>1, LockStep DEF WriterInv
    <3>2. Held(w)'  BY <2>1, MoverHeld
    <3>3. \A x \in Workers \ {w} : Held(x)'  BY <2>1, OthersHeld
    <3> QED  BY <3>1, <3>2, <3>3 DEF WriterInv
  <2>2. CASE Crash
    <3>1. \A w \in Workers : pc'[w] \notin InTransaction /\ writer' # w
      BY <2>2, TransactionsAssumptions DEF Crash, InTransaction
    <3> QED  BY <3>1, OutsideHeldNext DEF WriterInv, LockInv
  <2>3. CASE UNCHANGED vars
    <3>1. ASSUME NEW w \in Workers PROVE Held(w)'
      <4>1. Held(w)  BY DEF WriterInv
      <4>2. UNCHANGED <<register, db, writer, pc, req, local, seen, reply>>
        BY <2>3 DEF vars, served
      <4> QED
        BY <4>1, <4>2 DEF Held, HeldCopy, HeldChecks, ChainedBlock, TriedSessions, Moved,
                          MarkedBy, Chained, SignedBy, Tried
    <3>2. LockInv'  BY <2>3 DEF WriterInv, LockInv, vars, served
    <3> QED  BY <3>1, <3>2 DEF WriterInv
  <2> QED  BY <2>1, <2>2, <2>3 DEF Next
<1> QED  BY <1>1, <1>2, TypeInvHolds, PTL DEF Spec

-----------------------------------------------------------------------------
(* What a COMMIT does to the tables, by the kind of its request. *)

Votes(w) ==
  /\ req[w].voter \in Voters /\ req[w].election \in Elections /\ req[w].party \in Parties
  /\ register[req[w].voter] \in PollingUnits
  /\ db.status[req[w].election] = "OPEN" /\ db.sessions[req[w].voter].face_verified
  /\ <<req[w].voter, req[w].election>> \notin db.votes_cast
  /\ db'.votes_cast = db.votes_cast \cup {<<req[w].voter, req[w].election>>}
  /\ ChainedBlock(w) \in Box!Block
  /\ db'.ledger = Append(db.ledger, ChainedBlock(w))
  /\ db'.status = db.status /\ db'.ledger_checkpoints = db.ledger_checkpoints
  /\ db'.sessions = db.sessions

Moves(w) ==
  /\ req[w].election \in Elections
  /\ db.status[req[w].election] = From(req[w])
  /\ db'.status = [db.status EXCEPT ![req[w].election] = To(req[w])]
  /\ db'.votes_cast = db.votes_cast /\ db'.ledger = db.ledger
  /\ db'.ledger_checkpoints = db.ledger_checkpoints /\ db'.sessions = db.sessions

Signs(w) ==
  /\ db'.ledger_checkpoints = Append(db.ledger_checkpoints, Box!SignedHead(db.ledger))
  /\ db'.status = db.status /\ db'.votes_cast = db.votes_cast /\ db'.ledger = db.ledger
  /\ db'.sessions = db.sessions

Tries(w) ==
  /\ req[w].voter \in Voters
  /\ db'.status = db.status /\ db'.votes_cast = db.votes_cast /\ db'.ledger = db.ledger
  /\ db'.ledger_checkpoints = db.ledger_checkpoints
  /\ \A x \in Voters \ {req[w].voter} : db'.sessions[x] = db.sessions[x]
  /\ db.sessions[req[w].voter].face_verified => db'.sessions[req[w].voter].face_verified
  /\ IF reply[w] \in {"matched", "rejected"}
     THEN /\ db.sessions[req[w].voter].face_attempts < FACE_MAX_ATTEMPTS
          /\ db'.sessions[req[w].voter].face_attempts
               = db.sessions[req[w].voter].face_attempts + 1
     ELSE db'.sessions[req[w].voter].face_attempts = db.sessions[req[w].voter].face_attempts

LEMMA CommitEffect ==
  ASSUME WriterInv, NEW w \in Workers, Commit(w)
  PROVE  /\ req[w].kind \in {"cast", "face", "open", "close", "checkpoint"}
         /\ req[w].kind = "cast" => Votes(w)
         /\ req[w].kind \in {"open", "close"} => Moves(w)
         /\ req[w].kind = "checkpoint" => Signs(w)
         /\ req[w].kind = "face" => Tries(w)
<1>1. /\ Held(w) /\ TypeInv /\ Fits(w) /\ db' = local[w] /\ register' = register
      /\ pc[w] = "commit" /\ pc[w] \in InTransaction
  BY DEF WriterInv, TypeInv, StatementsFit, Commit, Committed, Goto, InTransaction
<1>2. /\ req[w].kind \in {"cast", "face", "open", "close", "checkpoint"}
      /\ reply[w] \in {"matched", "rejected"} => req[w].kind = "face"
  BY <1>1 DEF Fits
<1>3. /\ req[w] \in Request /\ db \in Database /\ register \in [Voters -> PollingUnits]
  BY <1>1, Typed DEF TypeInv, TypeOK
<1>4. CASE req[w].kind = "cast"
  <2>1. ~Moved(w) /\ MarkedBy(w) /\ Chained(w) /\ ~SignedBy(w) /\ ~Tried(w)
    BY <1>1, <1>2, <1>4 DEF Moved, MarkedBy, Chained, SignedBy, Tried
  <2>2. /\ req[w].voter \in Voters /\ req[w].election \in Elections /\ req[w].party \in Parties
        /\ register[req[w].voter] \in PollingUnits
    BY <1>3, <1>4, RequestFields
  <2>3. ChainedBlock(w) \in Box!Block
    BY <1>3, <2>2, DatabaseFields, SignedHeadType, NewBlockType DEF ChainedBlock
  <2> QED  BY <1>1, <1>4, <2>1, <2>2, <2>3 DEF Held, HeldCopy, HeldChecks, Votes
<1>5. CASE req[w].kind \in {"open", "close"}
  <2>1. Moved(w) /\ ~MarkedBy(w) /\ ~Chained(w) /\ ~SignedBy(w) /\ ~Tried(w)
    BY <1>1, <1>2, <1>5 DEF Moved, MarkedBy, Chained, SignedBy, Tried
  <2>2. req[w].election \in Elections  BY <1>3, <1>5, RequestFields
  <2> QED  BY <1>1, <1>5, <2>1, <2>2 DEF Held, HeldCopy, HeldChecks, Moves
<1>6. CASE req[w].kind = "checkpoint"
  <2>1. ~Moved(w) /\ ~MarkedBy(w) /\ ~Chained(w) /\ SignedBy(w) /\ ~Tried(w)
    BY <1>1, <1>2, <1>6 DEF Moved, MarkedBy, Chained, SignedBy, Tried
  <2> QED  BY <1>1, <1>6, <2>1 DEF Held, HeldCopy, Signs
<1>7. CASE req[w].kind = "face"
  <2>1. /\ ~Moved(w) /\ ~MarkedBy(w) /\ ~Chained(w) /\ ~SignedBy(w)
        /\ Tried(w) <=> reply[w] \in {"matched", "rejected"}
    BY <1>1, <1>7 DEF Moved, MarkedBy, Chained, SignedBy, Tried
  <2>2. req[w].voter \in Voters  BY <1>3, <1>7, RequestFields
  <2>3. CASE reply[w] \in {"matched", "rejected"}
    BY <1>1, <1>7, <2>1, <2>2, <2>3 DEF Held, HeldCopy, HeldChecks, TriedSessions, Tries
  <2>4. CASE reply[w] \notin {"matched", "rejected"}
    BY <1>1, <1>7, <2>1, <2>2, <2>4 DEF Held, HeldCopy, Tries
  <2> QED  BY <1>7, <2>3, <2>4
<1> QED  BY <1>2, <1>4, <1>5, <1>6, <1>7

-----------------------------------------------------------------------------
(* The bound on checkpoints: each request still to be served counts one. *)

Signing == {x \in Workers : req[x].kind = "checkpoint" /\ pc[x] # "respond"}

BoundInv == Len(db.ledger_checkpoints) + Cardinality(Signing) <= MaxCheckpoints

(* A smaller set of workers has no more members. *)
LEMMA FewerWorkers ==
  ASSUME NEW S \in SUBSET Workers, NEW T \in SUBSET S
  PROVE  /\ Cardinality(T) \in Nat /\ Cardinality(S) \in Nat /\ Cardinality(T) <= Cardinality(S)
         /\ \A w \in S \ T : Cardinality(T) + 1 <= Cardinality(S)
         /\ \A w \in Workers : Cardinality(S \cup {w}) <= Cardinality(S) + 1
<1>1. IsFiniteSet(S) /\ IsFiniteSet(T)  BY FS_Subset, TransactionsAssumptions
<1>2. Cardinality(T) \in Nat /\ Cardinality(S) \in Nat /\ Cardinality(T) <= Cardinality(S)
  BY <1>1, FS_Subset, FS_CardinalityType
<1>3. ASSUME NEW w \in S \ T PROVE Cardinality(T) + 1 <= Cardinality(S)
  <2>1. Cardinality(T \cup {w}) = Cardinality(T) + 1  BY <1>1, FS_AddElement
  <2>2. Cardinality(T \cup {w}) <= Cardinality(S)
    <3>1. T \cup {w} \subseteq S  OBVIOUS
    <3> QED  BY <1>1, <3>1, FS_Subset
  <2> QED  BY <2>1, <2>2
<1>4. ASSUME NEW w \in Workers PROVE Cardinality(S \cup {w}) <= Cardinality(S) + 1
  <2>1. CASE w \in S
    <3>1. S \cup {w} = S  BY <2>1
    <3> QED  BY <1>2, <3>1
  <2>2. CASE w \notin S
    <3>1. Cardinality(S \cup {w}) = Cardinality(S) + 1  BY <1>1, <2>2, FS_AddElement
    <3> QED  BY <1>2, <3>1
  <2> QED  BY <2>1, <2>2
<1> QED  BY <1>2, <1>3, <1>4

LEMMA BoundStep ==
  ASSUME WriterInv, WriterInv', BoundInv, NEW w \in Workers,
         (\E r \in Request : Accept(w, r)) \/ Step(w) \/ Abort(w)
  PROVE  BoundInv'
<1> DEFINE n == Len(db.ledger_checkpoints)
<1>1. TypeInv /\ OnlyMoves(w) /\ n \in Nat /\ Fits(w)
  BY StepMovesOne, DatabaseFields DEF WriterInv, TypeInv, TypeOK, StatementsFit
<1>2. \A x \in Workers \ {w} : req'[x] = req[x] /\ pc'[x] = pc[x]  BY <1>1 DEF OnlyMoves
<1>3. ASSUME Signing' \subseteq Signing, db' = db PROVE BoundInv'
  <2>1. Cardinality(Signing') <= Cardinality(Signing)
        /\ Cardinality(Signing') \in Nat /\ Cardinality(Signing) \in Nat
    BY <1>3, FewerWorkers DEF Signing
  <2> QED  BY <1>1, <1>3, <2>1, TransactionsAssumptions DEF BoundInv
<1>4. CASE \E r \in Request : Accept(w, r)
  <2>1. PICK r \in Request : Accept(w, r)  BY <1>4
  <2>2. db' = db /\ req'[w] = r  BY <1>1, <2>1 DEF Accept, TypeInv, TypeOK
  <2>3. CASE r.kind # "checkpoint"
    <3>1. Signing' \subseteq Signing  BY <1>2, <2>2, <2>3 DEF Signing
    <3> QED  BY <1>3, <2>2, <3>1
  <2>4. CASE r.kind = "checkpoint"
    <3> DEFINE asked == {x \in Workers : req[x].kind = "checkpoint"}
    <3>1. n + Cardinality(asked) < MaxCheckpoints
      BY <2>1, <2>4 DEF Accept, CheckpointsAsked
    <3>2. Signing' \subseteq asked \cup {w}  BY <1>2 DEF Signing
    <3>3. /\ Cardinality(Signing') <= Cardinality(asked \cup {w})
          /\ Cardinality(asked \cup {w}) <= Cardinality(asked) + 1
          /\ Cardinality(Signing') \in Nat /\ Cardinality(asked) \in Nat
          /\ Cardinality(asked \cup {w}) \in Nat
      <4>1. asked \in SUBSET Workers /\ asked \cup {w} \in SUBSET Workers  OBVIOUS
      <4> HIDE DEF asked
      <4>2. /\ Cardinality(Signing') <= Cardinality(asked \cup {w})
            /\ Cardinality(Signing') \in Nat /\ Cardinality(asked \cup {w}) \in Nat
        BY <3>2, <4>1, FewerWorkers
      <4>3. /\ Cardinality(asked \cup {w}) <= Cardinality(asked) + 1
            /\ Cardinality(asked) \in Nat
        BY <4>1, FewerWorkers
      <4> QED  BY <4>2, <4>3
    <3> HIDE DEF asked
    <3> QED  BY <1>1, <2>2, <3>1, <3>3, TransactionsAssumptions DEF BoundInv
  <2> QED  BY <2>3, <2>4
<1>5. CASE Commit(w)
  <2>1. pc[w] = "commit" /\ pc'[w] = "respond" /\ req' = req
    BY <1>1, <1>5 DEF Commit, Goto, TypeInv, TypeOK
  <2>2. Signing' \subseteq Signing \ {w}  BY <1>2, <2>1 DEF Signing
  <2>3. CASE req[w].kind = "checkpoint"
    <3>1. w \in Signing \ Signing'  BY <2>1, <2>2, <2>3 DEF Signing
    <3>2. /\ Cardinality(Signing') + 1 <= Cardinality(Signing)
          /\ Cardinality(Signing') \in Nat /\ Cardinality(Signing) \in Nat
      BY <2>2, <3>1, FewerWorkers DEF Signing
    <3>3. Len(db'.ledger_checkpoints) = n + 1
      <4>1. /\ db'.ledger_checkpoints = Append(db.ledger_checkpoints, Box!SignedHead(db.ledger))
            /\ db.ledger_checkpoints \in Seq(Box!Checkpoint)
        BY <1>1, <1>5, <2>3, CommitEffect, DatabaseFields DEF Signs, TypeInv, TypeOK
      <4> QED  BY <4>1
    <3> QED  BY <1>1, <3>2, <3>3, TransactionsAssumptions DEF BoundInv
  <2>4. CASE req[w].kind # "checkpoint"
    <3>1. db'.ledger_checkpoints = db.ledger_checkpoints
      BY <1>5, <2>4, CommitEffect DEF Votes, Moves, Tries
    <3>2. /\ Cardinality(Signing') <= Cardinality(Signing)
          /\ Cardinality(Signing') \in Nat /\ Cardinality(Signing) \in Nat
      BY <2>2, FewerWorkers DEF Signing
    <3> QED  BY <1>1, <3>1, <3>2, TransactionsAssumptions DEF BoundInv
  <2> QED  BY <2>3, <2>4
<1>6. CASE ~Commit(w) /\ ~(\E r \in Request : Accept(w, r))
  <2>1. db' = db  BY <1>1, <1>6, OnlyCommitWrites
  <2>2. (req'[w] = req[w] /\ pc[w] # "respond") \/ req'[w] = NoRequest
    <3>1. CASE Deliver(w) \/ LoseReply(w)
      BY <1>1, <3>1 DEF Deliver, LoseReply, Idle, TypeInv, TypeOK
    <3>2. CASE Begin(w) \/ BusyTimeout(w) \/ ReadClosed(w) \/ ReadRows(w) \/ ReadCheckpoint(w)
      BY <3>2 DEF Begin, BusyTimeout, ReadClosed, ReadRows, ReadCheckpoint, Goto
    <3>3. CASE CheckStatus(w) \/ MarkVoter(w) \/ ReadHead(w) \/ InsertBlock(w)
               \/ InsertCheckpoint(w) \/ UpdateStatus(w)
      BY <3>3 DEF CheckStatus, MarkVoter, ReadHead, InsertBlock, InsertCheckpoint, UpdateStatus,
                  Write, Rollback, Goto
    <3>4. CASE CountAttempt(w) \/ MatchFace(w)
      BY <3>4 DEF CountAttempt, MatchFace, Write, Rollback, Goto
    <3>5. CASE Abort(w)
      BY <3>5 DEF Abort, Rollback, Goto, InTransaction
    <3> QED  BY <1>6, <3>1, <3>2, <3>3, <3>4, <3>5 DEF Step
  <2>3. Signing' \subseteq Signing  BY <1>2, <2>2, NoRequestType DEF Signing
  <2> QED  BY <1>3, <2>1, <2>3
<1> QED  BY <1>4, <1>5, <1>6

LEMMA BoundInvHolds == Spec => []BoundInv
<1>1. Init => BoundInv
  <2> SUFFICES ASSUME Init PROVE BoundInv  OBVIOUS
  <2>1. Signing = {}  BY NoRequestType DEF Init, Signing
  <2>2. Cardinality(Signing) = 0  BY <2>1, FS_EmptySet
  <2>3. Len(db.ledger_checkpoints) = 0  BY DEF Init, NewDatabase
  <2> QED  BY <2>2, <2>3, TransactionsAssumptions DEF BoundInv
<1>2. WriterInv /\ WriterInv' /\ BoundInv /\ [Next]_vars => BoundInv'
  <2> SUFFICES ASSUME WriterInv, WriterInv', BoundInv, [Next]_vars PROVE BoundInv'  OBVIOUS
  <2>1. ASSUME NEW w \in Workers,
               (\E r \in Request : Accept(w, r)) \/ Step(w) \/ Abort(w)
        PROVE  BoundInv'
    BY <2>1, BoundStep
  <2>2. CASE Crash
    <3>1. Signing' = {} /\ db' = db  BY <2>2, NoRequestType DEF Crash, Signing
    <3>2. Cardinality(Signing') = 0  BY <3>1, FS_EmptySet
    <3>3. Cardinality(Signing) \in Nat /\ Len(db.ledger_checkpoints) \in Nat
      <4>1. Signing \in SUBSET Workers /\ db \in Database
        BY DEF Signing, WriterInv, TypeInv, TypeOK
      <4> QED  BY <4>1, FewerWorkers, DatabaseFields
    <3> QED  BY <3>1, <3>2, <3>3, TransactionsAssumptions DEF BoundInv
  <2>3. CASE UNCHANGED vars
    <3>1. Signing' = Signing /\ db' = db  BY <2>3 DEF vars, served, Signing
    <3> QED  BY <3>1 DEF BoundInv
  <2> QED  BY <2>1, <2>2, <2>3 DEF Next
<1> QED  BY <1>1, <1>2, WriterInvHolds, PTL DEF Spec

-----------------------------------------------------------------------------
(* The transactions are the steps of the ballot box. *)

LEMMA CommitIsBoxStep ==
  ASSUME WriterInv, BoundInv, NEW w \in Workers, Commit(w)
  PROVE  Box!Next \/ UNCHANGED Box!vars
<1> DEFINE v == req[w].voter
           e == req[w].election
           p == req[w].party
<1>1. /\ TypeInv /\ register' = register /\ db' = local[w]
      /\ receipts' = IF req[w].kind = "cast" THEN receipts \cup {ReceiptOf(w)} ELSE receipts
      /\ db.ledger \in Seq(Box!Block)
      /\ pc[w] = "commit"
  BY DatabaseFields DEF WriterInv, TypeInv, TypeOK, Commit, Committed, Goto
<1>2. CASE req[w].kind = "cast"
  <2>1. Votes(w)  BY <1>2, CommitEffect
  <2> DEFINE n == Len(db.ledger)
  <2>2. /\ db'.ledger = Append(db.ledger, ChainedBlock(w)) /\ ChainedBlock(w) \in Box!Block
        /\ Len(db'.ledger) = n + 1 /\ db'.ledger[n + 1] = ChainedBlock(w)
    BY <1>1, <2>1 DEF Votes
  <2>3. ReceiptOf(w) = [block_index |-> n + 1, block_hash |-> ChainedBlock(w).block_hash,
                        election_type |-> e]
    BY <1>1, <2>2 DEF ReceiptOf
  <2>4. Box!MayVote(v, e)  BY <2>1 DEF Votes, Box!MayVote
  <2>5. Box!RecordBallot(v, e, p)
    BY <1>1, <1>2, <2>1, <2>3, <2>4, TransactionsAssumptions
       DEF Votes, Box!RecordBallot, ChainedBlock
  <2> QED  BY <2>1, <2>5 DEF Votes, Box!Next
<1>3. CASE req[w].kind \in {"open", "close"}
  <2>1. Moves(w)  BY <1>3, CommitEffect
  <2>2. Box!OpenElection(e) \/ Box!CloseElection(e)
    BY <1>1, <1>3, <2>1 DEF Moves, From, To, Box!OpenElection, Box!CloseElection, Box!Transition
  <2> QED  BY <2>1, <2>2 DEF Moves, Box!Next
<1>4. CASE req[w].kind = "checkpoint"
  <2>1. Signs(w)  BY <1>4, CommitEffect
  <2>2. Len(db.ledger_checkpoints) < MaxCheckpoints
    <3>1. w \in Signing  BY <1>1, <1>4 DEF Signing
    <3>2. Cardinality({}) + 1 <= Cardinality(Signing) /\ Cardinality(Signing) \in Nat
      BY <3>1, FewerWorkers DEF Signing
    <3>3. Cardinality({}) = 0  BY FS_EmptySet
    <3>4. Len(db.ledger_checkpoints) \in Nat
      BY <1>1, DatabaseFields DEF TypeInv, TypeOK
    <3> QED  BY <3>2, <3>3, <3>4, TransactionsAssumptions DEF BoundInv
  <2>3. Box!SignCheckpoint  BY <1>1, <1>4, <2>1, <2>2 DEF Signs, Box!SignCheckpoint
  <2> QED  BY <2>3 DEF Box!Next
<1>5. CASE req[w].kind = "face"
  <2>1. Tries(w)  BY <1>5, CommitEffect
  <2> QED  BY <1>1, <1>5, <2>1 DEF Tries, Box!vars
<1> QED  BY <1>2, <1>3, <1>4, <1>5, CommitEffect

(* However statements interleave, and whatever aborts, crashes or times    *)
(* out, what reaches the tables are whole transactions of BallotBox, one   *)
(* after another, and the receipts it would have given.                    *)
THEOREM TransactionsAreAtomic == Spec => ImplementsBallotBox
<1>1. Init => Box!Init
  BY DEF Init, Box!Init, NewDatabase
<1>2. WriterInv /\ BoundInv /\ [Next]_vars => [Box!Next]_(Box!vars)
  <2> SUFFICES ASSUME WriterInv, BoundInv, [Next]_vars, UNCHANGED Box!vars => FALSE
               PROVE Box!Next
    OBVIOUS
  <2>1. ASSUME NEW w \in Workers,
               (\E r \in Request : Accept(w, r)) \/ Step(w) \/ Abort(w)
        PROVE  Box!Next
    <3>1. CASE Commit(w)  BY <3>1, CommitIsBoxStep
    <3>2. CASE ~Commit(w)
      <4>1. UNCHANGED <<register, db, receipts>>
        BY <2>1, <3>2, OnlyCommitWrites DEF WriterInv
      <4> QED  BY <4>1 DEF Box!vars
    <3> QED  BY <3>1, <3>2
  <2>2. CASE Crash  BY <2>2 DEF Crash, Box!vars
  <2>3. CASE UNCHANGED vars  BY <2>3 DEF vars, Box!vars
  <2> QED  BY <2>1, <2>2, <2>3 DEF Next
<1> QED  BY <1>1, <1>2, WriterInvHolds, BoundInvHolds, PTL DEF Spec, ImplementsBallotBox, Box!Spec

-----------------------------------------------------------------------------
(* So every theorem about the ballot box is one about the tables. *)

BoxP ==
  INSTANCE BallotBoxProofs
  WITH status <- db.status, votes_cast <- db.votes_cast, ledger <- db.ledger,
       ledger_checkpoints <- db.ledger_checkpoints

LEMMA BoxSpec == Box!Spec => BoxP!Spec
<1>1. Box!Init => BoxP!Init  BY DEF Box!Init, BoxP!Init
<1>2. [Box!Next]_(Box!vars) => [BoxP!Next]_(BoxP!vars)
  BY DEF Box!Next, BoxP!Next, Box!vars, BoxP!vars, Box!RegisterVoter, BoxP!RegisterVoter,
         Box!OpenElection, BoxP!OpenElection, Box!CloseElection, BoxP!CloseElection,
         Box!Transition, BoxP!Transition, Box!RecordBallot, BoxP!RecordBallot,
         Box!SignCheckpoint, BoxP!SignCheckpoint, Box!NewBlock, BoxP!NewBlock,
         Box!compute_hash, BoxP!compute_hash, Box!HeadHash, BoxP!HeadHash,
         Box!GENESIS, BoxP!GENESIS, Box!MayVote, BoxP!MayVote,
         Box!SignedHead, BoxP!SignedHead
<1> QED  BY <1>1, <1>2, PTL DEF Box!Spec, BoxP!Spec

LEMMA BallotBoxAssumed ==
  /\ BoxP!IsFiniteSet(Voters)
  /\ Unregistered \notin PollingUnits
  /\ MaxCheckpoints \in Nat
BY TransactionsAssumptions DEF IsFiniteSet, BoxP!IsFiniteSet

(* What the ballot box guarantees of whole transactions it guarantees of    *)
(* interleaved statements: the committed ledger is linked and reaches every *)
(* signed head, receipts lead to their block, and both tables agree.        *)
THEOREM BallotBoxGuarantees ==
  Spec => [](Box!CheckpointsHold /\ Box!ReceiptsHold /\ Box!LedgerMatchesVotes)
<1>1. BoxP!Spec => []BoxP!CheckpointsHold  BY BallotBoxAssumed, BoxP!CheckpointsAlwaysHold
<1>2. BoxP!Spec => []BoxP!ReceiptsHold  BY BallotBoxAssumed, BoxP!ReceiptsAlwaysHold
<1>3. BoxP!Spec => []BoxP!LedgerMatchesVotes
  BY BallotBoxAssumed, BoxP!LedgerAlwaysMatchesVotes
<1>4. BoxP!CheckpointsHold => Box!CheckpointsHold
  BY DEF BoxP!CheckpointsHold, Box!CheckpointsHold, BoxP!Linked, Box!Linked, BoxP!Reaches,
         Box!Reaches, BoxP!compute_hash, Box!compute_hash, BoxP!GENESIS, Box!GENESIS
<1>5. BoxP!ReceiptsHold => Box!ReceiptsHold
  BY DEF BoxP!ReceiptsHold, Box!ReceiptsHold, BoxP!verify_receipt, Box!verify_receipt
<1>6. BoxP!LedgerMatchesVotes => Box!LedgerMatchesVotes
  <2>1. \A S : BoxP!Cardinality(S) = Box!Cardinality(S)
    BY DEF BoxP!Cardinality, Box!Cardinality
  <2>2. \A e, u : BoxP!BlocksOf(e, u) = Box!BlocksOf(e, u) /\ BoxP!VotersOf(e, u) = Box!VotersOf(e, u)
    BY DEF BoxP!BlocksOf, Box!BlocksOf, BoxP!VotersOf, Box!VotersOf
  <2> QED  BY <2>1, <2>2 DEF BoxP!LedgerMatchesVotes, Box!LedgerMatchesVotes
<1> QED
  BY <1>1, <1>2, <1>3, <1>4, <1>5, <1>6, BoxSpec, TransactionsAreAtomic, PTL
     DEF ImplementsBallotBox

(* To the end of the refinement: statements that interleave, abort and die  *)
(* half-way add up to OneVote, one vote per voter and election in the count *)
(* the public recomputes, and the tally of a closed election is final.      *)
THEOREM TransactionsKeepThePromise == Spec => Box!ImplementsOneVote /\ Box!ClosedTallyFrozen
<1>1. BoxP!Spec => BoxP!ImplementsOneVote  BY BallotBoxAssumed, BoxP!BallotBoxKeepsPromise
<1>2. BoxP!Spec => BoxP!ClosedTallyFrozen  BY BallotBoxAssumed, BoxP!ClosedTallyStaysFrozen
<1>3. \A ledger, e, u, p : BoxP!TallyOf(ledger, e, u, p) = Box!TallyOf(ledger, e, u, p)
  BY DEF BoxP!TallyOf, Box!TallyOf, BoxP!Cardinality, Box!Cardinality
<1>4. BoxP!ImplementsOneVote => Box!ImplementsOneVote
  <2> DEFINE Cells == Elections \X PollingUnits \X Parties
             countP == [c \in Cells |-> BoxP!TallyOf(db.ledger, c[1], c[2], c[3])]
             count == [c \in Cells |-> Box!TallyOf(db.ledger, c[1], c[2], c[3])]
  <2>1. countP = count /\ countP' = count'  BY <1>3
  <2>2. BoxP!Promise!Init => Box!Promise!Init
    BY <1>3 DEF BoxP!Promise!Init, Box!Promise!Init, BoxP!Promise!Cells, Box!Promise!Cells
  <2>3. ASSUME NEW v \in Voters, NEW u \in PollingUnits, BoxP!Promise!Enrol(v, u)
        PROVE  Box!Promise!Enrol(v, u)
    BY <2>1, <2>3 DEF BoxP!Promise!Enrol, Box!Promise!Enrol
  <2>4. ASSUME NEW e \in Elections, BoxP!Promise!Advance(e)
        PROVE  Box!Promise!Advance(e)
    BY <2>1, <2>4 DEF BoxP!Promise!Advance, Box!Promise!Advance
  <2>5. ASSUME NEW v \in Voters, NEW e \in Elections, NEW p \in Parties,
               BoxP!Promise!Vote(v, e, p)
        PROVE  Box!Promise!Vote(v, e, p)
    BY <2>1, <2>5 DEF BoxP!Promise!Vote, Box!Promise!Vote
  <2>6. ASSUME UNCHANGED BoxP!Promise!vars PROVE UNCHANGED Box!Promise!vars
    BY <2>1, <2>6 DEF BoxP!Promise!vars, Box!Promise!vars
  <2>7. [BoxP!Promise!Next]_(BoxP!Promise!vars) => [Box!Promise!Next]_(Box!Promise!vars)
    BY <2>3, <2>4, <2>5, <2>6 DEF BoxP!Promise!Next, Box!Promise!Next
  <2> QED
    BY <2>2, <2>7, PTL DEF BoxP!ImplementsOneVote, Box!ImplementsOneVote, BoxP!Promise!Spec,
                           Box!Promise!Spec
<1>5. BoxP!ClosedTallyFrozen => Box!ClosedTallyFrozen
  <2> DEFINE FrozenP == \A e \in Elections : db.status[e] = "CLOSED" =>
               /\ db.status'[e] = "CLOSED"
               /\ \A u \in PollingUnits, p \in Parties :
                    BoxP!TallyOf(db.ledger', e, u, p) = BoxP!TallyOf(db.ledger, e, u, p)
             Frozen == \A e \in Elections : db.status[e] = "CLOSED" =>
               /\ db.status'[e] = "CLOSED"
               /\ \A u \in PollingUnits, p \in Parties :
                    Box!TallyOf(db.ledger', e, u, p) = Box!TallyOf(db.ledger, e, u, p)
  <2>1. [FrozenP]_(BoxP!vars) => [Frozen]_(Box!vars)  BY <1>3 DEF BoxP!vars, Box!vars
  <2> QED  BY <2>1, PTL DEF BoxP!ClosedTallyFrozen, Box!ClosedTallyFrozen
<1> QED
  BY <1>1, <1>2, <1>4, <1>5, BoxSpec, TransactionsAreAtomic, PTL DEF ImplementsBallotBox

-----------------------------------------------------------------------------
(* Readers.  A snapshot is a committed state, so it verifies; and of an     *)
(* election it shows as CLOSED it has the blocks that are there for good.   *)

LEMMA BlocksForAppend ==
  ASSUME NEW ledger \in Seq(Box!Block), NEW b \in Box!Block, NEW e, b.election_type = e
  PROVE  /\ BlocksFor(Append(ledger, b), e) = BlocksFor(ledger, e) \cup {<<Len(ledger) + 1, b>>}
         /\ <<Len(ledger) + 1, b>> \notin BlocksFor(ledger, e)
<1> DEFINE n == Len(ledger)
           longer == Append(ledger, b)
           In(s) == {j \in 1..Len(s) : s[j].election_type = e}
<1>1. /\ n \in Nat /\ Len(longer) = n + 1 /\ longer[n + 1] = b
      /\ \A i \in 1..n : longer[i] = ledger[i]
  OBVIOUS
<1>2. BlocksFor(longer, e) = {<<i, longer[i]>> : i \in In(longer)}
      /\ BlocksFor(ledger, e) = {<<i, ledger[i]>> : i \in In(ledger)}
  BY DEF BlocksFor
<1>3. In(longer) = In(ledger) \cup {n + 1} /\ n + 1 \notin In(ledger)  BY <1>1
<1> QED  BY <1>1, <1>2, <1>3

LEMMA BlocksForAppendOther ==
  ASSUME NEW ledger \in Seq(Box!Block), NEW b \in Box!Block, NEW e, b.election_type # e
  PROVE  BlocksFor(Append(ledger, b), e) = BlocksFor(ledger, e)
<1> DEFINE n == Len(ledger)
           longer == Append(ledger, b)
           In(s) == {j \in 1..Len(s) : s[j].election_type = e}
<1>1. /\ n \in Nat /\ Len(longer) = n + 1 /\ longer[n + 1] = b
      /\ \A i \in 1..n : longer[i] = ledger[i]
  OBVIOUS
<1>2. BlocksFor(longer, e) = {<<i, longer[i]>> : i \in In(longer)}
      /\ BlocksFor(ledger, e) = {<<i, ledger[i]>> : i \in In(ledger)}
  BY DEF BlocksFor
<1>3. In(longer) = In(ledger)  BY <1>1
<1> QED  BY <1>1, <1>2, <1>3

(* A closed election stays closed, and no block is added to it. *)
ClosedForGood ==
  \A e \in Elections : db.status[e] = "CLOSED" =>
    db'.status[e] = "CLOSED" /\ BlocksFor(db'.ledger, e) = BlocksFor(db.ledger, e)

LEMMA ClosedStays ==
  ASSUME WriterInv, [Next]_vars
  PROVE  ClosedForGood
<1>1. TypeInv /\ db.ledger \in Seq(Box!Block) /\ db.status \in [Elections -> Box!Status]
  BY DatabaseFields DEF WriterInv, TypeInv, TypeOK
<1>2. CASE db' = db  BY <1>2 DEF ClosedForGood
<1>3. ASSUME NEW w \in Workers, Commit(w) PROVE ClosedForGood
  <2>1. CASE req[w].kind = "cast"
    <3>1. Votes(w)  BY <1>3, <2>1, CommitEffect
    <3>2. ChainedBlock(w).election_type = req[w].election
      BY DEF ChainedBlock, Box!NewBlock
    <3>3. ASSUME NEW e \in Elections, db.status[e] = "CLOSED"
          PROVE  BlocksFor(db'.ledger, e) = BlocksFor(db.ledger, e)
      <4>1. ChainedBlock(w).election_type # e  BY <3>1, <3>2, <3>3 DEF Votes
      <4>2. db'.ledger = Append(db.ledger, ChainedBlock(w)) /\ ChainedBlock(w) \in Box!Block
        BY <3>1 DEF Votes
      <4>3. BlocksFor(Append(db.ledger, ChainedBlock(w)), e) = BlocksFor(db.ledger, e)
        <5> DEFINE b == ChainedBlock(w)
        <5>1. b \in Box!Block /\ b.election_type # e /\ db.ledger \in Seq(Box!Block)
          BY <1>1, <4>1, <4>2
        <5> HIDE DEF b
        <5>2. BlocksFor(Append(db.ledger, b), e) = BlocksFor(db.ledger, e)
          BY <5>1, BlocksForAppendOther
        <5> QED  BY <5>2 DEF b
      <4> QED  BY <4>2, <4>3
    <3> QED  BY <3>1, <3>3 DEF Votes, ClosedForGood
  <2>2. CASE req[w].kind \in {"open", "close"}
    <3>1. Moves(w)  BY <1>3, <2>2, CommitEffect
    <3>2. db.status[req[w].election] # "CLOSED"  BY <3>1 DEF Moves, From
    <3> QED  BY <1>1, <3>1, <3>2 DEF Moves, ClosedForGood
  <2>3. CASE req[w].kind \in {"checkpoint", "face"}
    BY <1>3, <2>3, CommitEffect DEF Signs, Tries, ClosedForGood
  <2> QED  BY <1>3, <2>1, <2>2, <2>3, CommitEffect
<1>4. CASE Crash \/ UNCHANGED vars  BY <1>2, <1>4 DEF Crash, vars
<1>5. ASSUME NEW w \in Workers,
             (\E r \in Request : Accept(w, r)) \/ Step(w) \/ Abort(w), ~Commit(w)
      PROVE  ClosedForGood
  BY <1>1, <1>2, <1>5, OnlyCommitWrites
<1> QED  BY <1>3, <1>4, <1>5 DEF Next

Reading(w) == pc[w] \in {"rows", "checkpoint"}

SnapshotHolds(w) ==
  /\ Reading(w) => Box!verify_chain(local[w].ledger, local[w].ledger_checkpoints)
  /\ Reading(w) => \A e \in Elections : local[w].status[e] = "CLOSED" =>
                     /\ db.status[e] = "CLOSED"
                     /\ BlocksFor(local[w].ledger, e) = BlocksFor(db.ledger, e)
  /\ pc[w] = "checkpoint" => rows[w] = local[w].ledger

PublishedHolds ==
  \A e \in Elections : \A blocks \in published[e] :
    db.status[e] = "CLOSED" /\ blocks = BlocksFor(db.ledger, e)

ReaderInv ==
  /\ WriterInv /\ Box!CheckpointsHold
  /\ \A w \in Workers : SnapshotHolds(w)
  /\ PublishedHolds
  /\ NoFalseAlarm

LEMMA CommittedVerifies ==
  ASSUME Box!CheckpointsHold, db \in Database
  PROVE  Box!verify_chain(db.ledger, db.ledger_checkpoints)
<1>1. db.ledger_checkpoints \in Seq(Box!Checkpoint)  BY DatabaseFields
<1> QED  BY <1>1 DEF Box!CheckpointsHold, Box!verify_chain

LEMMA SnapshotsStep ==
  ASSUME ReaderInv, NEW w \in Workers,
         (\E r \in Request : Accept(w, r)) \/ Step(w) \/ Abort(w)
  PROVE  \A x \in Workers : SnapshotHolds(x)'
<1>1. TypeInv /\ OnlyMoves(w) /\ db \in Database
  BY StepMovesOne DEF ReaderInv, WriterInv, TypeInv, TypeOK
<1>2. ClosedForGood  BY ClosedStays DEF ReaderInv, Next
<1>3. ASSUME NEW x \in Workers, x # w PROVE SnapshotHolds(x)'
  <2>1. /\ pc'[x] = pc[x] /\ local'[x] = local[x] /\ rows'[x] = rows[x]
    BY <1>1, <1>3 DEF OnlyMoves
  <2>2. SnapshotHolds(x)  BY DEF ReaderInv
  <2> QED  BY <1>2, <2>1, <2>2 DEF SnapshotHolds, Reading, ClosedForGood
<1>4. CASE ReadClosed(w)
  <2>1. pc'[w] = "rows" /\ local'[w] = db /\ db' = db
    BY <1>1, <1>4 DEF ReadClosed, Goto, TypeInv, TypeOK
  <2>2. Box!verify_chain(db.ledger, db.ledger_checkpoints)
    BY <1>1, CommittedVerifies DEF ReaderInv
  <2> QED  BY <1>3, <2>1, <2>2 DEF SnapshotHolds, Reading
<1>5. CASE ReadRows(w)
  <2>1. /\ pc[w] = "rows" /\ pc'[w] = "checkpoint" /\ local' = local /\ db' = db
        /\ rows'[w] = local[w].ledger
    BY <1>1, <1>5 DEF ReadRows, Snapshot, Goto, TypeInv, TypeOK
  <2>2. SnapshotHolds(w)  BY DEF ReaderInv
  <2> QED  BY <1>3, <2>1, <2>2 DEF SnapshotHolds, Reading
<1>6. CASE ~ReadClosed(w) /\ ~ReadRows(w)
  <2>1. pc'[w] \notin {"rows", "checkpoint"}
    <3> USE <1>1 DEF TypeInv, TypeOK
    <3>1. CASE \E r \in Request : Accept(w, r)  BY <3>1 DEF Accept, Goto
    <3>2. CASE Begin(w) \/ BusyTimeout(w) \/ ReadCheckpoint(w) \/ Deliver(w) \/ LoseReply(w)
      BY <3>2 DEF Begin, BusyTimeout, ReadCheckpoint, Deliver, LoseReply, FirstStatement, Goto
    <3>3. CASE CheckStatus(w) \/ MarkVoter(w) \/ ReadHead(w) \/ InsertBlock(w)
               \/ InsertCheckpoint(w) \/ UpdateStatus(w)
      BY <3>3 DEF CheckStatus, MarkVoter, ReadHead, InsertBlock, InsertCheckpoint, UpdateStatus,
                  Write, Rollback, Goto
    <3>4. CASE CountAttempt(w) \/ MatchFace(w) \/ Commit(w) \/ Abort(w)
      BY <3>4 DEF CountAttempt, MatchFace, Commit, Abort, Write, Rollback, Goto
    <3> QED  BY <1>6, <3>1, <3>2, <3>3, <3>4 DEF Step
  <2> QED  BY <1>3, <2>1 DEF SnapshotHolds, Reading
<1> QED  BY <1>4, <1>5, <1>6

LEMMA OnlyReadersPublish ==
  ASSUME TypeInv, NEW w \in Workers,
         (\E r \in Request : Accept(w, r)) \/ Step(w) \/ Abort(w), ~ReadCheckpoint(w)
  PROVE  UNCHANGED <<published, verdicts>>
BY DEF Step, Accept, Begin, BusyTimeout, ReadClosed, ReadRows, Deliver, LoseReply, Idle,
       CheckStatus, MarkVoter, UpdateStatus, ReadHead, InsertBlock, InsertCheckpoint,
       CountAttempt, MatchFace, Commit, Abort, Write, Rollback, public

LEMMA PublishedStep ==
  ASSUME ReaderInv, NEW w \in Workers,
         (\E r \in Request : Accept(w, r)) \/ Step(w) \/ Abort(w)
  PROVE  PublishedHolds' /\ NoFalseAlarm'
<1>1. TypeInv /\ ClosedForGood  BY ClosedStays DEF ReaderInv, WriterInv, Next
<1>2. CASE ReadCheckpoint(w)
  <2>1. /\ pc[w] = "checkpoint" /\ db' = db
        /\ verdicts' = verdicts \cup
                         {Box!verify_chain(rows[w], Snapshot(w).ledger_checkpoints)}
        /\ \A e \in Elections :
             published'[e] = IF local[w].status[e] = "CLOSED"
                             THEN published[e] \cup {BlocksFor(rows[w], e)}
                             ELSE published[e]
    BY <1>2 DEF ReadCheckpoint, Goto
  <2>2. SnapshotHolds(w) /\ Reading(w) /\ rows[w] = local[w].ledger
    BY <2>1 DEF ReaderInv, SnapshotHolds, Reading
  <2>3. NoFalseAlarm'
    BY <2>1, <2>2 DEF ReaderInv, NoFalseAlarm, SnapshotHolds, Snapshot
  <2>4. ASSUME NEW e \in Elections, NEW blocks \in published'[e]
        PROVE  db'.status[e] = "CLOSED" /\ blocks = BlocksFor(db'.ledger, e)
    <3>1. CASE blocks \in published[e]
      BY <2>1, <3>1 DEF ReaderInv, PublishedHolds
    <3>2. CASE local[w].status[e] = "CLOSED" /\ blocks = BlocksFor(rows[w], e)
      BY <2>1, <2>2, <3>2 DEF SnapshotHolds
    <3> QED  BY <2>1, <2>4, <3>1, <3>2
  <2> QED  BY <2>3, <2>4 DEF PublishedHolds
<1>3. CASE ~ReadCheckpoint(w)
  <2>1. UNCHANGED <<published, verdicts>>  BY <1>1, <1>3, OnlyReadersPublish
  <2> QED
    BY <1>1, <2>1 DEF ReaderInv, PublishedHolds, NoFalseAlarm, ClosedForGood
<1> QED  BY <1>2, <1>3

LEMMA ReaderInvHolds == Spec => []ReaderInv
<1>1. Init /\ WriterInv /\ Box!CheckpointsHold => ReaderInv
  BY DEF Init, ReaderInv, SnapshotHolds, Reading, PublishedHolds, NoFalseAlarm
<1>2. ReaderInv /\ WriterInv' /\ Box!CheckpointsHold' /\ [Next]_vars => ReaderInv'
  <2> SUFFICES ASSUME ReaderInv, WriterInv', Box!CheckpointsHold', [Next]_vars
               PROVE  ReaderInv'
    OBVIOUS
  <2>1. ASSUME NEW w \in Workers,
               (\E r \in Request : Accept(w, r)) \/ Step(w) \/ Abort(w)
        PROVE  ReaderInv'
    BY <2>1, SnapshotsStep, PublishedStep DEF ReaderInv
  <2>2. CASE Crash
    <3>1. \A w \in Workers : SnapshotHolds(w)'
      BY <2>2 DEF Crash, SnapshotHolds, Reading
    <3>2. PublishedHolds' /\ NoFalseAlarm'
      BY <2>2 DEF Crash, ReaderInv, PublishedHolds, NoFalseAlarm, public
    <3> QED  BY <3>1, <3>2 DEF ReaderInv
  <2>3. CASE UNCHANGED vars
    <3>1. UNCHANGED <<db, pc, local, rows, published, verdicts>>
      BY <2>3 DEF vars, served, public
    <3>2. \A w \in Workers : SnapshotHolds(w)'
      BY <3>1 DEF ReaderInv, SnapshotHolds, Reading
    <3>3. PublishedHolds' /\ NoFalseAlarm'
      BY <3>1 DEF ReaderInv, PublishedHolds, NoFalseAlarm
    <3> QED  BY <3>2, <3>3 DEF ReaderInv
  <2> QED  BY <2>1, <2>2, <2>3 DEF Next
<1> QED  BY <1>1, <1>2, WriterInvHolds, BallotBoxGuarantees, PTL DEF Spec

(* No public_ledger, however its SELECTs fall among ballots and checkpoints *)
(* being committed, ever reports a broken or a truncated ledger.           *)
THEOREM NoReaderRaisesAFalseAlarm == Spec => []NoFalseAlarm
<1>1. ReaderInv => NoFalseAlarm  BY DEF ReaderInv
<1> QED  BY <1>1, ReaderInvHolds, PTL

(* Every reader who was ever shown a closed election was shown the same     *)
(* blocks of it: those it will have for good.                              *)
THEOREM PublishedLedgersAgree == Spec => []OnePublishedLedger
<1>1. ReaderInv => OnePublishedLedger
  <2> SUFFICES ASSUME ReaderInv, NEW e \in Elections PROVE Cardinality(published[e]) <= 1
    BY DEF OnePublishedLedger
  <2>1. published[e] \subseteq {BlocksFor(db.ledger, e)}
    BY DEF ReaderInv, PublishedHolds
  <2>2. /\ IsFiniteSet({BlocksFor(db.ledger, e)})
        /\ Cardinality({BlocksFor(db.ledger, e)}) = 1
    BY FS_Singleton
  <2>3. Cardinality(published[e]) <= Cardinality({BlocksFor(db.ledger, e)})
    BY <2>1, <2>2, FS_Subset
  <2> QED  BY <2>2, <2>3
<1> QED  BY <1>1, ReaderInvHolds, PTL

-----------------------------------------------------------------------------
(* What clients have heard.  A verdict on a face that is still on its way   *)
(* has been counted like one that arrived, and a receipt on its way is of a *)
(* ballot that is in.                                                       *)

Verdict == {"matched", "rejected"}
OnItsWay(v) == {w \in Workers : pc[w] = "respond" /\ reply[w] \in Verdict /\ req[w].voter = v}

VerdictsCounted ==
  \A v \in Voters : told[v] + Cardinality(OnItsWay(v)) <= db.sessions[v].face_attempts

AttemptsBounded == \A v \in Voters : db.sessions[v].face_attempts <= FACE_MAX_ATTEMPTS

VotersWereMatched ==
  \A v \in Voters, e \in Elections :
    <<v, e>> \in db.votes_cast => db.sessions[v].face_verified

FaceInv == VerdictsCounted /\ AttemptsBounded /\ VotersWereMatched

(* Only an answer that arrives tells anybody anything. *)
LEMMA OnlyDeliveryTells ==
  ASSUME TypeInv, NEW w \in Workers,
         (\E r \in Request : Accept(w, r)) \/ Step(w) \/ Abort(w), ~Deliver(w)
  PROVE  UNCHANGED <<heard, told>>
BY DEF Step, Accept, Begin, BusyTimeout, ReadClosed, ReadRows, ReadCheckpoint, LoseReply, Idle,
       CheckStatus, MarkVoter, UpdateStatus, ReadHead, InsertBlock, InsertCheckpoint,
       CountAttempt, MatchFace, Commit, Abort, Write, Rollback, public

(* Only COMMIT sends a verdict or a receipt on its way. *)
LEMMA OnlyCommitAnswers ==
  ASSUME TypeInv, NEW w \in Workers,
         (\E r \in Request : Accept(w, r)) \/ Step(w) \/ Abort(w), ~Commit(w)
  PROVE  pc'[w] = "respond" => reply'[w] \in {"error", "refused", "already", "done"}
<1> USE DEF TypeInv, TypeOK
<1>1. CASE \E r \in Request : Accept(w, r)  BY <1>1 DEF Accept, Goto
<1>2. CASE Begin(w) \/ BusyTimeout(w)
  BY <1>2 DEF Begin, BusyTimeout, FirstStatement, Goto
<1>3. CASE ReadClosed(w) \/ ReadRows(w) \/ ReadCheckpoint(w) \/ ReadHead(w)
  BY <1>3 DEF ReadClosed, ReadRows, ReadCheckpoint, ReadHead, Goto
<1>4. CASE Deliver(w) \/ LoseReply(w)  BY <1>4 DEF Deliver, LoseReply, Goto
<1>5. CASE CheckStatus(w) \/ MarkVoter(w) \/ UpdateStatus(w)
  BY <1>5 DEF CheckStatus, MarkVoter, UpdateStatus, Write, Rollback, Goto
<1>6. CASE InsertBlock(w) \/ InsertCheckpoint(w) \/ CountAttempt(w)
  BY <1>6 DEF InsertBlock, InsertCheckpoint, CountAttempt, Write, Goto
<1>7. CASE MatchFace(w)  BY <1>7 DEF MatchFace, Rollback, Goto
<1>8. CASE Abort(w)  BY <1>8 DEF Abort, Rollback, Goto
<1> QED  BY <1>1, <1>2, <1>3, <1>4, <1>5, <1>6, <1>7, <1>8 DEF Step

LEMMA CommitAnswers ==
  ASSUME TypeInv, NEW w \in Workers, Commit(w)
  PROVE  /\ pc[w] = "commit" /\ pc'[w] = "respond" /\ req' = req
         /\ reply'[w] = "receipt" => req[w].kind = "cast"
         /\ reply'[w] \in Verdict => reply[w] = reply'[w] /\ req[w].kind = "face"
<1>1. /\ pc[w] = "commit" /\ pc'[w] = "respond" /\ req' = req
      /\ reply'[w] = IF reply[w] # "none" THEN reply[w]
                     ELSE IF req[w].kind = "cast" THEN "receipt" ELSE "done"
  BY DEF Commit, Goto, TypeInv, TypeOK
<1>2. Fits(w)  BY DEF TypeInv, StatementsFit
<1> QED  BY <1>1, <1>2 DEF Fits, Verdict

(* The verdicts on their way are never more than the attempts they cost.    *)
LEMMA FewerOnTheirWay ==
  ASSUME FaceInv, TypeInv, NEW v \in Voters, told' = told,
         OnItsWay(v)' \subseteq OnItsWay(v),
         db.sessions[v].face_attempts <= db'.sessions[v].face_attempts,
         db'.sessions[v].face_attempts \in Nat
  PROVE  told'[v] + Cardinality(OnItsWay(v)') <= db'.sessions[v].face_attempts
<1>1. /\ told[v] \in Nat /\ db \in Database /\ db.sessions[v] \in Session
      /\ db.sessions[v].face_attempts \in Nat
  BY DatabaseFields DEF TypeInv, TypeOK, Session
<1>2. /\ Cardinality(OnItsWay(v)') <= Cardinality(OnItsWay(v))
      /\ Cardinality(OnItsWay(v)') \in Nat /\ Cardinality(OnItsWay(v)) \in Nat
  BY FewerWorkers DEF OnItsWay
<1>3. told[v] + Cardinality(OnItsWay(v)) <= db.sessions[v].face_attempts
  BY DEF FaceInv, VerdictsCounted
<1> QED  BY <1>1, <1>2, <1>3

LEMMA FaceFields ==
  ASSUME db' \in Database, NEW v \in Voters
  PROVE  db'.sessions[v] \in Session /\ db'.sessions[v].face_attempts \in Nat
BY DatabaseFields DEF Session

LEMMA CommitKeepsVerdicts ==
  ASSUME FaceInv, WriterInv, WriterInv', NEW w \in Workers, Commit(w)
  PROVE  VerdictsCounted'
<1>1. TypeInv /\ TypeInv' /\ OnlyMoves(w)  BY StepMovesOne DEF WriterInv, Step
<1>2. told' = told  BY DEF Commit, public
<1>3. \A x \in Workers \ {w} : req'[x] = req[x] /\ pc'[x] = pc[x] /\ reply'[x] = reply[x]
  BY <1>1 DEF OnlyMoves
<1>4. /\ pc[w] = "commit" /\ pc'[w] = "respond" /\ req'[w] = req[w]
      /\ reply'[w] \in Verdict => reply[w] = reply'[w] /\ req[w].kind = "face"
  BY <1>1, CommitAnswers
<1>5. /\ db \in Database /\ db' \in Database
      /\ \A v \in Voters : /\ db.sessions[v].face_attempts \in Nat /\ told[v] \in Nat
                           /\ db'.sessions[v].face_attempts \in Nat
  BY <1>1, DatabaseFields, FaceFields DEF TypeInv, TypeOK, Session
<1>6. ASSUME NEW v \in Voters
      PROVE  told'[v] + Cardinality(OnItsWay(v)') <= db'.sessions[v].face_attempts
  <2>1. CASE reply'[w] \in Verdict /\ req[w].voter = v
    <3>1. /\ db'.sessions[v].face_attempts = db.sessions[v].face_attempts + 1
      BY <1>4, <2>1, CommitEffect DEF Tries, Verdict
    <3>2. OnItsWay(v)' \subseteq OnItsWay(v) \cup {w}  BY <1>3 DEF OnItsWay
    <3>3. /\ Cardinality(OnItsWay(v)') <= Cardinality(OnItsWay(v) \cup {w})
          /\ Cardinality(OnItsWay(v) \cup {w}) <= Cardinality(OnItsWay(v)) + 1
          /\ Cardinality(OnItsWay(v)') \in Nat /\ Cardinality(OnItsWay(v)) \in Nat
          /\ Cardinality(OnItsWay(v) \cup {w}) \in Nat
      <4> DEFINE before == OnItsWay(v)
                 after == OnItsWay(v)'
      <4>1. /\ before \in SUBSET Workers /\ before \cup {w} \in SUBSET Workers
            /\ after \in SUBSET (before \cup {w})
        BY <3>2 DEF OnItsWay
      <4> HIDE DEF before, after
      <4>2. /\ Cardinality(after) <= Cardinality(before \cup {w})
            /\ Cardinality(after) \in Nat /\ Cardinality(before \cup {w}) \in Nat
        BY <4>1, FewerWorkers
      <4>3. /\ Cardinality(before \cup {w}) <= Cardinality(before) + 1
            /\ Cardinality(before) \in Nat
        BY <4>1, FewerWorkers
      <4> QED  BY <4>2, <4>3 DEF before, after
    <3>4. told[v] + Cardinality(OnItsWay(v)) <= db.sessions[v].face_attempts
      BY DEF FaceInv, VerdictsCounted
    <3> QED  BY <1>2, <1>5, <3>1, <3>3, <3>4
  <2>2. CASE ~(reply'[w] \in Verdict /\ req[w].voter = v)
    <3>1. OnItsWay(v)' \subseteq OnItsWay(v)  BY <1>3, <1>4, <2>2 DEF OnItsWay
    <3>2. db.sessions[v].face_attempts <= db'.sessions[v].face_attempts
      <4>1. CASE req[w].kind # "face"
        <5>1. db'.sessions = db.sessions  BY <4>1, CommitEffect DEF Votes, Moves, Signs
        <5> QED  BY <1>5, <5>1
      <4>2. CASE req[w].kind = "face" /\ req[w].voter # v
        BY <1>5, <4>2, CommitEffect DEF Tries
      <4>3. CASE req[w].kind = "face" /\ req[w].voter = v
        <5>1. Tries(w)  BY <4>3, CommitEffect
        <5>2. /\ reply[w] \in Verdict => db'.sessions[v].face_attempts = db.sessions[v].face_attempts + 1
              /\ reply[w] \notin Verdict => db'.sessions[v].face_attempts = db.sessions[v].face_attempts
          BY <4>3, <5>1 DEF Tries, Verdict
        <5> QED  BY <1>5, <5>2
      <4> QED  BY <4>1, <4>2, <4>3
    <3> QED  BY <1>1, <1>2, <1>5, <3>1, <3>2, FewerOnTheirWay
  <2> QED  BY <2>1, <2>2
<1> QED  BY <1>6 DEF VerdictsCounted

(* COMMIT spends an attempt only below the limit, and marks only a voter    *)
(* whose face was matched; a match, once committed, stays.                  *)
LEMMA CommitKeepsFaces ==
  ASSUME FaceInv, WriterInv, WriterInv', NEW w \in Workers, Commit(w)
  PROVE  AttemptsBounded' /\ VotersWereMatched'
<1>1. /\ req[w].kind \in {"cast", "face", "open", "close", "checkpoint"}
      /\ AttemptsBounded /\ VotersWereMatched
  BY CommitEffect DEF FaceInv
<1>2. /\ db \in Database /\ \A v \in Voters : db.sessions[v].face_attempts \in Nat
  BY DatabaseFields DEF WriterInv, TypeInv, TypeOK, Session
<1>3. CASE req[w].kind = "cast"
  <2>1. Votes(w)  BY <1>3, CommitEffect
  <2> QED  BY <1>1, <2>1 DEF Votes, AttemptsBounded, VotersWereMatched
<1>4. CASE req[w].kind = "face"
  <2>1. Tries(w)  BY <1>4, CommitEffect
  <2>2. AttemptsBounded'
    BY <1>1, <1>2, <2>1, TransactionsAssumptions DEF Tries, AttemptsBounded
  <2>3. VotersWereMatched'  BY <1>1, <2>1 DEF Tries, VotersWereMatched
  <2> QED  BY <2>2, <2>3
<1>5. CASE req[w].kind \in {"open", "close", "checkpoint"}
  BY <1>1, <1>5, CommitEffect DEF Moves, Signs, AttemptsBounded, VotersWereMatched
<1> QED  BY <1>1, <1>3, <1>4, <1>5

LEMMA OtherStepsKeepFaces ==
  ASSUME FaceInv, WriterInv, WriterInv', NEW w \in Workers,
         (\E r \in Request : Accept(w, r)) \/ Step(w) \/ Abort(w), ~Commit(w)
  PROVE  FaceInv'
<1>1. TypeInv /\ OnlyMoves(w) /\ db' = db
  BY StepMovesOne, OnlyCommitWrites DEF WriterInv
<1>2. \A x \in Workers \ {w} : req'[x] = req[x] /\ pc'[x] = pc[x] /\ reply'[x] = reply[x]
  BY <1>1 DEF OnlyMoves
<1>3. ~(pc'[w] = "respond" /\ reply'[w] \in Verdict)
  BY <1>1, OnlyCommitAnswers DEF Verdict
<1>4. \A v \in Voters : OnItsWay(v)' \subseteq OnItsWay(v) \ {w}
  BY <1>2, <1>3 DEF OnItsWay
<1>5. /\ db \in Database
      /\ \A v \in Voters : db.sessions[v].face_attempts \in Nat /\ told[v] \in Nat
  BY <1>1, DatabaseFields DEF TypeInv, TypeOK, Session
<1>6. CASE Deliver(w) /\ reply[w] \in Verdict
  <2>1. /\ pc[w] = "respond" /\ told' = [told EXCEPT ![req[w].voter] = @ + 1]
    BY <1>6 DEF Deliver, Goto, Verdict
  <2>2. ASSUME NEW v \in Voters
        PROVE  told'[v] + Cardinality(OnItsWay(v)') <= db.sessions[v].face_attempts
    <3>1. CASE req[w].voter = v
      <4>1. w \in OnItsWay(v) \ OnItsWay(v)'  BY <1>4, <1>6, <2>1, <3>1 DEF OnItsWay
      <4>2. /\ Cardinality(OnItsWay(v)') + 1 <= Cardinality(OnItsWay(v))
            /\ Cardinality(OnItsWay(v)') \in Nat /\ Cardinality(OnItsWay(v)) \in Nat
        BY <1>4, <4>1, FewerWorkers DEF OnItsWay
      <4>3. told'[v] = told[v] + 1  BY <1>1, <2>1, <3>1 DEF TypeInv, TypeOK
      <4>4. told[v] + Cardinality(OnItsWay(v)) <= db.sessions[v].face_attempts
        BY DEF FaceInv, VerdictsCounted
      <4> QED  BY <1>5, <4>2, <4>3, <4>4
    <3>2. CASE req[w].voter # v
      <4>1. told'[v] = told[v]  BY <1>1, <2>1, <3>2 DEF TypeInv, TypeOK
      <4>2. /\ Cardinality(OnItsWay(v)') <= Cardinality(OnItsWay(v))
            /\ Cardinality(OnItsWay(v)') \in Nat /\ Cardinality(OnItsWay(v)) \in Nat
        BY <1>4, FewerWorkers DEF OnItsWay
      <4>3. told[v] + Cardinality(OnItsWay(v)) <= db.sessions[v].face_attempts
        BY DEF FaceInv, VerdictsCounted
      <4> QED  BY <1>5, <4>1, <4>2, <4>3
    <3> QED  BY <3>1, <3>2
  <2> QED
    BY <1>1, <2>2 DEF FaceInv, VerdictsCounted, AttemptsBounded, VotersWereMatched
<1>7. CASE ~(Deliver(w) /\ reply[w] \in Verdict)
  <2>1. told' = told
    <3>1. CASE Deliver(w)  BY <1>7, <3>1 DEF Deliver, Verdict
    <3>2. CASE ~Deliver(w)  BY <1>1, <3>2, OnlyDeliveryTells
    <3> QED  BY <3>1, <3>2
  <2>2. \A v \in Voters :
          told'[v] + Cardinality(OnItsWay(v)') <= db'.sessions[v].face_attempts
    BY <1>1, <1>4, <1>5, <2>1, FewerOnTheirWay
  <2> QED
    BY <1>1, <2>2 DEF FaceInv, VerdictsCounted, AttemptsBounded, VotersWereMatched
<1> QED  BY <1>6, <1>7

LEMMA FaceInvHolds == Spec => []FaceInv
<1>1. Init => FaceInv
  <2> SUFFICES ASSUME Init PROVE FaceInv  OBVIOUS
  <2>1. ASSUME NEW v \in Voters
        PROVE  /\ OnItsWay(v) = {} /\ told[v] = 0 /\ db.sessions[v].face_attempts = 0
               /\ db.votes_cast = {}
    BY DEF Init, OnItsWay, NewDatabase, NewSession
  <2>2. VerdictsCounted  BY <2>1, FS_EmptySet DEF VerdictsCounted
  <2> QED
    BY <2>1, <2>2, TransactionsAssumptions DEF FaceInv, AttemptsBounded, VotersWereMatched
<1>2. WriterInv /\ WriterInv' /\ FaceInv /\ [Next]_vars => FaceInv'
  <2> SUFFICES ASSUME WriterInv, WriterInv', FaceInv, [Next]_vars PROVE FaceInv'  OBVIOUS
  <2>1. ASSUME NEW w \in Workers,
               (\E r \in Request : Accept(w, r)) \/ Step(w) \/ Abort(w)
        PROVE  FaceInv'
    <3>1. CASE Commit(w)  BY <3>1, CommitKeepsVerdicts, CommitKeepsFaces DEF FaceInv
    <3>2. CASE ~Commit(w)  BY <2>1, <3>2, OtherStepsKeepFaces
    <3> QED  BY <3>1, <3>2
  <2>2. CASE Crash \/ UNCHANGED vars
    <3>1. db' = db /\ told' = told  BY <2>2 DEF Crash, vars, public
    <3>2. \A v \in Voters : OnItsWay(v)' \subseteq OnItsWay(v)
      BY <2>2 DEF Crash, vars, served, OnItsWay
    <3>3. db \in Database /\ \A v \in Voters : db.sessions[v].face_attempts \in Nat
      BY DatabaseFields DEF WriterInv, TypeInv, TypeOK, Session
    <3>4. \A v \in Voters :
            told'[v] + Cardinality(OnItsWay(v)') <= db'.sessions[v].face_attempts
      BY <3>1, <3>2, <3>3, FewerOnTheirWay DEF WriterInv
    <3> QED
      BY <3>1, <3>4 DEF FaceInv, VerdictsCounted, AttemptsBounded, VotersWereMatched
  <2> QED  BY <2>1, <2>2 DEF Next
<1> QED  BY <1>1, <1>2, WriterInvHolds, PTL DEF Spec

(* No verdict on a face is given away: every one a client ever heard cost   *)
(* an attempt, nobody gets more than FACE_MAX_ATTEMPTS, and a ballot is in  *)
(* only of a voter whose face was matched.                                  *)
THEOREM VerdictsAlwaysCounted == Spec => []FaceVerdictsAreCounted
<1>1. WriterInv /\ FaceInv => FaceVerdictsAreCounted
  <2> SUFFICES ASSUME WriterInv, FaceInv PROVE FaceVerdictsAreCounted  OBVIOUS
  <2>1. ASSUME NEW v \in Voters PROVE told[v] <= db.sessions[v].face_attempts
    <3>1. /\ db \in Database /\ told[v] \in Nat /\ db.sessions[v].face_attempts \in Nat
      BY DatabaseFields DEF WriterInv, TypeInv, TypeOK, Session
    <3>2. Cardinality(OnItsWay(v)) \in Nat  BY FewerWorkers DEF OnItsWay
    <3>3. told[v] + Cardinality(OnItsWay(v)) <= db.sessions[v].face_attempts
      BY DEF FaceInv, VerdictsCounted
    <3> QED  BY <3>1, <3>2, <3>3
  <2> QED
    BY <2>1 DEF FaceInv, AttemptsBounded, VotersWereMatched, FaceVerdictsAreCounted
<1> QED  BY <1>1, FaceInvHolds, WriterInvHolds, PTL

-----------------------------------------------------------------------------
(* What a receipt acknowledges. *)

VotersIn(e) == {v \in Voters : <<v, e>> \in db.votes_cast}

(* Receipts that were heard, and receipts on their way. *)
ReceiptsAreVotes ==
  /\ \A v \in Voters, e \in Elections :
       "receipt" \in heard[<<v, e>>] => <<v, e>> \in db.votes_cast
  /\ \A w \in Workers : pc[w] = "respond" /\ reply[w] = "receipt" =>
       <<req[w].voter, req[w].election>> \in db.votes_cast

(* A block for every mark. *)
BlocksPerVote ==
  \A e \in Elections :
    /\ IsFiniteSet(BlocksFor(db.ledger, e))
    /\ Cardinality(VotersIn(e)) = Cardinality(BlocksFor(db.ledger, e))

ReceiptInv == ReceiptsAreVotes /\ BlocksPerVote

LEMMA CommitKeepsBlocks ==
  ASSUME ReceiptInv, WriterInv, NEW w \in Workers, Commit(w)
  PROVE  BlocksPerVote'
<1>1. req[w].kind \in {"cast", "face", "open", "close", "checkpoint"}  BY CommitEffect
<1>2. CASE req[w].kind # "cast"
  <2>1. db'.ledger = db.ledger /\ db'.votes_cast = db.votes_cast
    BY <1>1, <1>2, CommitEffect DEF Moves, Signs, Tries
  <2>2. \A e \in Elections : VotersIn(e)' = VotersIn(e)  BY <2>1 DEF VotersIn
  <2> QED  BY <2>1, <2>2 DEF ReceiptInv, BlocksPerVote
<1>3. CASE req[w].kind = "cast"
  <2> DEFINE b == ChainedBlock(w)
             v == req[w].voter
  <2>1. Votes(w)  BY <1>3, CommitEffect
  <2>2. /\ b \in Box!Block /\ b.election_type = req[w].election
        /\ db.ledger \in Seq(Box!Block) /\ db'.ledger = Append(db.ledger, b)
    <3>1. b.election_type = req[w].election  BY DEF ChainedBlock, Box!NewBlock
    <3>2. db \in Database  BY DEF WriterInv, TypeInv, TypeOK
    <3> QED  BY <2>1, <3>1, <3>2, DatabaseFields DEF Votes
  <2>3. /\ v \in Voters /\ req[w].election \in Elections
        /\ <<v, req[w].election>> \notin db.votes_cast
        /\ db'.votes_cast = db.votes_cast \cup {<<v, req[w].election>>}
    BY <2>1 DEF Votes
  <2> HIDE DEF b, v
  <2>4. ASSUME NEW e \in Elections
        PROVE  /\ IsFiniteSet(BlocksFor(db'.ledger, e))
               /\ Cardinality(VotersIn(e)') = Cardinality(BlocksFor(db'.ledger, e))
    <3>1. /\ IsFiniteSet(BlocksFor(db.ledger, e)) /\ IsFiniteSet(VotersIn(e))
          /\ Cardinality(VotersIn(e)) = Cardinality(BlocksFor(db.ledger, e))
      <4>1. IsFiniteSet(VotersIn(e))  BY FS_Subset, TransactionsAssumptions DEF VotersIn
      <4> QED  BY <4>1 DEF ReceiptInv, BlocksPerVote
    <3>2. CASE e = req[w].election
      <4> DEFINE row == <<Len(db.ledger) + 1, b>>
      <4>1. /\ VotersIn(e)' = VotersIn(e) \cup {v} /\ v \notin VotersIn(e)
        BY <2>3, <3>2 DEF VotersIn
      <4>2. /\ BlocksFor(db'.ledger, e) = BlocksFor(db.ledger, e) \cup {row}
            /\ row \notin BlocksFor(db.ledger, e)
        BY <2>2, <3>2, BlocksForAppend
      <4> HIDE DEF row
      <4>3. Cardinality(VotersIn(e)') = Cardinality(VotersIn(e)) + 1
        BY <3>1, <4>1, FS_AddElement
      <4>4. /\ IsFiniteSet(BlocksFor(db'.ledger, e))
            /\ Cardinality(BlocksFor(db'.ledger, e)) = Cardinality(BlocksFor(db.ledger, e)) + 1
        BY <3>1, <4>2, FS_AddElement
      <4> QED  BY <3>1, <4>3, <4>4
    <3>3. CASE e # req[w].election
      <4>1. VotersIn(e)' = VotersIn(e)  BY <2>3, <3>3 DEF VotersIn
      <4>2. BlocksFor(db'.ledger, e) = BlocksFor(db.ledger, e)
        BY <2>2, <3>3, BlocksForAppendOther
      <4> QED  BY <3>1, <4>1, <4>2
    <3> QED  BY <3>2, <3>3
  <2> QED  BY <2>4 DEF BlocksPerVote
<1> QED  BY <1>2, <1>3

LEMMA CommitKeepsMarks ==
  ASSUME WriterInv, NEW w \in Workers, Commit(w)
  PROVE  /\ db.votes_cast \subseteq db'.votes_cast
         /\ req[w].kind = "cast" => <<req[w].voter, req[w].election>> \in db'.votes_cast
<1>1. req[w].kind \in {"cast", "face", "open", "close", "checkpoint"}  BY CommitEffect
<1>2. CASE req[w].kind = "cast"  BY <1>2, CommitEffect DEF Votes
<1>3. CASE req[w].kind # "cast"  BY <1>1, <1>3, CommitEffect DEF Moves, Signs, Tries
<1> QED  BY <1>2, <1>3

LEMMA ReceiptsStep ==
  ASSUME ReceiptInv, WriterInv, WriterInv', NEW w \in Workers,
         (\E r \in Request : Accept(w, r)) \/ Step(w) \/ Abort(w)
  PROVE  ReceiptsAreVotes'
<1>1. TypeInv /\ OnlyMoves(w) /\ ReceiptsAreVotes
  BY StepMovesOne DEF WriterInv, ReceiptInv
<1>2. db.votes_cast \subseteq db'.votes_cast
  <2>1. CASE Commit(w)  BY <2>1, CommitKeepsMarks
  <2>2. CASE ~Commit(w)  BY <1>1, <2>2, OnlyCommitWrites
  <2> QED  BY <2>1, <2>2
<1>3. ASSUME NEW x \in Workers, pc'[x] = "respond", reply'[x] = "receipt"
      PROVE  <<req'[x].voter, req'[x].election>> \in db'.votes_cast
  <2>1. CASE x # w
    <3>1. pc'[x] = pc[x] /\ reply'[x] = reply[x] /\ req'[x] = req[x]
      BY <1>1, <2>1 DEF OnlyMoves
    <3> QED  BY <1>1, <1>2, <1>3, <3>1 DEF ReceiptsAreVotes
  <2>2. CASE x = w /\ Commit(w)
    <3>1. req' = req /\ req[w].kind = "cast"  BY <1>1, <1>3, <2>2, CommitAnswers
    <3> QED  BY <2>2, <3>1, CommitKeepsMarks
  <2>3. CASE x = w /\ ~Commit(w)
    <3>1. reply'[w] \in {"error", "refused", "already", "done"}
      BY <1>1, <1>3, <2>3, OnlyCommitAnswers
    <3> QED  BY <1>3, <2>3, <3>1
  <2> QED  BY <2>1, <2>2, <2>3
<1>4. ASSUME NEW v \in Voters, NEW e \in Elections, "receipt" \in heard'[<<v, e>>]
      PROVE  <<v, e>> \in db'.votes_cast
  <2>1. CASE "receipt" \in heard[<<v, e>>]  BY <1>1, <1>2, <2>1 DEF ReceiptsAreVotes
  <2>2. CASE "receipt" \notin heard[<<v, e>>]
    <3>1. Deliver(w)  BY <1>1, <1>4, <2>2, OnlyDeliveryTells
    <3>2. /\ pc[w] = "respond" /\ heard \in [Voters \X Elections -> SUBSET Answer]
          /\ heard' = IF reply[w] \in {"receipt", "already"}
                      THEN [heard EXCEPT ![<<req[w].voter, req[w].election>>] = @ \cup {reply[w]}]
                      ELSE heard
      BY <1>1, <3>1 DEF Deliver, Goto, TypeInv, TypeOK
    <3>3. <<v, e>> = <<req[w].voter, req[w].election>> /\ reply[w] = "receipt"
      BY <1>4, <2>2, <3>2
    <3> QED  BY <1>1, <1>2, <3>2, <3>3 DEF ReceiptsAreVotes
  <2> QED  BY <2>1, <2>2
<1> QED  BY <1>3, <1>4 DEF ReceiptsAreVotes

LEMMA ReceiptInvHolds == Spec => []ReceiptInv
<1>1. Init => ReceiptInv
  <2> SUFFICES ASSUME Init PROVE ReceiptInv  OBVIOUS
  <2>1. ReceiptsAreVotes  BY DEF Init, ReceiptsAreVotes
  <2>2. ASSUME NEW e \in Elections
        PROVE  VotersIn(e) = {} /\ BlocksFor(db.ledger, e) = {}
    <3>1. db.ledger = << >> /\ db.votes_cast = {}  BY DEF Init, NewDatabase
    <3> QED  BY <3>1 DEF VotersIn, BlocksFor
  <2>3. BlocksPerVote  BY <2>2, FS_EmptySet DEF BlocksPerVote
  <2> QED  BY <2>1, <2>3 DEF ReceiptInv
<1>2. WriterInv /\ WriterInv' /\ ReceiptInv /\ [Next]_vars => ReceiptInv'
  <2> SUFFICES ASSUME WriterInv, WriterInv', ReceiptInv, [Next]_vars PROVE ReceiptInv'
    OBVIOUS
  <2>1. ASSUME NEW w \in Workers,
               (\E r \in Request : Accept(w, r)) \/ Step(w) \/ Abort(w)
        PROVE  ReceiptInv'
    <3>1. CASE Commit(w)  BY <2>1, <3>1, CommitKeepsBlocks, ReceiptsStep DEF ReceiptInv
    <3>2. CASE ~Commit(w)
      <4>1. db' = db  BY <2>1, <3>2, OnlyCommitWrites DEF WriterInv
      <4>2. BlocksPerVote'  BY <4>1 DEF ReceiptInv, BlocksPerVote, VotersIn
      <4> QED  BY <2>1, <4>2, ReceiptsStep DEF ReceiptInv
    <3> QED  BY <3>1, <3>2
  <2>2. CASE Crash \/ UNCHANGED vars
    <3>1. db' = db /\ heard' = heard  BY <2>2 DEF Crash, vars, public
    <3>2. CASE Crash
      BY <3>1, <3>2 DEF Crash, ReceiptInv, ReceiptsAreVotes, BlocksPerVote, VotersIn
    <3>3. CASE UNCHANGED vars
      BY <3>1, <3>3 DEF vars, served, ReceiptInv, ReceiptsAreVotes, BlocksPerVote, VotersIn
    <3> QED  BY <2>2, <3>2, <3>3
  <2> QED  BY <2>1, <2>2 DEF Next
<1> QED  BY <1>1, <1>2, WriterInvHolds, PTL DEF Spec

(* No receipt is ever taken back: whoever heard one is marked for good, and *)
(* there is a committed block for each of them.                            *)
THEOREM ReceiptsAlwaysCommitted == Spec => []AcknowledgedIsCommitted
<1>1. ReceiptInv => AcknowledgedIsCommitted
  <2> SUFFICES ASSUME ReceiptInv, NEW e \in Elections
               PROVE  LET thanked == {v \in Voters : "receipt" \in heard[<<v, e>>]}
                      IN /\ \A v \in thanked : <<v, e>> \in db.votes_cast
                         /\ Cardinality(thanked) <= Cardinality(BlocksFor(db.ledger, e))
    BY DEF AcknowledgedIsCommitted
  <2> DEFINE thanked == {v \in Voters : "receipt" \in heard[<<v, e>>]}
  <2>1. thanked \subseteq VotersIn(e)  BY DEF ReceiptInv, ReceiptsAreVotes, VotersIn
  <2>2. IsFiniteSet(VotersIn(e))  BY FS_Subset, TransactionsAssumptions DEF VotersIn
  <2>3. Cardinality(VotersIn(e)) = Cardinality(BlocksFor(db.ledger, e))
    BY DEF ReceiptInv, BlocksPerVote
  <2>4. \A v \in thanked : <<v, e>> \in db.votes_cast  BY <2>1 DEF VotersIn
  <2> HIDE DEF thanked
  <2>5. Cardinality(thanked) <= Cardinality(VotersIn(e))  BY <2>1, <2>2, FS_Subset
  <2>6. Cardinality(thanked) <= Cardinality(BlocksFor(db.ledger, e))  BY <2>3, <2>5
  <2> QED  BY <2>4, <2>6 DEF thanked
<1> QED  BY <1>1, ReceiptInvHolds, PTL
=============================================================================
