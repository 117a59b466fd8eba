# A verification project for the E2E-V voting service

TLA+ modules that model the service in `src/` (FastAPI handlers over one SQLite
database), the configurations that check them with TLC on small instances, and
theorems about them that TLAPS proves for every value of the constants.
Definitions keep the names of the source (`cast_ballot`'s tables, `verify_chain`,
`_officer`, `_leaves`, ...); `PROJECT.json` gives, for each one, the lines it models.

1. [The system](#1-the-system)
2. [Plan](#2-plan)
3. [Modules and code](#3-modules-and-code)
4. [Runs](#4-runs)
5. [Fairness](#5-fairness)
6. [Proofs](#6-proofs)
7. [Observations](#7-observations)
8. [Not modelled](#8-not-modelled)

## 1. The system

A voter identifies herself, confirms a code sent by SMS, passes a face check, and casts
one ballot per election; polling-unit officers submit signed result sheets. Everything is
kept in one SQLite database. Handlers are plain (not `async`) functions, so the server
runs them in a pool of threads; each opens its own connection. A command line tool works
on the same database from another process. `legacy/` holds an earlier prototype that is
kept out of the image (README.md:353).

| component | state | operations | what makes it correct |
|---|---|---|---|
| ballot box (`main.cast_ballot`, `admin.register_voter`, `set_election_state`, `tally`, `ledger.py`, ledger checkpoints of `results_core.py`) | `voters`, `elections.status`, `votes_cast`, `ledger`, `ledger_checkpoints`, receipts handed out | register, open, close, cast, sign the head, verify chain, verify receipt, tally | one counted ballot per voter and election, at her registered unit; ledger and `votes_cast` agree although no row links them; signed heads and receipts stay verifiable; closed tallies are final |
| transactions (`db.tx`, `db.read`) | the lock, uncommitted copies, snapshots, replies in flight | BEGIN IMMEDIATE, statements, COMMIT, ROLLBACK, busy timeout, snapshot reads | requests act as whole transactions whatever the interleaving; readers see one state; nobody waits for ever |
| accreditation (`main.verify`, `verify_otp`, `verify_face`, `security.send_sms`) | `sessions`, `voter_attempts`, requests waiting for the gateway | verify, SMS and its retries, OTP, face | the hourly cap holds of every rolling hour; guesses are bounded; one live session, which ends for its own reason only |
| voter API (`main.py`) | both of the above | `cast_ballot` joins them | only a live, newest, fully verified session votes |
| voter page (`static/js/voter.js`) | panel, token, elections listed, calls in flight | verify, resend, submit code, upload photo, cast, reload | a ballot counts for the voter at the page; no mix of late answers strands her |
| result sheets (`results.py`, `results_core.py`, `admin.py`) | `officers`, `result_sheets`, `countersignatures`, `checkpoints` | add and (de)activate officers, submit, countersign, review, checkpoint, tally, export | one result per unit, counted once or decided once; sealed until the close; the archive always passes the offline verifier |
| Merkle tree (`merkle.py`) | leaves, latest signed root | root, proof, verify | proofs of covered sheets verify and bind the sheet; the root is RFC 6962's |
| audit log (`audit_log.py`, `db._migrate`, `_backfill_audit_chain`) | `admin_audit`, `audit_checkpoints`, table columns, processes starting up | append, sign, verify, migrate | never a false alarm, start-up completes |
| admin sessions and roles (`admin.login`, `require_role`, `logout`, `manage.create_admin`) | `admins`, `admin_sessions`, requests admitted and not yet done | create or reset an account, log in, admit, act, log out | every act was admitted on a good login and a role then held; no session outlives its credentials |
| officers' register and command line (`admin.add_officer`, `set_officer_state`, `manage.py`) | `officers`, the private key files | keygen, add, register, deactivate | a key that is registered and on file is never replaced or overwritten |
| rate limiter (`security.rate_limit`) | a deque per client and bucket, shared without a lock | one call per request | the limit is overrun by a bounded number; every call ends |
| offline verifier (`verify_offline.py`) | none | checks an exported archive | agrees with the server |
| prototype: casting (`legacy/ballot_security.py`, `voting_engine.py`, `election_workflow.py`) | issued ballots, ledger, tallies, receipts, locks, idempotency replies, the voter's state | issue, cast by the API or through the workflow | a ballot counts once; the tally lags by known ballots only; success means counted |
| prototype: accreditation (`legacy/auth_module.py`, `biometric_otp_module.py`, `security_flow.py`, `api_main.py`) | registrations, sessions, codes | register, authenticate, issue and verify a code, validate, log out | one registration; a second accreditation or use of a code needs requests that overlap |

Components interact through the database alone: `register` is shared by accreditation and
the ballot box, `status` by the ballot box and result sheets, `officers` by result sheets
and the command line, and every administrative transaction also appends to the audit log
(that entry is left to module `AuditLog`, whose `Audit` action it is). The outside parties
are the SMS gateway, called between two transactions with no lock held; the face matcher,
called inside one; and the browser, which only sees answers, in any order or never.

The hard behaviours: check and write in different statements of concurrent threads; the
chain's head read before the next block is written; readers that need several SELECTs to
agree; a crash or lost reply after COMMIT; SMS outcomes that arrive seconds after their
session was committed and perhaps replaced; a cap computed with a cutoff cut to whole
seconds; two caps that bound guessing only together; a role read in one transaction and
used in the next; a password reset beside a login in another process; answers that reach
the page after it has moved on; officers who change after they signed; sheets that arrive
after a root was signed; a migration that commits row by row in several processes; a deque
shared without a lock; and, in the prototype, operations that are several commits long.
`PROJECT.json` lists each, at its line, with the properties that watch it.

## 2. Plan

In order of importance. All steps are done.

1. `OneVote` (what voters are promised), `BallotBox` (implements it); proofs.
2. `Transactions`: the ballot box and the face check statement by statement; implements
   `BallotBox`.
3. `Accreditation`; proofs of the two caps and of the sessions.
4. `VoterAPI` composes 1 and 3; proof that it implements both, and that votes need a live
   accreditation.
5. `OneResult` (what collation promises), `ResultSheets` (implements it), `Merkle`.
6. `AuditLog` with the migration.
7. `RateLimiter`; proof of its bound.
8. `AdminAuth`, and `Administration`, which adds officers, key files and the command line;
   proofs.
9. `VoterPage` against the sessions of the API.
10. `LegacyVoting`, `LegacyAccreditation`: the prototype, commit by commit.
11. Proofs for `ResultSheets` (its invariants, implements `OneResult`) and `AuditLog`
    (`NoFalseAlarm`, whose inductive invariant says what every process in the loop knows of
    the rows it has read).
12. Proofs that `Transactions` implements `BallotBox` (the holder of the lock works on a
    copy of the committed tables) and of what clients were told; of `VoterPage`; of the
    prototype.
13. Proofs for `Merkle`, whose operators are for that purpose recursive functions of the
    range of leaves: every invariant of its run, and what a root and a proof say of trees
    of any size.

```
OneVote <-- BallotBox <-- Transactions          OneResult <-- ResultSheets
               ^                                Merkle   AuditLog   RateLimiter
               |                                AdminAuth <-- Administration
Accreditation -+- VoterAPI                      VoterPage
                                     Prototype: LegacyVoting, LegacyAccreditation
(<-- implements; proofs in *Proofs)
```

## 3. Modules and code

General conventions. One action is one committed transaction, except in `Transactions`,
`RateLimiter` and the start-up part of `AuditLog`, where one action is one statement, and
in the prototype's modules, where it is one read or one commit. A request that is refused
or raises inside `db.tx` is rolled back and is a stuttering step. SHA-256 is modelled by
its purpose: a digest *is* (a sequence that names) what was hashed, so different contents
have different digests. A signature is the pair of signer and message, an Ed25519
verification their comparison. Times are numbers; in the code they are ISO strings of one
format in UTC, which order alike. Where one module of proofs is about several components
(`VoterAPIProofs` about `VoterAPI`, `VoterPage` and `RateLimiter`, `PrototypeProofs` about
both halves of the prototype, `ResultSheetsProofs` about `ResultSheets` and the tree its
checkpoints sign), the standard names of the added components carry the component's name
(`InitPage`, `NextLimiter`, `SpecAccreditation`, `SpecTree`), so that all can be extended
at once.

**BallotBox.** `register[v]` is the voter's unit or `Unregistered`; `RegisterVoter`,
`OpenElection`, `CloseElection`, `RecordBallot`, `SignCheckpoint` are the transactions of
`register_voter`, `set_election_state` (open and close), `cast_ballot` (after its session
check) and `ledger_checkpoint`. `verify_chain` is `ledger.verify_chain` with the latest
checkpoint as `verify_ledger_chain` passes it; `verify_receipt(hash)` is the SELECT by
`block_hash`. Voters registered before the first step are in `Init`: the import of a
register is the same transaction repeated.

**Transactions.** Workers go from label to label as `cast_ballot`, `verify_face`,
`set_election_state`, `ledger_checkpoint` and `public_ledger` go from statement to
statement. `local[w]` is a writer's uncommitted copy or a reader's snapshot, `writer` the
holder of the lock that BEGIN IMMEDIATE takes. `MatchFace` is the matcher's verdict, given
inside the transaction, so that every other writer waits for it. `Abort` is any statement
failing, the matcher included, `Crash` the death of the process, `LoseReply` a connection
that drops after COMMIT. WAL lets readers proceed beside a writer, so `ReadClosed` needs no
lock. Every voter has one live session with its code verified; the rest is Accreditation's.
`BlocksFor` is the blocks of an election as a reader is shown them, with their index.

**Accreditation.** Tokens are numbered in the order `verify` issues them; `sms[t]` is how
far the request that issued `t` has come between its first transaction and its answer.
`Verify` is the whole first transaction (purge, cap, replacement, insert); `GatewayAccepts`,
`GatewayFails` and `DropSession` are the SMS loop and its `except`; `RightOtp`,
`WrongOtp`, `FaceRejected`, `FaceMatched` are the two checks. `granted` and `wrong` are
history variables. `SECOND` is the number of ticks in a second, so that the cut of
`replace(microsecond=0)` matters.

**VoterAPI** extends BallotBox and instantiates Accreditation as `Acc` on the same
register. `CastBallot` is `cast_ballot` from `load_session` to the receipt, `Enrol` the
registration both see. Every other action of one leaves the other's tables alone.

**VoterPage.** `step` is the panel shown, `token` and `credentials` the page's state,
`calls` what each control has in flight: the request, its answer, or nothing. A press reads
the token at that moment, as `api()` does; an answer runs its continuation (`OnVerified`,
`OnOtp`, `OnExpired`, ...) whatever has happened since. `Lose` is a lost request, a lost
answer, or any refusal the page only shows; `Reload` starts the page afresh, for the next
voter or the same. Of the server only what the page can tell apart is kept: sessions, what
they have passed, and ballots. Photos may be chosen while an upload is under way, because
only the capture button is disabled (`voter.js:260`).

**ResultSheets.** `status` and the five tables of the sheets. A payload is a record
(election, unit, figures) that stands for its canonical JSON and hash. `Submit` and
`Countersign` also enumerate signatures by the wrong officer, which are refused. `Category` is
the chain of tests of `tally`; `Visible` is what the tally, the sheet page and the export let
the public see; `offline_problems` is what `verify_offline.main` would report of
`export_all`, check by check, malformed JSON apart.

**Merkle.** The code recurses on slices of the list of leaves, and on the path without its
last element. The model does so by recursive functions: `Roots(hashes)[n][s]` is the root of
the `n` leaves after the first `s`, `Proofs(hashes)[n][s][m]` the path of the `m`-th of
them, `from[j]` in `_from_proof` what the first `j` elements of the path rebuild, for every
index and size; `Doubled` is the loop of `_split`. `root`, `proof` and `verify_proof` ask
them for the whole list. `submit_sheet` and `create_checkpoint` are the two actions that
make proofs and roots of different sizes meet. A digest is a string of one token that names
what was hashed, so bytes of a leaf and bytes of a node can be compared, and what tells them
apart is the prefix. `LevelRoot` is a second definition of the root that knows nothing of
`_split`: pair the hashes of a level, take up an odd one as it is, and go on to the next
level.

**AuditLog.** `init_db` in several processes: `Start`, the schema script (`SchemaFails`,
when an index names a column that only the migration would add), `ReadColumns`,
`AddColumn`/`DuplicateColumn`, `ReadLog`, `Visit` per row (each UPDATE commits by itself),
`Ready`. A process that is up logs (`Audit`) and signs (`AuditLogCheckpoint`).
`init_db` runs on a bare connection without a transaction, hence the interleaving.

**AdminAuth.** A request is `Admit` (`require_role`: a read of session and role) and later
`Serve` or `LogOut` (the handler's transaction); in between it is in `requests`, with the
name it acts under. `CreateAdmin` is `manage.create_admin`, in another process. `trail` is
a history variable: credentials saved, logins and acts in the order they committed; the
properties are stated over it, so that they speak of what was true when a request came in.
Handlers are told apart by the roles they ask for (`Allowed`), one per set of roles.

**Administration** extends it: `AddOfficer` and `SetOfficerState` come from admitted
requests and from `manage.py`; `OfficerKeygen`, `RegisterOfficer`, `SaveKey` are the
command line's, the key file a step after the transaction, since the file system does not
roll back; `KillCommand` is the command dying, or the file existing, in between. A key pair
is a number.

**RateLimiter.** One deque, per thread the statement it is at. A thread that finds the
deque emptied between its test and its `q[0]` or `popleft()` raises `IndexError`
(`EmptiedMeanwhile`) and the request ends. Requests may start at any time.

**Prototype** declares the constants its two halves share. **LegacyVoting.** A request is at a `pc` between two reads or commits of
`cast_vote_secure`, `cast_vote` and `BallotLedger.cast_ballot`; it keeps what it has read (the idempotency reply, the
voter's state, the issue, the chain head) and uses it later. Any commit may fail with
"database is locked" and any worker may die. Issuing ballots and walking a voter to
BALLOT_ISSUED are calls at any time. **LegacyAccreditation.** A request is the list of
operations its route runs (`register`, `authenticate`, `issue`, `verify`, ...), each a read
and a commit; `validate` and `logout` act on the session a request opened.

**OneVote** and **OneResult** are the abstract specifications: no ledger, hash, session,
signature or officer; only who has voted and the count, and what each unit's figures became.

## 4. Runs

Every property has a mutant: a plausible bug in one mapped definition (a dropped guard, an
off-by-one, a swapped order) under which TLC finds the property violated. The mutated forms
stand in the modules, marked `Mutant`. `TypeOK` is stated in every module with more than a
few variables; it is proved where there are proofs, and TLC's attention goes to the other
properties.

| run | bounds | what it shows |
|---|---|---|
| `voter_api` | 2 voters, 2 elections, 1 party, 2 units, 2 tokens, clock to 2, 1 ledger checkpoint | The composed API: ledger and `votes_cast` agree per unit (`LedgerMatchesVotes`), signed heads are reached (`CheckpointsHold`), a receipt's hash finds its own block and no other (`ReceiptsHold`), closed figures never move (`ClosedTallyFrozen`), `OneVote` is implemented, and every ballot comes from the newest session of its voter, live and fully verified. Two tokens are two voters, or one voter who started again; voters are enrolled late; sessions expire at 2. |
| `writers` | 2 workers, 2 voters, 1 election, 2 face attempts; face, cast, open, close | Statements, aborts, crashes and lost replies add up to steps of `BallotBox`; an acknowledged vote is never taken back; a verdict that was heard was counted. One worker holds the lock and one waits, for the same or another voter. |
| `readers` | 2 workers, 1 voter, 1 face attempt, 1 checkpoint; every kind of request | A reader beside a writer never reports a broken ledger (`NoFalseAlarm`); readers of a closed election saw the same blocks (`OnePublishedLedger`); every request ends and lets go of the lock (liveness). |
| `accreditation` | 1 voter, 2 ticks to a second, hour of 4, clock to 5, cap 2, 4 tokens, 1 code, 1 face attempt and 1 retry each | The cap and the guess budget across the end of an hour with half-second ticks; newest session only; no session ends for another message's failure; every verify ends (liveness). Caps and sessions are per voter, so one suffices; four tokens are twice the cap. |
| `voter_page` | 2 voters one after another, 3 sessions | Every ballot counts for the voter at the page; nobody is stranded (liveness). Three sessions are a restart, a resend and another voter's. |
| `result_sheets` | 2 elections, 2 units, 2 officers, 2 sheets, 2 checkpoints; figures that add up exactly and by one too many | Counted as `OneResult` promises; archive always passes `verify_offline`; earlier roots hold; figures sealed until their own election is closed. Two sheets of different elections, or of two units of one; officers registered, deactivated and reactivated in between. |
| `merkle` | up to 13 sheets, every smaller signed size | Proofs verify, bind sheet, path and position, and the root is the standard one. Thirteen goes past 8 and is neither a power of two nor next to one; splits of 1, 2, 4 and 8 all occur. |
| `audit_log` | 3 processes, up to 2 old rows, 3 rows, 1 checkpoint | Never a false alarm while others migrate, crash and log; a checkpoint covers its own entry; once crashes cease every process gets up, or, on a database without `review_status`, none ever does (liveness). Two migrating processes and one that is up and logging are all there is to tell apart. |
| `rate_limit` | 3 threads, limit 2, window 1, clock to 2 | The deque holds at most `limit + threads - 1` hits, and every request is decided (liveness). |
| `admin` | 2 users, 1 password, 2 requests, 2 tokens, lifetime 1, clock to 1, 4 events, 1 officer, 2 key pairs | Acts are justified when they were admitted, sessions end with their credentials, whether an officer can sign is settled when her registration ends. Four events are credentials, a login, and two of a reset, a logout, an act or a second login in any order; the first two are needed for anything to happen. |
| `legacy_voting` | 1 voter with 2 ballots, 2 requests, 1 unit, 1 party, clock to 1; a lock lives one tick, a stored reply the tick it was stored in | A ballot counts once; the tally lags by known ballots only; success means counted; while a voter's state still lets her cast, her ballots in the ledger are of requests that came by the API alone, have yet to move her on, or failed. Two requests are two of the same ballot or of two, by any of the two ways in; locks and replies may expire between any two steps. |
| `legacy_accreditation` | 1 voter, 3 requests, 2 codes, clock to 2 | One registration, and a second accreditation or use of a code only by requests that overlap. Three requests are two that overlap and one that comes later. |

Symmetry is used in runs without liveness only, over sets whose members no property and no
definition tells apart. Deadlock is not checked where a bound lets the modelled system
stop (all tokens issued, all voters voted); it is checked in `writers`, `readers` and
`rate_limit`, where a worker can always go on.

The bounds are all constants: `MaxCheckpoints`, `MaxSheets`, `MaxTokens`, `MaxTime`,
`MaxTrail`, `MaxKeys`, `MaxCodes`, `MaxEntries`, `MaxLegacy`, `MaxIssued`, `MaxLeaves`, `LastTick`,
`Kinds`, and the prototype's `Requests`. Each bounds an action by a conjunct of its guard or a set it ranges over.

## 5. Fairness

Safety runs assume none. The liveness properties need:

- `Transactions!FairSpec`: weak fairness of each worker's own steps. A thread runs on; one
  that waits for the lock has a step enabled all the time, `Begin` when it is free and
  `BusyTimeout` when it is not (`sqlite3.connect(timeout=10)`), so weak fairness is
  enough and no fairness of SQLite's lock is assumed. It includes that the face matcher
  returns or raises: nothing in `verify_face` bounds how long an operator's matcher may
  take, and one that never answers would hold the lock for ever. Clients and crashes need
  not come.
- `Accreditation!FairSpec`: weak fairness of the SMS steps, since `requests.post` has a
  timeout and the loop is bounded by `SMS_RETRIES`.
- `VoterPage!FairSpecPage`: an assumption about a voter and a network, not about code. She
  keeps pressing the panel's main button; the network may lose any request or answer, but
  not every one of the main button's (strong fairness); and a session expires in the end.
  She never has to reload or to resend for `NoDeadPanel`.
- `AuditLog!FairSpec`: weak fairness of starting up, since `docker-compose.yml` restarts
  the server. `StartUpCompletes` further assumes that crashes cease (`CrashesCease`, part
  of the property): a process killed at every start never gets up. It says that every
  process gets up if `result_sheets` has `review_status` and none does if not (section 7).
- `RateLimiter!FairSpecLimiter`: weak fairness of a thread inside `rate_limit`; the interpreter
  gives every runnable thread its turns.

## 6. Proofs

All by TLAPS, for any constants that satisfy the named assumptions (`BallotBoxAssumptions`,
`AccreditationAssumptions`, `VoterAPIAssumptions`, `RateLimiterAssumptions`,
`AdminAuthAssumptions`, `AdministrationAssumptions`, `ResultSheetsAssumptions`,
`TransactionsAssumptions`, `AuditLogAssumptions`, `VoterPageAssumptions`,
`LegacyVotingAssumptions`, `LegacyAccreditationAssumptions`, `MerkleAssumption`: finite voters, threads, units
or parties where they are counted or summed over, natural numbers, and model values outside
the sets they stand beside). TLC evaluates the assumptions in the runs. Every safety
property a run checks, invariant or action property, is also a theorem.

`BallotBoxProofs`:
- `TypeCorrect`.
- `CheckpointsAlwaysHold` and `ReceiptsAlwaysHold`, from `ChainInv`. Receipts are not
  inductive alone: that a *new* block does not share the hash of an old receipt needs
  hashes to be distinct, which follows because a hash commits to exactly as many ballots
  as its block's index (`HashLength`). Checkpoints need `Linked` for the head they sign.
- `LedgerAlwaysMatchesVotes`, from `CountInv`. Enrolling a voter late would change a
  unit's number of marked voters if she had voted before, so `VotedAreRegistered` is proved
  with it. A ballot adds one element to both sets (`FS_AddElement`).
- `ClosedTallyStaysFrozen` (an action property) and `BallotBoxKeepsPromise` (the refinement
  of `OneVote`) rest on the lemma `TallyOfAppend`: one more block adds one to its own cell
  and to no other.

`AccreditationProofs`:
- `TypeCorrect`.
- `AttemptCapHolds`, from `CapInv`: every granted attempt of the last hour is still in the
  table (`RecentKept`; here the truncated cutoff must not be later than the true one), so that
  counting the table counts the hour; tokens are issued in order (`IssuedInOrder`), so a new
  attempt enters no earlier attempt's hour.
- `OnlyNewestSessionHolds` (`NewestInv`), `SessionsEndForTheirOwnReason`, and
  `SessionsAreAlwaysGranted`: nothing gives a session another voter or a longer life.
- `GuessBudgetHolds`, from `GuessInv`: wrong codes are numbered within their session, and
  precede every later grant to the same voter. So the codes of one hour come from one session
  opened before it at most and from those granted within it, whose number the cap bounds; the codes are
  then counted by an injection into pairs of session and number.

`VoterAPIProofs` (the theorems above, of the two components, carried over to the whole):
- `APIImplementsAccreditation`: every step of the API is a step of Accreditation or leaves
  it as it is. The theorems of `AccreditationProofs` come in by `INSTANCE`.
- `APIImplementsBallotBox`: likewise; that the voter of the session that casts is a voter
  is the type invariant of Accreditation.
- `APIKeepsTheBox`: the five properties the run `voter_api` checks of the ballot box.
- `VotesAlwaysNeedLiveAccreditation`: from `OnlyNewestSession` and `SessionsAreGranted` in
  the state before the ballot.

`AdministrationProofs`:
- `AdministrationImplementsAuth` carries what is proved of `AdminAuth` to the whole.
- `EveryActAlwaysJustified` and `SessionsNeverOutliveTheirCredentials`, from `AuthInv`. An
  act says what held when it was admitted, and events are only appended, so it is enough
  that an admission is justified (`JustifiedForGood`). That needs the session in the table
  to rest on a good login (`NoSessionOutlivesItsCredentials`, inductive with
  `LoginLasts` and `CredentialsLast`), and the joined account to be the last one saved
  (`AccountsAreTheLastSaved`, `SessionsHaveAccounts`).
- `TypeCorrect`, and `SigningAlwaysSettled` from `KeysInv` (`KeysAreAccountedFor`): every
  write to `officers` is an INSERT of a new id or leaves the key, and every key file is
  created with `O_EXCL`, so only the key in `register_officer`'s hands can still reach its
  file. `KeysInv` is needed so that no later key is taken for an earlier one: all keys in
  use are among those generated, and the one in hand is in no file.

`VoterAPIProofs`, on both sides of the API:
- `BallotsStayWithTheirCasters`, from `PageInv`. A token reaches the page once, in the
  answer to the call that opened its session (`TokensComeOnce`), and only the page of the
  session's own voter has, or ever had, a token whose code is on its way or was right: the
  code was read from her phone. It is not true of tokens alone. A late answer to a resend
  gives the page of one voter a live session of another, but one that was never verified.
- `BurstAlwaysBounded`, from `BurstInv`, which counts the threads between their test and
  their append together with the deque: a thread that passes the test sees fewer than
  `limit` hits, and at most all the other threads are then on their way to append.
  A stale `popleft` only lowers the sum.

`ResultSheetsProofs`:
- `TypeCorrect`.
- `SignedRootsAlwaysHold`: a submission appends, a review changes a status only, so the
  leaves a checkpoint covers stay the first leaves (`LeavesGrow`, `CheckpointsKeepVerifying`).
- `ArchiveAlwaysVerifies`, from `SheetsInv`: each stored row verified when it was stored,
  and what the verifier asks of a row (its signature under the key of an officer of that
  unit and role, active or not; its place in the chain; its countersignature) is made of
  columns that are written once.
- `FiguresStaySealed`: a sheet is accepted only when its election is no longer PENDING,
  which an election never is again.
- `ResultSheetsKeepPromise`, the refinement of `OneResult`: a unit's outcome is a function
  of the rows alone (`OutcomeOf`), of which UNIQUE leaves one per unit, so that a submission
  and a review each change one cell, and nothing else changes any.

`ResultSheetsProofs`, on the tree. The first four theorems are about the operators, for
sheets that are strings over any set; the others are about the specification.
- `RootFixesSheets`: trees with the same root have the same leaves. By induction over the
  size of slices (`RootsDiffer`): the prefix tells a leaf from a node (`LeafNoNode`), equal
  nodes have equal children (`NodesDiffer`), and equal slices are then split alike because
  they have the same size. This is what lets `ResultSheets` take the sequence of leaves for
  the root.
- `ProofsVerify`: the path cut for a leaf rebuilds the root from it (`PathsVerify`).
- `VerifiedIsASheet`, the converse, of any path of digests, position and size: whatever
  verifies is a sheet of the tree with its own path (`PathsBind`). The claimed size may be
  another than that of the tree, and steer the recursion differently; but each node on the
  way has the children it has, and a path that ends too early or too late would make a leaf
  of a node. With the tree's own size the claimed position splits like the true one.
- `LevelRootIsRoot`: pairing a level and splitting it commute, since the split of `n > 2` is
  twice the split of the `(n + 1) \div 2` hashes one level up (`SplitOfPairs`,
  `PairedRoots`), and as many levels as leaves are enough (`TopOfLevels`).
- `SignedIsPrefix` (`TreeInv`, inductive): what is signed is the root of the first
  `tree_size` sheets, whatever came since. From it and the theorems above follow
  `EveryCoveredSheetProves`, `SignedRootIsThatOfRFC6962` and `PathsBindTheirSheet`. The
  last needs that no other sheet's path is this one cut or made longer: those agree with
  it read from the end, and no two paths of a tree do (`PathsDiffer`, for which the sheets'
  hashes must be distinct).
- Recursion over the data is within reach because it is a function's: `UpTo` is induction
  over `0..N` by sets, each recursive function is shown to be defined by induction over the
  part of its domain on which some function obeys the recursion (`RootsDef`, `ProofsDef`,
  `FromDef`, `LevelsDef`, `DoubledDef`), and only its equations are used afterwards.
  Nothing is assumed of SHA-256 but what the model says by construction: different bytes,
  different digests.

`TransactionsProofs`:
- `TypeCorrect`.
- `TransactionsAreAtomic`, from `WriterInv` and `BoundInv`: whoever is between BEGIN
  IMMEDIATE and the end of its block holds the lock, so the committed tables stand still
  under it and its copy differs from them by exactly the statements it has run (`Held`, one
  clause per label). A COMMIT is then the whole transaction of `BallotBox`, every other
  step leaves the mapped state alone.
- `BallotBoxGuarantees` and `TransactionsKeepThePromise`: the theorems of `BallotBoxProofs`
  by `INSTANCE`, and with them `OneVote` down to single statements.
- `NoReaderRaisesAFalseAlarm` and `PublishedLedgersAgree`, from `ReaderInv`: a snapshot is
  a committed state, and one that shows an election CLOSED has its final blocks.
- `VerdictsAlwaysCounted` and `ReceiptsAlwaysCommitted`, from `FaceInv` and `ReceiptInv`,
  which count a verdict or a receipt still on its way to the client like one that arrived;
  a lost reply only lowers the sum.

`AuditLogProofs`:
- `LogAlwaysVerifies`, `CheckpointsAlwaysCover`, `TypeCorrect`, from `Inv`. The hash of row i
  is the sequence of the first i entries (`Logs`), and entries never change. So rows a
  process read before the loop are stale only where a hash was missing, any two processes
  would write the same hash into a row, and when a process is through its loop every row
  is chained, including those that others appended meanwhile.
- `HistoryIsNeverRewritten`, of every step: no row goes, no entry changes, and a row that
  is chained keeps its hash, although a slower process may UPDATE it again.

`PrototypeProofs`:
- `BallotsAlwaysCountOnce`, from `BoxInv`: the UNIQUE columns alone, whatever was read
  before them. Every entry of the ledger then belongs to one request at most between its two
  transactions.
- `SuccessAlwaysCounted` (`SuccessInv`: nobody has been told of a ballot whose tally is
  outstanding) and `CountedVotersAlwaysMoveOn` (`MoveInv`: past its tally, a request of the
  workflow leaves the voter behind BALLOT_ISSUED unless it fails).
- `TalliesAlwaysFollow`: the unit tallies from `TallyInv`, in which each step moves one
  entry between counted and outstanding; the state tally from lemmas about sums
  (`SumTakesOut`, `SumGrows`). `MapThenSumSet` is recursive, and the induction over finite
  sets they need is proved by sets instead of predicates: `NatInd` says that a set which
  has 0 and the successors of what it has includes `Nat` (by the pigeonhole theorem of
  `FiniteSetTheorems`), `SubsetInduct` that one which has every subset whose proper
  subsets it has includes them all.
- `AlwaysOneAccreditation` and `AcceptedCodesAlwaysLatest`, from `AccInv`. A voter accredited
  and a code used are marks that nothing takes back; a request that goes on has read before
  they were set, so two that both succeed have overlapped.

Model-checked only: the five liveness properties (`EveryVerifyEnds` of `Accreditation`,
`EveryRequestEnds` of `Transactions`, `NoDeadPanel` of `VoterPage`, `StartUpCompletes` of
`AuditLog`, `EveryRequestDecided` of `RateLimiter`): fairness and ENABLED are outside the
prover's reach.

## 7. Observations

Where the code does something else than a document says, or than a reader would guess:

- README.md:227-228 says that result detail is locked while *any* election is OPEN. The
  tally (`results.py:114`) and a sheet's page (`results.py:86`) look at their own election
  only; the export alone waits for all. `SealedUntilClosed` is what the code does
  guarantee: no figure is out before its own election is closed.
- `init_db` runs the schema script before `_migrate`, and the script builds an index on
  `result_sheets.review_status` (`db.py:124`), a column that older databases get from
  `_migrate`. On such a database every start fails with "no such column", although
  `_migrate` is documented (`db.py:178`) to bring older versions up to date. In `AuditLog`
  this is `SchemaFails`, which loops for ever when `review_columns` is false;
  `StartUpCompletes` says that such a database never gets up and that every other does.
- `register_officer` commits the officer's public key and then creates the key file, which
  fails if the file exists: the officer is registered with a key nobody holds, and as her
  id is taken she can only be deactivated. `SigningIsSettled` says when this happens (a
  file in the way, or a command killed between the two) and that it is final.
- `require_role` reads session and role before the handler's transaction, so a request in
  hand is served after a logout, an expiry or a demotion. `EveryActIsJustified` is exactly
  that: good when the request came in.
- A reply lost after COMMIT leaves a voter marked without a receipt; as no table links
  voter and block, nothing can give it to her again. `AcknowledgedIsCommitted` is the half
  that holds.
- A failed SMS still counts against the hourly cap; by intent
  (`tests/test_voter_flow.py:132-133`).
- If a resend is answered while the old code is being checked, the page moves on with a
  token whose code was never checked, and every photo is refused until the session expires
  (`NoDeadPanel` says that she gets through then).
- Sheets may arrive after the close (README.md:171-177), so a sheet's tally, unlike a
  ballot's, is not frozen by it; `OneResult` says what does not change.
- Two processes that migrate at once may both try to add a column; the second fails and
  succeeds at its next start (`StartUpCompletes`).
- The rate limiter can be overrun by as many requests as there are other threads, and a
  thread can meet an emptied deque (`IndexError`, answered 500).
- The prototype reads the chain head before its writing transaction, so two ballots cast at
  once name the same predecessor (`ballot_security.py:176`); it counts two ballots of one
  voter if their requests overlap; it accredits a voter twice, and takes a code twice, if
  the requests overlap; it shuts a voter out for good if the code cannot be issued after
  her session was committed (`api_main.py:143`); and two requests under one idempotency key
  both run. Its properties are stated with these exceptions, which `PrototypeProofs` shows to be the only
  ones.

## 8. Not modelled

- Cryptography and key loading (`signing.py`): library calls, abstracted as above. The
  verifier's checks of the pinned authority key and of malformed JSON go with them.
- How the face check decides (`security.py`, an image classifier or the operator's own
  matcher): its verdicts and exceptions are inputs of `Transactions` and `Accreditation`.
- `config.py`: constants, which are CONSTANTS here, and start-up refusals.
- Of `manage.py` and `tools/results_cli.py`: backup, authority keys, listings, and signing
  on the officer's device, which are file and network I/O of one process.
- Which client a rate limit belongs to (`client_ip` and the proxy headers).
- `admin.js`, `results.js`: rendering of what the API answers.
- Of `legacy/`: `security_hardening.py` and `crypto_engine.py` (blind signatures over RSA
  numbers), `session_manager.py`, `election_engine.py` and `admin_dashboard.py` (a camera
  loop, an in-memory table, a console listing), and the reports, disputes and set-up calls
  of the modelled files, whose state no modelled operation reads.
