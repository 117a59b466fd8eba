---------------------------- MODULE Accreditation ----------------------------
(***************************************************************************)
(* How a voter becomes accredited: the register, the hourly cap on         *)
(* attempts, the session and its one-time code, and the face check         *)
(* (main.py verify, verify_otp, verify_face; security.py send_sms).        *)
(*                                                                         *)
(* A handler's transaction is one action: it holds the write lock from its *)
(* first read.  verify is three: its transaction, then the SMS gateway's   *)
(* answers with no lock held, then on failure a second transaction; other  *)
(* requests, the clock and a crash may come in between.  A transaction     *)
(* that raises rolls back everything, the purges included, so a refused    *)
(* request and a face matcher that raises are stuttering steps.            *)
(*                                                                         *)
(* Time is counted in ticks, SECOND of them to a second.  A token is its   *)
(* number in the order of issue.  A one-time code offered to a session is  *)
(* right or wrong: otp_hash binds it to that session's token.              *)
(***************************************************************************)
EXTENDS Integers, Sequences, FiniteSets

CONSTANTS
  Voters, PollingUnits,
  Unregistered,                      \* the unit of a voter not on the register
  NoSession,                         \* no sessions row for a token
  SECOND, HOUR,                      \* ticks
  SESSION_TTL, OTP_TTL,              \* ticks
  OTP_MAX_ATTEMPTS, FACE_MAX_ATTEMPTS,
  MAX_SESSIONS_PER_VOTER_PER_HOUR,
  SMS_RETRIES,                       \* config.sms_settings()["retries"]
  MaxTokens,                         \* bound: how many sessions are opened
  MaxTime                            \* bound: the last tick

Session == [voter : Voters, expires_at : Nat, otp_expires_at : Nat,
            otp_attempts : Nat, otp_verified : BOOLEAN,
            face_attempts : Nat, face_verified : BOOLEAN]

ASSUME AccreditationAssumptions ==
  /\ SECOND \in Nat \ {0} /\ HOUR \in Nat \ {0}
  /\ SESSION_TTL \in Nat \ {0} /\ OTP_TTL \in Nat \ {0}
  /\ OTP_MAX_ATTEMPTS \in Nat /\ FACE_MAX_ATTEMPTS \in Nat
  /\ MAX_SESSIONS_PER_VOTER_PER_HOUR \in Nat /\ SMS_RETRIES \in Nat
  /\ MaxTokens \in Nat /\ MaxTime \in Nat
  /\ Unregistered \notin PollingUnits
  /\ NoSession \notin Session

VARIABLES
  register,        \* voters: the polling unit of each, or Unregistered
  now,             \* now_utc()
  sessions,        \* sessions: the row of each token, or NoSession
  voter_attempts,  \* voter_attempts rows
  sms,             \* per token, how far its verify request has come
  granted,         \* history: every voter_attempts row ever committed
  wrong            \* history: every wrong code taken, in order

vars == <<register, now, sessions, voter_attempts, sms, granted, wrong>>

Tokens == 1..MaxTokens
Attempt == [id : Tokens, voter : Voters, created_at : Nat]
Guess == [token : Tokens, nth : Nat, voter : Voters, at : Nat]

(* "sending": waiting for the gateway.  "failed": SmsDeliveryError raised,  *)
(* the session not yet deleted.  "sent": answered 200, the client has the   *)
(* token.  "refused": answered 503.  "lost": the process died meanwhile.    *)
Request == [state : {"none", "sending", "failed", "sent", "refused", "lost"},
            tries : Nat]

-----------------------------------------------------------------------------
Init ==
  /\ register \in [Voters -> PollingUnits \cup {Unregistered}]
  /\ now = 0
  /\ sessions = [t \in Tokens |-> NoSession]
  /\ voter_attempts = {}
  /\ sms = [t \in Tokens |-> [state |-> "none", tries |-> 0]]
  /\ granted = {}
  /\ wrong = << >>

is_expired(at) == at <= now

(* load_session: the row of a token, when there is one and it is unexpired. *)
load_session(t) == sessions[t] # NoSession /\ ~is_expired(sessions[t].expires_at)

RegisterVoter(v, u) ==
  /\ register[v] = Unregistered
  /\ register' = [register EXCEPT ![v] = u]
  /\ UNCHANGED <<now, sessions, voter_attempts, sms, granted, wrong>>

Tick ==
  /\ now < MaxTime
  /\ now' = now + 1
  /\ UNCHANGED <<register, sessions, voter_attempts, sms, granted, wrong>>

-----------------------------------------------------------------------------
(* main.verify. *)

(* Mutant: now is rounded up, not cut, to whole seconds. *)
RoundedUpCutoff == (now + SECOND - 1) - ((now + SECOND - 1) % SECOND) - HOUR

(* now.replace(microsecond=0) - timedelta(hours=1) *)
Cutoff == (now - (now % SECOND)) - HOUR

(* The rows left by DELETE FROM voter_attempts WHERE created_at <= cutoff. *)
Purged == {a \in voter_attempts : a.created_at > Cutoff}

UnderCap(v) ==
  Cardinality({a \in Purged : a.voter = v}) < MAX_SESSIONS_PER_VOTER_PER_HOUR

NewRow(v) ==
  [voter |-> v, expires_at |-> now + SESSION_TTL, otp_expires_at |-> now + OTP_TTL,
   otp_attempts |-> 0, otp_verified |-> FALSE, face_attempts |-> 0, face_verified |-> FALSE]

(* Mutant: DELETE FROM sessions WHERE voter_id is forgotten. *)
SurvivesRestart(t, v) == load_session(t)

(* The two DELETEs, of expired rows and of the voter's own, keep this one. *)
Survives(t, v) == load_session(t) /\ sessions[t].voter # v

(* The transaction of verify opens session t for v; the SMS comes after it. *)
Verify(t, v) ==
  /\ sms[t].state = "none"
  /\ \A s \in Tokens : s < t => sms[s].state # "none"
  /\ register[v] # Unregistered
  /\ UnderCap(v)
  /\ LET row == [id |-> t, voter |-> v, created_at |-> now]
     IN /\ voter_attempts' = Purged \cup {row}
        /\ granted' = granted \cup {row}
  /\ sessions' = [s \in Tokens |-> IF s = t THEN NewRow(v)
                                   ELSE IF Survives(s, v) THEN sessions[s]
                                   ELSE NoSession]
  /\ sms' = [sms EXCEPT ![t] = [state |-> "sending", tries |-> 0]]
  /\ UNCHANGED <<register, now, wrong>>

(* send_sms: a 2xx answer ends it. *)
GatewayAccepts(t) ==
  /\ sms[t].state = "sending"
  /\ sms' = [sms EXCEPT ![t].state = "sent"]
  /\ UNCHANGED <<register, now, sessions, voter_attempts, granted, wrong>>

(* send_sms: a 5xx, a 429 or a timeout is transient and retried SMS_RETRIES *)
(* times; any other answer ends the loop.                                   *)
Retries(t, transient) == transient /\ sms[t].tries < SMS_RETRIES

(* Mutant: the loop starts over when a transient answer ends it. *)
RetriesForever(t, transient) ==
  /\ sms[t].state = "sending"
  /\ sms' = IF Retries(t, transient) THEN [sms EXCEPT ![t].tries = @ + 1]
             ELSE IF transient THEN [sms EXCEPT ![t].tries = 0]
             ELSE [sms EXCEPT ![t].state = "failed"]
  /\ UNCHANGED <<register, now, sessions, voter_attempts, granted, wrong>>

GatewayFails(t, transient) ==
  /\ sms[t].state = "sending"
  /\ sms' = IF Retries(t, transient) THEN [sms EXCEPT ![t].tries = @ + 1]
             ELSE [sms EXCEPT ![t].state = "failed"]
  /\ UNCHANGED <<register, now, sessions, voter_attempts, granted, wrong>>

(* Mutant: DELETE ... WHERE voter_id in place of token_hash. *)
DeletedOfVoter(t) ==
  {s \in Tokens : \E a \in granted :
     a.id = t /\ sessions[s] # NoSession /\ a.voter = sessions[s].voter}

Deleted(t) == {t}

(* except SmsDeliveryError: DELETE ... WHERE token_hash = th, answer 503. *)
DropSession(t) ==
  /\ sms[t].state = "failed"
  /\ sessions' = [s \in Tokens |-> IF s \in Deleted(t) THEN NoSession ELSE sessions[s]]
  /\ sms' = [sms EXCEPT ![t].state = "refused"]
  /\ UNCHANGED <<register, now, voter_attempts, granted, wrong>>

(* The process dies: what waits for the gateway is gone, the tables stay. *)
Crash ==
  /\ \E t \in Tokens : sms[t].state \in {"sending", "failed"}
  /\ sms' = [t \in Tokens |-> IF sms[t].state \in {"sending", "failed"}
                              THEN [sms[t] EXCEPT !.state = "lost"] ELSE sms[t]]
  /\ UNCHANGED <<register, now, sessions, voter_attempts, granted, wrong>>

-----------------------------------------------------------------------------
(* main.verify_otp. *)

(* A client presents a token only once verify has answered 200. *)
Presents(t) == sms[t].state = "sent" /\ load_session(t)

OtpUsable(t) ==
  /\ sessions[t].otp_attempts < OTP_MAX_ATTEMPTS
  /\ ~is_expired(sessions[t].otp_expires_at)

RightOtp(t) ==
  /\ Presents(t) /\ OtpUsable(t)
  /\ sessions' = [sessions EXCEPT ![t].otp_verified = TRUE]
  /\ UNCHANGED <<register, now, voter_attempts, sms, granted, wrong>>

(* Mutant: the error is raised inside the block, which rolls the count back. *)
RolledBackCount(t) == sessions[t].otp_attempts

(* The error is raised after the block, so that the count is committed. *)
Counted(t) == sessions[t].otp_attempts + 1

WrongOtp(t) ==
  /\ Presents(t) /\ OtpUsable(t)
  /\ sessions' = [sessions EXCEPT ![t].otp_attempts = Counted(t)]
  /\ wrong' = Append(wrong, [token |-> t, nth |-> Counted(t),
                            voter |-> sessions[t].voter, at |-> now])
  /\ UNCHANGED <<register, now, voter_attempts, sms, granted>>

(* main.verify_face: every answer of the matcher counts as an attempt; an  *)
(* exception of the matcher rolls the attempt back.                        *)
FaceUsable(t) ==
  /\ sessions[t].otp_verified
  /\ sessions[t].face_attempts < FACE_MAX_ATTEMPTS

FaceRejected(t) ==
  /\ Presents(t) /\ FaceUsable(t)
  /\ sessions' = [sessions EXCEPT ![t].face_attempts = @ + 1]
  /\ UNCHANGED <<register, now, voter_attempts, sms, granted, wrong>>

FaceMatched(t) ==
  /\ Presents(t) /\ FaceUsable(t)
  /\ sessions' = [sessions EXCEPT ![t].face_attempts = @ + 1, ![t].face_verified = TRUE]
  /\ UNCHANGED <<register, now, voter_attempts, sms, granted, wrong>>

-----------------------------------------------------------------------------
SessionStep(t) == RightOtp(t) \/ WrongOtp(t) \/ FaceRejected(t) \/ FaceMatched(t)

SmsStep(t) ==
  \/ GatewayAccepts(t)
  \/ \E transient \in BOOLEAN : GatewayFails(t, transient)
  \/ DropSession(t)

Next ==
  \/ \E v \in Voters, u \in PollingUnits : RegisterVoter(v, u)
  \/ Tick
  \/ \E t \in Tokens, v \in Voters : Verify(t, v)
  \/ \E t \in Tokens : SmsStep(t)
  \/ Crash
  \/ \E t \in Tokens : SessionStep(t)

Spec == Init /\ [][Next]_vars

(* requests.post has a timeout and the retry loop a bound: the gateway's   *)
(* outcome, and the transaction after a failure, come in the end.          *)
FairSpec == Spec /\ \A t \in Tokens : WF_vars(SmsStep(t))

-----------------------------------------------------------------------------
(* Properties. *)

(* Every variable keeps its type. *)
TypeOK ==
  /\ register \in [Voters -> PollingUnits \cup {Unregistered}]
  /\ now \in Nat
  /\ sessions \in [Tokens -> Session \cup {NoSession}]
  /\ voter_attempts \in SUBSET Attempt
  /\ sms \in [Tokens -> Request]
  /\ granted \in SUBSET Attempt
  /\ wrong \in Seq(Guess)

(* The attempts granted to the voter of a in the hour that ends with a. *)
HourBefore(a) ==
  {b \in granted : b.voter = a.voter /\ b.id <= a.id /\ b.created_at > a.created_at - HOUR}

(* No rolling hour has more accepted verifications of a voter than the cap *)
(* allows, although the table is purged by a cutoff cut to whole seconds,  *)
(* and sessions are replaced, fail and expire in between.                  *)
AttemptCap ==
  \A a \in granted : Cardinality(HourBefore(a)) <= MAX_SESSIONS_PER_VOTER_PER_HOUR

(* The wrong codes the voter's sessions took in the hour that ends with the *)
(* i-th one.                                                                *)
GuessesBefore(i) ==
  {j \in 1..i : wrong[j].voter = wrong[i].voter /\ wrong[j].at > wrong[i].at - HOUR}

(* The cap on attempts and the cap on codes together bound guessing: in    *)
(* any hour a voter's sessions take the wrong codes of at most one session *)
(* opened before it and of those the cap allows within it, however often   *)
(* the client restarts or the process does.                                *)
GuessBudget ==
  \A i \in 1..Len(wrong) :
    Cardinality(GuessesBefore(i))
      <= (MAX_SESSIONS_PER_VOTER_PER_HOUR + 1) * OTP_MAX_ATTEMPTS

(* A row that is left belongs to the voter's latest verification: starting *)
(* a new one replaces the previous live session, and no late SMS failure,  *)
(* restart or purge brings an old one back.                                *)
OnlyNewestSession ==
  \A t \in Tokens : sessions[t] # NoSession =>
    \A a \in granted : a.voter = sessions[t].voter => a.id <= t

(* A session ends for no reason but its own: it has expired, its voter     *)
(* starts again, or its own message could not be sent.  The failure of an  *)
(* older message never ends the session that replaced it.                  *)
SessionEndsForItsOwnReason ==
  [][\A t \in Tokens : sessions[t] # NoSession /\ sessions'[t] = NoSession =>
       \/ is_expired(sessions[t].expires_at)
       \/ sms[t].state = "failed"
       \/ \E a \in granted' \ granted : a.voter = sessions[t].voter]_vars

(* Every verify request is answered, or dies with the process. *)
EveryVerifyEnds ==
  \A t \in Tokens : sms[t].state = "sending" ~> sms[t].state \in {"sent", "refused", "lost"}
=============================================================================
