------------------------- MODULE LegacyAccreditation -------------------------
(***************************************************************************)
(* Accreditation in the earlier prototype (legacy/): registration,         *)
(* authentication and sessions (auth_module.py), one-time codes            *)
(* (biometric_otp_module.py), and the two orders they are called in, by    *)
(* the API (api_main.py) and by the full flow (security_flow.py).          *)
(*                                                                         *)
(* An operation reads on an open connection and writes in a transaction    *)
(* that begins later, so that each is two steps, a read and a commit.  A   *)
(* request is the list of operations it has still to do; it stops at the   *)
(* first that fails.  A commit may fail with "database is locked", and a   *)
(* worker may die between any two steps.                                   *)
(*                                                                         *)
(* The face check accepts whatever it is given and is left out, and so is  *)
(* the audit row that follows each outcome in a transaction of its own.    *)
(***************************************************************************)
EXTENDS Prototype, Integers, Sequences, FiniteSets

CONSTANTS
  Codes,
  SESSION_TIMEOUT, OTP_EXPIRY,  \* seconds
  MaxCodes                      \* bound: codes issued

Voter == [status : {"REGISTERED", "ACCREDITED"}, has_voted : BOOLEAN]
Session == [voter : Voters, expires_at : Nat, is_active : BOOLEAN]
Otp == [voter : Voters, code : Codes, created_at : Nat, expires_at : Nat, is_used : BOOLEAN]

ASSUME LegacyAccreditationAssumptions ==
  /\ SESSION_TIMEOUT \in Nat /\ OTP_EXPIRY \in Nat /\ MaxTime \in Nat
  /\ None \notin Voter /\ None \notin Session

VARIABLES
  seconds,     \* the clock, in whole seconds, as CURRENT_TIMESTAMP has it
  voters,      \* inec_voters: registration_status and has_voted
  sessions,    \* voter_sessions: the row each request opened
  otps,        \* otp_verification, in order of id
  callers,     \* each request: its voter, its code, what it still has to do
  accepted     \* history: the codes accepted, with what was there when read

accreditationVars == <<seconds, voters, sessions, otps, callers, accepted>>

(* api_main's routes and the flow of security_flow.full_secure_voter_flow. *)
Plans ==
  {<<"register">>, <<"authenticate", "issue">>, <<"issue">>, <<"verify">>,
   <<"register", "authenticate", "issue", "verify">>}

NewCaller == [phase |-> "new"]

InitAccreditation ==
  /\ seconds = 0
  /\ voters = [v \in Voters |-> None]
  /\ sessions = [r \in Requests |-> None]
  /\ otps = << >>
  /\ callers = [r \in Requests |-> NewCaller]
  /\ accepted = {}

-----------------------------------------------------------------------------
(* Around the requests. *)

SecondPasses ==
  /\ seconds < MaxTime
  /\ seconds' = seconds + 1
  /\ UNCHANGED <<voters, sessions, otps, callers, accepted>>

(* voting_engine.cast_vote marks the voter. *)
MarkVoted(v) ==
  /\ voters[v] # None
  /\ voters' = [voters EXCEPT ![v].has_voted = TRUE]
  /\ UNCHANGED <<seconds, sessions, otps, callers, accepted>>

(* validate_session of an expired session, or logout_voter. *)
EndSession(r) ==
  /\ sessions[r] # None
  /\ sessions' = [sessions EXCEPT ![r].is_active = FALSE]
  /\ UNCHANGED <<seconds, voters, otps, callers, accepted>>

-----------------------------------------------------------------------------
(* A request. *)

Reads(r, op) == callers[r].phase = "read" /\ Head(callers[r].plan) = op
Writes(r, op) == callers[r].phase = "write" /\ Head(callers[r].plan) = op

(* On to the next operation, or the request is done. *)
Finish(r) ==
  callers' = [callers EXCEPT
    ![r].plan = Tail(@),
    ![r].phase = IF Len(callers[r].plan) = 1 THEN "success" ELSE "read",
    ![r].done = @ \cup {Head(callers[r].plan)}]
Fail(r) == callers' = [callers EXCEPT ![r].phase = "failed"]
GoOn(r) == callers' = [callers EXCEPT ![r].phase = "write"]

Call(r, v, code, plan) ==
  /\ callers[r] = NewCaller
  /\ callers' = [callers EXCEPT ![r] =
       [phase |-> "read", voter |-> v, code |-> code, plan |-> plan,
        done |-> {}, seen |-> {}, row |-> 0, at |-> 0]]
  /\ UNCHANGED <<seconds, voters, sessions, otps, accepted>>

(* register_voter: the duplicate check. *)
CheckDuplicate(r) ==
  /\ Reads(r, "register")
  /\ IF voters[callers[r].voter] = None THEN GoOn(r) ELSE Fail(r)
  /\ UNCHANGED <<seconds, voters, sessions, otps, accepted>>

(* UNIQUE voter_hash, nin, vin: the INSERT of a second registration raises *)
(* IntegrityError, which is answered as a failure.                         *)
Insertable(v) == voters[v] = None

InsertVoter(r) ==
  LET v == callers[r].voter
  IN /\ Writes(r, "register")
     /\ IF Insertable(v)
          THEN /\ voters' = [voters EXCEPT ![v] =
                    [status |-> "REGISTERED", has_voted |-> FALSE]]
               /\ Finish(r)
          ELSE Fail(r) /\ UNCHANGED voters
     /\ UNCHANGED <<seconds, sessions, otps, accepted>>

SessionsOf(v) == {r \in Requests : sessions[r] # None /\ sessions[r].voter = v}

MayAuthenticate(v) ==
  voters[v] # None /\ ~voters[v].has_voted /\ voters[v].status = "REGISTERED"

(* authenticate_voter: its checks, on one row read at the start.  Nothing  *)
(* ever sets locked_until or is_flagged.                                   *)
CheckVoter(r) ==
  LET v == callers[r].voter
  IN /\ Reads(r, "authenticate")
     /\ IF MayAuthenticate(v)
          THEN callers' = [callers EXCEPT ![r].phase = "write", ![r].seen = SessionsOf(v)]
          ELSE Fail(r)
     /\ UNCHANGED <<seconds, voters, sessions, otps, accepted>>

(* Mutant: the status is left as it was. *)
StaysRegistered(v) == voters[v].status

NewStatus(v) == "ACCREDITED"

OpenSession(r) ==
  LET v == callers[r].voter
  IN /\ Writes(r, "authenticate")
     /\ sessions' = [sessions EXCEPT ![r] =
          [voter |-> v, expires_at |-> seconds + SESSION_TIMEOUT, is_active |-> TRUE]]
     /\ voters' = [voters EXCEPT ![v].status = NewStatus(v)]
     /\ Finish(r)
     /\ UNCHANGED <<seconds, otps, accepted>>

(* issue_otp: UNIQUE(voter_hash, otp_code), so that drawing a code the      *)
(* voter had before raises.                                                 *)
IssueOtp(r, code) ==
  LET v == callers[r].voter
  IN /\ Reads(r, "issue")
     /\ IF \E i \in DOMAIN otps : otps[i].voter = v /\ otps[i].code = code
          THEN Fail(r) /\ UNCHANGED otps
          ELSE /\ Len(otps) < MaxCodes
               /\ otps' = Append(otps, [voter |-> v, code |-> code, created_at |-> seconds,
                    expires_at |-> seconds + OTP_EXPIRY, is_used |-> FALSE])
               /\ Finish(r)
     /\ UNCHANGED <<seconds, voters, sessions, accepted>>

OtpsOf(v) == {i \in DOMAIN otps : otps[i].voter = v}

(* Mutant: no ORDER BY. *)
AnyOf(v) == OtpsOf(v)

(* ORDER BY created_at DESC LIMIT 1: any of those issued in the last second. *)
Latest(v) == {i \in OtpsOf(v) : \A j \in OtpsOf(v) : otps[j].created_at <= otps[i].created_at}

(* verify_otp: an expired code is marked used on the way out. *)
ReadOtp(r) ==
  LET q == callers[r]
  IN /\ Reads(r, "verify")
     /\ \/ /\ OtpsOf(q.voter) = {}
           /\ Fail(r)
           /\ UNCHANGED otps
        \/ \E i \in Latest(q.voter) :
             IF ~otps[i].is_used /\ seconds > otps[i].expires_at
               THEN Fail(r) /\ otps' = [otps EXCEPT ![i].is_used = TRUE]
               ELSE /\ IF ~otps[i].is_used /\ otps[i].code = q.code
                         THEN callers' = [callers EXCEPT ![r].phase = "write",
                                ![r].row = i, ![r].at = Len(otps),
                                ![r].seen = {a \in accepted : a.row = i}]
                         ELSE Fail(r)
                    /\ UNCHANGED otps
     /\ UNCHANGED <<seconds, voters, sessions, accepted>>

Spent(i) == [otps EXCEPT ![i].is_used = TRUE]

UseOtp(r) ==
  LET q == callers[r]
  IN /\ Writes(r, "verify")
     /\ otps' = Spent(q.row)
     /\ accepted' = accepted \cup {[request |-> r, row |-> q.row, issued |-> q.at, before |-> q.seen]}
     /\ Finish(r)
     /\ UNCHANGED <<seconds, voters, sessions>>

(* The worker dies, or its commit fails. *)
BreakOff(r) ==
  /\ callers[r].phase \in {"read", "write"}
  /\ Fail(r)
  /\ UNCHANGED <<seconds, voters, sessions, otps, accepted>>

CallerStep(r) ==
  \/ CheckDuplicate(r) \/ InsertVoter(r)
  \/ CheckVoter(r) \/ OpenSession(r)
  \/ \E code \in Codes : IssueOtp(r, code)
  \/ ReadOtp(r) \/ UseOtp(r)
  \/ BreakOff(r)

NextAccreditation ==
  \/ SecondPasses
  \/ \E v \in Voters : MarkVoted(v)
  \/ \E r \in Requests, v \in Voters, code \in Codes, plan \in Plans : Call(r, v, code, plan)
  \/ \E r \in Requests : CallerStep(r) \/ EndSession(r)

SpecAccreditation == InitAccreditation /\ [][NextAccreditation]_accreditationVars

-----------------------------------------------------------------------------
(* Properties. *)

(* Every variable keeps its type. *)
TypeOKAccreditation ==
  /\ seconds \in 0..MaxTime
  /\ voters \in [Voters -> Voter \cup {None}]
  /\ sessions \in [Requests -> Session \cup {None}]
  /\ \A i \in DOMAIN otps : otps[i] \in Otp
  /\ \A r \in Requests : callers[r].phase \in {"new", "read", "write", "success", "failed"}

Did(r, op) == callers[r] # NewCaller /\ op \in callers[r].done

(* A voter is registered once, however many requests passed the duplicate  *)
(* check, and accredited once: two sessions of hers were opened by requests *)
(* neither of which could see the other's when it read her as registered;   *)
(* once a session has expired, been logged out or been lost with its        *)
(* answer, no later request opens another.                                  *)
OneAccreditation ==
  \A r, s \in Requests :
    r # s /\ callers[r] # NewCaller /\ callers[s] # NewCaller
          /\ callers[r].voter = callers[s].voter =>
      /\ ~(Did(r, "register") /\ Did(s, "register"))
      /\ Did(r, "authenticate") /\ Did(s, "authenticate") => s \notin callers[r].seen

(* A code that is accepted was of the last second a code was issued to the  *)
(* voter in, as far as the request could see, and was not accepted before   *)
(* the request read it: a code is accepted twice only by requests that      *)
(* overlap.                                                                 *)
AcceptedCodesAreLatest ==
  \A a \in accepted :
    /\ a.before = {}
    /\ \A i \in 1..a.issued : otps[i].voter = otps[a.row].voter =>
         otps[i].created_at <= otps[a.row].created_at
=============================================================================
