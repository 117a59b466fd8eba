------------------------------ MODULE VoterAPI ------------------------------
(***************************************************************************)
(* The voter API as one system: accreditation and the ballot box share the *)
(* register and one database, and meet in main.cast_ballot, which reads    *)
(* the session and records the ballot in one transaction.                  *)
(***************************************************************************)
EXTENDS BallotBox

CONSTANTS
  NoSession, SECOND, HOUR, SESSION_TTL, OTP_TTL, OTP_MAX_ATTEMPTS, FACE_MAX_ATTEMPTS,
  MAX_SESSIONS_PER_VOTER_PER_HOUR, SMS_RETRIES,
  MaxTokens, MaxTime   \* bounds

VARIABLES now, sessions, voter_attempts, sms, granted, wrong

(* Accreditation, over the register it shares with the ballot box. *)
Acc == INSTANCE Accreditation

ASSUME VoterAPIAssumptions ==
  /\ SECOND \in Nat \ {0} /\ HOUR \in Nat \ {0}
  /\ SESSION_TTL \in Nat \ {0} /\ OTP_TTL \in Nat \ {0}
  /\ OTP_MAX_ATTEMPTS \in Nat /\ FACE_MAX_ATTEMPTS \in Nat
  /\ MAX_SESSIONS_PER_VOTER_PER_HOUR \in Nat /\ SMS_RETRIES \in Nat
  /\ MaxTokens \in Nat /\ MaxTime \in Nat
  /\ NoSession \notin Acc!Session

accreditation == <<now, sessions, voter_attempts, sms, granted, wrong>>
box == <<status, votes_cast, ledger, ledger_checkpoints, receipts>>
apiVars == <<register, accreditation, box>>

InitAPI == Acc!Init /\ Init

(* if not (s["otp_verified"] and s["face_verified"]): 403 *)
Accredited(t) == sessions[t].otp_verified /\ sessions[t].face_verified

(* Mutant: the session's expiry is not checked. *)
MayCastExpired(t) == sms[t].state = "sent" /\ sessions[t] # NoSession /\ Accredited(t)

MayCast(t) == Acc!Presents(t) /\ Accredited(t)

(* main.cast_ballot: the voter is the session's, never the client's word.  *)
(* The session stays live and may be used in the other elections.          *)
CastBallot(t, e, p) ==
  /\ MayCast(t)
  /\ RecordBallot(sessions[t].voter, e, p)
  /\ UNCHANGED accreditation

(* admin.register_voter, seen by both components. *)
Enrol(v, u) == Acc!RegisterVoter(v, u) /\ RegisterVoter(v, u)

AccreditationStep ==
  /\ \/ Acc!Tick
     \/ \E t \in Acc!Tokens, v \in Voters : Acc!Verify(t, v)
     \/ \E t \in Acc!Tokens : Acc!SmsStep(t) \/ Acc!SessionStep(t)
     \/ Acc!Crash
  /\ UNCHANGED box

AdminStep ==
  /\ \/ \E e \in Elections : OpenElection(e) \/ CloseElection(e)
     \/ SignCheckpoint
  /\ UNCHANGED accreditation

NextAPI ==
  \/ \E v \in Voters, u \in PollingUnits : Enrol(v, u)
  \/ AccreditationStep
  \/ AdminStep
  \/ \E t \in Acc!Tokens, e \in Elections, p \in Parties : CastBallot(t, e, p)

SpecAPI == InitAPI /\ [][NextAPI]_apiVars

-----------------------------------------------------------------------------
(* Properties: those of BallotBox, which every client of the whole API      *)
(* relies on, and what its ballots have to do with accreditation.           *)

(* The latest verification granted to v was granted less than SESSION_TTL  *)
(* ago, its code reached the gateway, and its session is accredited.       *)
BackedByLatestVerification(v) ==
  \E a \in granted :
    /\ a.voter = v
    /\ \A b \in granted : b.voter = v => b.id <= a.id
    /\ now - a.created_at < SESSION_TTL
    /\ sms[a.id].state = "sent"
    /\ sessions[a.id] # NoSession /\ Accredited(a.id)

(* Every vote is cast by a live accreditation of the voter it is recorded  *)
(* for: by the newest session granted to her, whose code reached the       *)
(* gateway, within its lifetime.  A session that was replaced, has expired *)
(* or whose SMS failed never casts a ballot.                               *)
VotesNeedLiveAccreditation ==
  [][\A v \in Voters, e \in Elections :
       <<v, e>> \in votes_cast' \ votes_cast => BackedByLatestVerification(v)]_apiVars
=============================================================================
