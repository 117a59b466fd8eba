------------------------- MODULE AccreditationProofs -------------------------
(***************************************************************************)
(* What accreditation guarantees for every register, every length of the   *)
(* hour, the second and the lifetimes, every cap, and any number of        *)
(* sessions, retries and crashes.                                          *)
(***************************************************************************)
EXTENDS Accreditation, FiniteSetTheorems, TLAPS

(* Cutting now to whole seconds moves the cutoff back, never forward: the  *)
(* purge keeps every attempt that is less than an hour old.                *)
LEMMA CutoffIsEarly ==
  ASSUME now \in Nat
  PROVE  Cutoff \in Int /\ Cutoff <= now - HOUR
<1>1. now % SECOND \in 0..SECOND-1  BY AccreditationAssumptions
<1> QED  BY <1>1, AccreditationAssumptions DEF Cutoff

(* The row verify opens is a session. *)
LEMMA NewRowType ==
  ASSUME TypeOK, NEW v \in Voters
  PROVE  NewRow(v) \in Session /\ NewRow(v) # NoSession
<1>1. NewRow(v) \in Session
  BY AccreditationAssumptions DEF TypeOK, NewRow, Session
<1> QED  BY <1>1, AccreditationAssumptions

(* Type correctness: whatever the endpoints, the gateway, the clock and    *)
(* crashes do, every row stays a row of its table.                         *)
THEOREM TypeCorrect == Spec => []TypeOK
<1>1. Init => TypeOK
  BY DEF Init, TypeOK, Request
<1>2. TypeOK /\ [Next]_vars => TypeOK'
  <2> SUFFICES ASSUME TypeOK, [Next]_vars PROVE TypeOK'  OBVIOUS
  <2>1. ASSUME NEW v \in Voters, NEW u \in PollingUnits, RegisterVoter(v, u) PROVE TypeOK'
    BY <2>1 DEF RegisterVoter, TypeOK
  <2>2. ASSUME Tick PROVE TypeOK'
    BY <2>2 DEF Tick, TypeOK
  <2>3. ASSUME NEW t \in Tokens, NEW v \in Voters, Verify(t, v) PROVE TypeOK'
    <3>1. [id |-> t, voter |-> v, created_at |-> now] \in Attempt  BY DEF TypeOK, Attempt
    <3>2. voter_attempts' \in SUBSET Attempt /\ granted' \in SUBSET Attempt
      BY <2>3, <3>1 DEF Verify, Purged, TypeOK
    <3>3. sessions' \in [Tokens -> Session \cup {NoSession}]
      BY <2>3, NewRowType DEF Verify, TypeOK
    <3>4. sms' \in [Tokens -> Request]  BY <2>3 DEF Verify, TypeOK, Request
    <3> QED  BY <2>3, <3>2, <3>3, <3>4 DEF Verify, TypeOK
  <2>4. ASSUME NEW t \in Tokens, SmsStep(t) PROVE TypeOK'
    <3>1. CASE GatewayAccepts(t)  BY <3>1 DEF GatewayAccepts, TypeOK, Request
    <3>2. ASSUME NEW transient \in BOOLEAN, GatewayFails(t, transient) PROVE TypeOK'
      BY <3>2 DEF GatewayFails, TypeOK, Request
    <3>3. CASE DropSession(t)  BY <3>3 DEF DropSession, TypeOK, Request
    <3> QED  BY <2>4, <3>1, <3>2, <3>3 DEF SmsStep
  <2>5. ASSUME Crash PROVE TypeOK'
    BY <2>5 DEF Crash, TypeOK, Request
  <2>6. ASSUME NEW t \in Tokens, RightOtp(t) PROVE TypeOK'
    BY <2>6 DEF RightOtp, Presents, load_session, TypeOK, Session
  <2>7. ASSUME NEW t \in Tokens, WrongOtp(t) PROVE TypeOK'
    <3>1. sessions[t] \in Session  BY <2>7 DEF WrongOtp, Presents, load_session, TypeOK
    <3>2. Counted(t) \in Nat  BY <3>1 DEF Counted, Session
    <3>3. sessions' \in [Tokens -> Session \cup {NoSession}]
      BY <2>7, <3>1, <3>2 DEF WrongOtp, TypeOK, Session
    <3>4. wrong' \in Seq(Guess)  BY <2>7, <3>1, <3>2 DEF WrongOtp, TypeOK, Session, Guess
    <3> QED  BY <2>7, <3>3, <3>4 DEF WrongOtp, TypeOK
  <2>8. ASSUME NEW t \in Tokens, FaceRejected(t) \/ FaceMatched(t) PROVE TypeOK'
    <3>1. sessions[t] \in Session
      BY <2>8 DEF FaceRejected, FaceMatched, Presents, load_session, TypeOK
    <3>2. sessions' \in [Tokens -> Session \cup {NoSession}]
      BY <2>8, <3>1 DEF FaceRejected, FaceMatched, TypeOK, Session
    <3> QED  BY <2>8, <3>2 DEF FaceRejected, FaceMatched, TypeOK
  <2>9. CASE UNCHANGED vars  BY <2>9 DEF vars, TypeOK
  <2> QED  BY <2>1, <2>2, <2>3, <2>4, <2>5, <2>6, <2>7, <2>8, <2>9 DEF Next, SessionStep
<1> QED  BY <1>1, <1>2, PTL DEF Spec

-----------------------------------------------------------------------------
(* The hourly cap.  The table may lose rows that are an hour old, so the   *)
(* proof keeps track of what it still holds, and of the order of tokens.   *)

LEMMA AddAtMostOne ==
  ASSUME NEW S, NEW x, IsFiniteSet(S)
  PROVE  IsFiniteSet(S \cup {x}) /\ Cardinality(S \cup {x}) <= Cardinality(S) + 1
<1>1. Cardinality(S) \in Nat  BY FS_CardinalityType
<1>2. /\ IsFiniteSet(S \cup {x})
      /\ Cardinality(S \cup {x}) = IF x \in S THEN Cardinality(S) ELSE Cardinality(S) + 1
  BY FS_AddElement
<1> QED  BY <1>1, <1>2

(* Every attempt of the last hour is still in the table, and nothing else   *)
(* ever entered it.                                                         *)
RecentKept ==
  /\ voter_attempts \subseteq granted
  /\ \A a \in granted : a.created_at > now - HOUR => a \in voter_attempts

(* Tokens are issued in order, and every attempt has had its token issued. *)
IssuedInOrder ==
  /\ \A a \in granted : sms[a.id].state # "none"
  /\ \A s, t \in Tokens : s < t /\ sms[t].state # "none" => sms[s].state # "none"

CapInv ==
  /\ TypeOK
  /\ IsFiniteSet(granted)
  /\ RecentKept
  /\ IssuedInOrder
  /\ AttemptCap

(* A token being issued is newer than every attempt on record. *)
LEMMA FreshToken ==
  ASSUME TypeOK, IssuedInOrder, NEW t \in Tokens, NEW v \in Voters, Verify(t, v)
  PROVE  \A a \in granted : a.id < t
<1> SUFFICES ASSUME NEW a \in granted PROVE a.id < t  OBVIOUS
<1>1. a.id \in Tokens /\ sms[a.id].state # "none" /\ sms[t].state = "none"
  BY DEF TypeOK, Attempt, IssuedInOrder, Verify
<1> QED  BY <1>1, AccreditationAssumptions DEF IssuedInOrder, Tokens

(* Steps other than Verify and Tick touch neither attempts nor the clock. *)
LEMMA QuietKeepsCap ==
  ASSUME CapInv, UNCHANGED <<now, voter_attempts, granted>>, TypeOK',
         \A t \in Tokens : sms'[t].state = "none" <=> sms[t].state = "none"
  PROVE  CapInv'
<1>1. \A a \in granted : a.id \in Tokens  BY DEF CapInv, TypeOK, Attempt
<1> QED  BY <1>1 DEF CapInv, RecentKept, IssuedInOrder, AttemptCap, HourBefore

LEMMA VerifyKeepsCap ==
  ASSUME CapInv, TypeOK', NEW t \in Tokens, NEW v \in Voters, Verify(t, v)
  PROVE  CapInv'
<1> DEFINE row == [id |-> t, voter |-> v, created_at |-> now]
           mine == {a \in Purged : a.voter = v}
           CAP == MAX_SESSIONS_PER_VOTER_PER_HOUR
<1>1. /\ granted' = granted \cup {row} /\ voter_attempts' = Purged \cup {row}
      /\ now' = now /\ now \in Nat
      /\ \A a \in granted : a.id \in Tokens /\ a.created_at \in Nat
      /\ row.id = t /\ row.voter = v /\ row.created_at = now
  BY DEF Verify, CapInv, TypeOK, Attempt
<1>2. \A a \in granted : a.id < t  BY FreshToken DEF CapInv
<1>3. IsFiniteSet(granted')  BY <1>1, FS_AddElement DEF CapInv
<1>4. Cutoff \in Int /\ Cutoff <= now - HOUR  BY <1>1, CutoffIsEarly
<1>5. RecentKept'
  <2>1. ASSUME NEW a \in granted, a.created_at > now - HOUR PROVE a \in Purged
    <3>1. a \in voter_attempts  BY <2>1 DEF CapInv, RecentKept
    <3>2. a.created_at > Cutoff
      BY <1>1, <1>4, <2>1, AccreditationAssumptions
    <3> QED  BY <3>1, <3>2 DEF Purged
  <2>2. voter_attempts' \subseteq granted'  BY <1>1 DEF Purged, CapInv, RecentKept
  <2>3. ASSUME NEW a \in granted', a.created_at > now' - HOUR PROVE a \in voter_attempts'
    BY <1>1, <2>1, <2>3
  <2> QED  BY <2>2, <2>3 DEF RecentKept
<1>6. IssuedInOrder'
  <2>1. \A s \in Tokens : sms'[s].state # "none" <=> (s = t \/ sms[s].state # "none")
    BY DEF Verify, CapInv, TypeOK
  <2>2. \A s \in Tokens : s < t => sms[s].state # "none"  BY DEF Verify
  <2> QED  BY <1>1, <2>1, <2>2 DEF CapInv, IssuedInOrder
<1>7. AttemptCap'
  <2> SUFFICES ASSUME NEW a \in granted' PROVE Cardinality(HourBefore(a)') <= CAP
    BY DEF AttemptCap
  <2>1. CASE a \in granted
    <3>1. HourBefore(a)' = HourBefore(a)  BY <1>1, <1>2, <2>1 DEF HourBefore, Tokens
    <3> QED  BY <2>1, <3>1 DEF CapInv, AttemptCap
  <2>2. CASE a = row
    <3>1. ASSUME NEW b \in HourBefore(a)' PROVE b \in mine \cup {row}
      <4>1. CASE b = row  BY <4>1
      <4>2. CASE b \in granted
        <5>1. b.voter = v /\ b.created_at > now - HOUR
          BY <1>1, <2>2, <3>1 DEF HourBefore
        <5>2. b \in voter_attempts  BY <4>2, <5>1 DEF CapInv, RecentKept
        <5>3. b.created_at > Cutoff
          BY <1>1, <1>4, <4>2, <5>1, AccreditationAssumptions
        <5> QED  BY <5>1, <5>2, <5>3 DEF Purged
      <4> QED  BY <1>1, <3>1, <4>1, <4>2 DEF HourBefore
    <3>2. IsFiniteSet(mine) /\ Cardinality(mine) \in Nat
      <4>1. mine \subseteq granted  BY DEF Purged, CapInv, RecentKept
      <4> QED  BY <4>1, FS_Subset, FS_CardinalityType DEF CapInv
    <3>3. Cardinality(mine) < CAP  BY DEF Verify, UnderCap
    <3>4. /\ IsFiniteSet(mine \cup {row})
          /\ Cardinality(mine \cup {row}) <= Cardinality(mine) + 1
      BY <3>2, AddAtMostOne
    <3>5. HourBefore(a)' \subseteq mine \cup {row}  BY <3>1
    <3>6. /\ Cardinality(HourBefore(a)') <= Cardinality(mine \cup {row})
          /\ IsFiniteSet(HourBefore(a)')
      BY <3>4, <3>5, FS_Subset
    <3>7. Cardinality(HourBefore(a)') \in Nat /\ Cardinality(mine \cup {row}) \in Nat
      BY <3>4, <3>6, FS_CardinalityType
    <3> QED  BY <3>2, <3>3, <3>4, <3>6, <3>7, AccreditationAssumptions
  <2> QED  BY <1>1, <2>1, <2>2
<1> QED  BY <1>3, <1>5, <1>6, <1>7 DEF CapInv

LEMMA CapInvHolds == Spec => []CapInv
<1>1. Init => CapInv
  <2> SUFFICES ASSUME Init PROVE CapInv  OBVIOUS
  <2>1. TypeOK  BY DEF Init, TypeOK, Request
  <2>2. granted = {} /\ voter_attempts = {} /\ \A t \in Tokens : sms[t].state = "none"
    BY DEF Init
  <2> QED
    BY <2>1, <2>2, FS_EmptySet DEF CapInv, RecentKept, IssuedInOrder, AttemptCap
<1>2. CapInv /\ TypeOK' /\ [Next]_vars => CapInv'
  <2> SUFFICES ASSUME CapInv, TypeOK', [Next]_vars PROVE CapInv'  OBVIOUS
  <2>1. ASSUME NEW t \in Tokens, NEW v \in Voters, Verify(t, v) PROVE CapInv'
    BY <2>1, VerifyKeepsCap
  <2>2. ASSUME Tick PROVE CapInv'
    <3>1. RecentKept'
      BY <2>2, AccreditationAssumptions
         DEF Tick, CapInv, TypeOK, Attempt, RecentKept
    <3> QED  BY <2>2, <3>1 DEF Tick, CapInv, IssuedInOrder, AttemptCap, HourBefore
  <2>3. ASSUME NEW t \in Tokens, SmsStep(t) PROVE CapInv'
    <3>1. UNCHANGED <<now, voter_attempts, granted>>
      BY <2>3 DEF SmsStep, GatewayAccepts, GatewayFails, DropSession
    <3>2. \A s \in Tokens : sms'[s].state = "none" <=> sms[s].state = "none"
      <4>1. CASE GatewayAccepts(t)
        BY <4>1 DEF GatewayAccepts, CapInv, TypeOK, Request
      <4>2. ASSUME NEW transient \in BOOLEAN, GatewayFails(t, transient)
            PROVE  \A s \in Tokens : sms'[s].state = "none" <=> sms[s].state = "none"
        <5>1. CASE Retries(t, transient)
          BY <4>2, <5>1 DEF GatewayFails, CapInv, TypeOK, Request
        <5>2. CASE ~Retries(t, transient)
          BY <4>2, <5>2 DEF GatewayFails, CapInv, TypeOK, Request
        <5> QED  BY <5>1, <5>2
      <4>3. CASE DropSession(t)
        BY <4>3 DEF DropSession, CapInv, TypeOK, Request
      <4> QED  BY <2>3, <4>1, <4>2, <4>3 DEF SmsStep
    <3> QED  BY <3>1, <3>2, QuietKeepsCap
  <2>4. ASSUME Crash PROVE CapInv'
    <3>1. \A s \in Tokens : sms'[s].state = "none" <=> sms[s].state = "none"
      BY <2>4 DEF Crash, CapInv, TypeOK, Request
    <3> QED  BY <2>4, <3>1, QuietKeepsCap DEF Crash
  <2>5. ASSUME UNCHANGED <<now, voter_attempts, granted, sms>> PROVE CapInv'
    BY <2>5, QuietKeepsCap
  <2> QED  BY <2>1, <2>2, <2>3, <2>4, <2>5
           DEF Next, RegisterVoter, SessionStep, RightOtp, WrongOtp, FaceRejected,
               FaceMatched, vars
<1> QED  BY <1>1, <1>2, TypeCorrect, PTL DEF Spec

(* The cap on verifications holds of every rolling hour, not of the hours  *)
(* the clock happens to cut: for any cap, any length of hour and second,   *)
(* and any interleaving of voters, gateway answers and crashes.            *)
THEOREM AttemptCapHolds == Spec => []AttemptCap
<1>1. CapInv => AttemptCap  BY DEF CapInv
<1> QED  BY <1>1, CapInvHolds, PTL

-----------------------------------------------------------------------------
(* Sessions. *)

(* Codes and faces update the row of their own session and keep its voter  *)
(* and its lifetime.                                                       *)
LEMMA SessionStepKeepsVoter ==
  ASSUME TypeOK, NEW t \in Tokens, SessionStep(t), sessions[t] \in Session
  PROVE  /\ \A s \in Tokens : s # t => sessions'[s] = sessions[s]
         /\ sessions'[t] \in Session
         /\ sessions'[t].voter = sessions[t].voter
         /\ sessions'[t].expires_at = sessions[t].expires_at
<1>1. CASE RightOtp(t)  BY <1>1 DEF RightOtp, TypeOK, Session
<1>2. CASE WrongOtp(t)
  <2>1. Counted(t) \in Nat  BY DEF Counted, Session
  <2> QED  BY <1>2, <2>1 DEF WrongOtp, TypeOK, Session
<1>3. CASE FaceRejected(t)  BY <1>3 DEF FaceRejected, TypeOK, Session
<1>4. CASE FaceMatched(t)
  <2> DEFINE counted == [sessions[t] EXCEPT !.face_attempts = @ + 1]
             matched == [counted EXCEPT !.face_verified = TRUE]
  <2>1. /\ sessions'[t] = matched
        /\ \A s \in Tokens : s # t => sessions'[s] = sessions[s]
    BY <1>4 DEF FaceMatched, TypeOK
  <2>2. /\ counted \in Session /\ counted.voter = sessions[t].voter
        /\ counted.expires_at = sessions[t].expires_at
    BY DEF Session
  <2>3. /\ matched \in Session /\ matched.voter = counted.voter
        /\ matched.expires_at = counted.expires_at
    BY <2>2 DEF Session
  <2> QED  BY <2>1, <2>2, <2>3
<1> QED  BY <1>1, <1>2, <1>3, <1>4 DEF SessionStep

(* Only a wrong code changes the count of codes. *)
LEMMA OnlyWrongOtpCounts ==
  ASSUME TypeOK, NEW t \in Tokens, sessions[t] \in Session,
         RightOtp(t) \/ FaceRejected(t) \/ FaceMatched(t)
  PROVE  sessions'[t].otp_attempts = sessions[t].otp_attempts
<1>1. CASE RightOtp(t)  BY <1>1 DEF RightOtp, TypeOK, Session
<1>2. CASE FaceRejected(t)  BY <1>2 DEF FaceRejected, TypeOK, Session
<1>3. CASE FaceMatched(t)
  <2> DEFINE counted == [sessions[t] EXCEPT !.face_attempts = @ + 1]
             matched == [counted EXCEPT !.face_verified = TRUE]
  <2>1. sessions'[t] = matched  BY <1>3 DEF FaceMatched, TypeOK
  <2>2. counted \in Session /\ counted.otp_attempts = sessions[t].otp_attempts  BY DEF Session
  <2>3. matched.otp_attempts = counted.otp_attempts  BY <2>2 DEF Session
  <2> QED  BY <2>1, <2>2, <2>3
<1> QED  BY <1>1, <1>2, <1>3

NewestInv == CapInv /\ OnlyNewestSession

LEMMA NewestInvHolds == Spec => []NewestInv
<1>1. Init => OnlyNewestSession
  BY DEF Init, OnlyNewestSession
<1>2. OnlyNewestSession /\ CapInv /\ [Next]_vars => OnlyNewestSession'
  <2> SUFFICES ASSUME OnlyNewestSession, CapInv, [Next]_vars PROVE OnlyNewestSession'
    OBVIOUS
  <2>1. ASSUME NEW t \in Tokens, NEW v \in Voters, Verify(t, v) PROVE OnlyNewestSession'
    <3> SUFFICES ASSUME NEW s \in Tokens, sessions'[s] # NoSession,
                        NEW a \in granted', a.voter = sessions'[s].voter
                 PROVE  a.id <= s
      BY DEF OnlyNewestSession
    <3>1. \A b \in granted : b.id < t  BY <2>1, FreshToken DEF CapInv
    <3>2. \/ a \in granted
          \/ a = [id |-> t, voter |-> v, created_at |-> now]
      BY <2>1 DEF Verify
    <3>3. CASE s = t
      BY <3>1, <3>2, <3>3 DEF CapInv, TypeOK, Attempt, Tokens
    <3>4. CASE s # t
      <4>1. sessions'[s] = sessions[s] /\ sessions[s] # NoSession /\ sessions[s].voter # v
        BY <2>1, <3>4 DEF Verify, Survives
      <4>2. a \in granted  BY <3>2, <4>1
      <4> QED  BY <4>1, <4>2 DEF OnlyNewestSession
    <3> QED  BY <3>3, <3>4
  <2>2. ASSUME NEW t \in Tokens, SmsStep(t) PROVE OnlyNewestSession'
    BY <2>2 DEF SmsStep, GatewayAccepts, GatewayFails, DropSession, OnlyNewestSession
  <2>3. ASSUME NEW t \in Tokens, SessionStep(t) PROVE OnlyNewestSession'
    <3>1. sessions[t] # NoSession /\ sessions[t] \in Session
      BY <2>3 DEF SessionStep, RightOtp, WrongOtp, FaceRejected, FaceMatched, Presents,
                  load_session, CapInv, TypeOK
    <3>2. ASSUME NEW s \in Tokens, sessions'[s] # NoSession
          PROVE  sessions[s] # NoSession /\ sessions'[s].voter = sessions[s].voter
      BY <2>3, <3>1, <3>2, SessionStepKeepsVoter DEF CapInv
    <3>3. granted' = granted
      BY <2>3 DEF SessionStep, RightOtp, WrongOtp, FaceRejected, FaceMatched
    <3> QED  BY <3>2, <3>3 DEF OnlyNewestSession
  <2>4. ASSUME UNCHANGED <<sessions, granted>> PROVE OnlyNewestSession'
    BY <2>4 DEF OnlyNewestSession
  <2> QED  BY <2>1, <2>2, <2>3, <2>4 DEF Next, RegisterVoter, Tick, Crash, vars
<1> QED  BY <1>1, <1>2, CapInvHolds, PTL DEF Spec, NewestInv

(* A voter never has two live sessions, and the one she has is of her      *)
(* latest verification.                                                    *)
THEOREM OnlyNewestSessionHolds == Spec => []OnlyNewestSession
<1>1. NewestInv => OnlyNewestSession  BY DEF NewestInv
<1> QED  BY <1>1, NewestInvHolds, PTL

(* No session is ever ended by somebody else's request or by the outcome   *)
(* of another message.                                                     *)
THEOREM SessionsEndForTheirOwnReason == Spec => SessionEndsForItsOwnReason
<1> DEFINE Ends ==
      \A t \in Tokens : sessions[t] # NoSession /\ sessions'[t] = NoSession =>
        \/ is_expired(sessions[t].expires_at)
        \/ sms[t].state = "failed"
        \/ \E a \in granted' \ granted : a.voter = sessions[t].voter
<1>1. CapInv /\ [Next]_vars => [Ends]_vars
  <2> SUFFICES ASSUME CapInv, Next PROVE Ends  BY DEF vars
  <2>1. ASSUME NEW t \in Tokens, NEW v \in Voters, Verify(t, v) PROVE Ends
    <3> DEFINE row == [id |-> t, voter |-> v, created_at |-> now]
    <3>1. row \in granted' \ granted /\ row.voter = v
      <4>1. \A a \in granted : a.id < t  BY <2>1, FreshToken DEF CapInv
      <4>2. row \notin granted  BY <4>1 DEF Tokens
      <4> QED  BY <2>1, <4>2 DEF Verify
    <3>2. ASSUME NEW s \in Tokens, sessions[s] # NoSession, sessions'[s] = NoSession
          PROVE  is_expired(sessions[s].expires_at) \/ sessions[s].voter = v
      <4>1. s # t  BY <2>1, <3>2, NewRowType DEF Verify, CapInv, TypeOK
      <4> QED  BY <2>1, <3>2, <4>1 DEF Verify, Survives, load_session, CapInv, TypeOK
    <3> QED  BY <3>1, <3>2
  <2>2. ASSUME NEW t \in Tokens, SmsStep(t) PROVE Ends
    BY <2>2 DEF SmsStep, GatewayAccepts, GatewayFails, DropSession, Deleted
  <2>3. ASSUME NEW t \in Tokens, SessionStep(t) PROVE Ends
    <3>1. sessions[t] \in Session
      BY <2>3 DEF SessionStep, RightOtp, WrongOtp, FaceRejected, FaceMatched, Presents,
                  load_session, CapInv, TypeOK
    <3>2. \A s \in Tokens : sessions'[s] = NoSession => sessions[s] = NoSession
      BY <2>3, <3>1, SessionStepKeepsVoter, AccreditationAssumptions DEF CapInv
    <3> QED  BY <3>2
  <2>4. ASSUME UNCHANGED sessions PROVE Ends
    BY <2>4
  <2> QED  BY <2>1, <2>2, <2>3, <2>4 DEF Next, RegisterVoter, Tick, Crash
<1> QED  BY <1>1, CapInvHolds, PTL DEF Spec, SessionEndsForItsOwnReason

(* Every session on the table was granted, and lives SESSION_TTL from then. *)
SessionsAreGranted ==
  \A t \in Tokens : sessions[t] # NoSession =>
    \E a \in granted : /\ a.id = t /\ a.voter = sessions[t].voter
                       /\ sessions[t].expires_at = a.created_at + SESSION_TTL

(* No step gives a session another voter or another lifetime, whichever    *)
(* codes, faces, failures and crashes it goes through.                     *)
THEOREM SessionsAreAlwaysGranted == Spec => []SessionsAreGranted
<1>1. Init => SessionsAreGranted  BY DEF Init, SessionsAreGranted
<1>2. SessionsAreGranted /\ TypeOK /\ [Next]_vars => SessionsAreGranted'
  <2> SUFFICES ASSUME SessionsAreGranted, TypeOK, [Next]_vars PROVE SessionsAreGranted'
    OBVIOUS
  <2>1. ASSUME NEW t \in Tokens, NEW v \in Voters, Verify(t, v) PROVE SessionsAreGranted'
    <3> DEFINE row == [id |-> t, voter |-> v, created_at |-> now]
    <3> SUFFICES ASSUME NEW s \in Tokens, sessions'[s] # NoSession
                 PROVE  \E a \in granted' :
                          /\ a.id = s /\ a.voter = sessions'[s].voter
                          /\ sessions'[s].expires_at = a.created_at + SESSION_TTL
      BY DEF SessionsAreGranted
    <3>1. row \in granted' /\ granted \subseteq granted'  BY <2>1 DEF Verify
    <3>2. CASE s = t
      <4>1. sessions'[s] = NewRow(v)  BY <2>1, <3>2 DEF Verify
      <4> QED  BY <3>1, <3>2, <4>1 DEF NewRow
    <3>3. CASE s # t
      <4>1. sessions'[s] = sessions[s]  BY <2>1, <3>3 DEF Verify
      <4> QED  BY <3>1, <4>1 DEF SessionsAreGranted
    <3> QED  BY <3>2, <3>3
  <2>2. ASSUME NEW t \in Tokens, SmsStep(t) PROVE SessionsAreGranted'
    BY <2>2 DEF SmsStep, GatewayAccepts, GatewayFails, DropSession, SessionsAreGranted
  <2>3. ASSUME NEW t \in Tokens, SessionStep(t) PROVE SessionsAreGranted'
    <3>1. sessions[t] # NoSession /\ sessions[t] \in Session
      BY <2>3 DEF SessionStep, RightOtp, WrongOtp, FaceRejected, FaceMatched, Presents,
                  load_session, TypeOK
    <3>2. ASSUME NEW s \in Tokens, sessions'[s] # NoSession
          PROVE  /\ sessions[s] # NoSession /\ sessions'[s].voter = sessions[s].voter
                 /\ sessions'[s].expires_at = sessions[s].expires_at
      BY <2>3, <3>1, <3>2, SessionStepKeepsVoter
    <3>3. granted' = granted
      BY <2>3 DEF SessionStep, RightOtp, WrongOtp, FaceRejected, FaceMatched
    <3> QED  BY <3>2, <3>3 DEF SessionsAreGranted
  <2>4. ASSUME UNCHANGED <<sessions, granted>> PROVE SessionsAreGranted'
    BY <2>4 DEF SessionsAreGranted
  <2> QED  BY <2>1, <2>2, <2>3, <2>4 DEF Next, RegisterVoter, Tick, Crash, vars
<1> QED  BY <1>1, <1>2, TypeCorrect, PTL DEF Spec

-----------------------------------------------------------------------------
(* The guess budget.  A wrong code belongs to a granted session, carries   *)
(* its number in that session, and precedes every later grant to the same  *)
(* voter; so the codes of one hour come from at most one session granted   *)
(* before the hour and from those the cap allows within it.                *)

GrantsPast == \A a \in granted : a.created_at <= now

SessionGranted ==
  \A t \in Tokens : sessions[t] # NoSession =>
    /\ \E a \in granted : a.id = t /\ a.voter = sessions[t].voter
    /\ \A j \in 1..Len(wrong) :
         wrong[j].token = t => wrong[j].nth <= sessions[t].otp_attempts

GuessGranted ==
  \A j \in 1..Len(wrong) :
    /\ wrong[j].at <= now
    /\ wrong[j].nth \in 1..OTP_MAX_ATTEMPTS
    /\ \E a \in granted : /\ a.id = wrong[j].token /\ a.voter = wrong[j].voter
                          /\ a.created_at <= wrong[j].at
    /\ \A a \in granted : a.voter = wrong[j].voter /\ a.id > wrong[j].token
                          => a.created_at >= wrong[j].at

GuessesInOrder ==
  \A j, k \in 1..Len(wrong) : j < k =>
    /\ wrong[j].at <= wrong[k].at
    /\ wrong[j].voter = wrong[k].voter => wrong[j].token <= wrong[k].token
    /\ wrong[j].token = wrong[k].token => wrong[j].nth # wrong[k].nth

GuessInv == GrantsPast /\ SessionGranted /\ GuessGranted /\ GuessesInOrder

(* The fields of a wrong code. *)
LEMMA GuessType ==
  ASSUME TypeOK, NEW j \in 1..Len(wrong)
  PROVE  /\ wrong[j].token \in Tokens /\ wrong[j].nth \in Nat
         /\ wrong[j].voter \in Voters /\ wrong[j].at \in Nat
<1>1. wrong \in Seq(Guess)  BY DEF TypeOK
<1>2. wrong[j] \in Guess  BY <1>1
<1> QED  BY <1>2 DEF Guess

(* A step that grants nothing, takes no code and moves no session to other *)
(* hands keeps the facts about guesses; the clock only makes them older.   *)
LEMMA QuietKeepsGuesses ==
  ASSUME TypeOK, TypeOK', GuessInv, UNCHANGED <<granted, wrong>>, now <= now',
         \A t \in Tokens : sessions'[t] # NoSession =>
           /\ sessions[t] # NoSession
           /\ sessions'[t].voter = sessions[t].voter
           /\ sessions'[t].otp_attempts = sessions[t].otp_attempts
  PROVE  GuessInv'
<1>1. GrantsPast'
  BY DEF GuessInv, GrantsPast, TypeOK, Attempt
<1>2. SessionGranted'
  BY DEF GuessInv, SessionGranted
<1>3. GuessGranted'
  <2> SUFFICES ASSUME NEW j \in 1..Len(wrong), GuessGranted
               PROVE  wrong[j].at <= now'
    BY DEF GuessInv, GuessGranted
  <2>1. wrong[j].at \in Nat /\ wrong[j].at <= now  BY GuessType DEF GuessGranted
  <2>2. now \in Nat /\ now' \in Nat  BY DEF TypeOK
  <2> QED  BY <2>1, <2>2
<1>4. GuessesInOrder'
  BY DEF GuessInv, GuessesInOrder
<1> QED  BY <1>1, <1>2, <1>3, <1>4 DEF GuessInv

LEMMA VerifyKeepsGuesses ==
  ASSUME NewestInv, GuessInv, TypeOK',
         NEW t \in Tokens, NEW v \in Voters, Verify(t, v)
  PROVE  GuessInv'
<1> DEFINE row == [id |-> t, voter |-> v, created_at |-> now]
<1>1. /\ granted' = granted \cup {row} /\ now' = now /\ wrong' = wrong
      /\ row.id = t /\ row.voter = v /\ row.created_at = now
      /\ now \in Nat /\ t \in Nat
  BY DEF Verify, NewestInv, CapInv, TypeOK, Tokens
<1>2. \A a \in granted : a.id < t  BY FreshToken DEF NewestInv, CapInv
<1>3. \A j \in 1..Len(wrong) : wrong[j].token < t  BY <1>2 DEF GuessInv, GuessGranted
<1>4. GrantsPast'  BY <1>1 DEF GuessInv, GrantsPast
<1>5. SessionGranted'
  <2> SUFFICES ASSUME NEW s \in Tokens, sessions'[s] # NoSession
               PROVE  /\ \E a \in granted' : a.id = s /\ a.voter = sessions'[s].voter
                      /\ \A j \in 1..Len(wrong') :
                           wrong'[j].token = s => wrong'[j].nth <= sessions'[s].otp_attempts
    BY DEF SessionGranted
  <2>1. CASE s = t
    <3>1. sessions'[s] = NewRow(v) /\ NewRow(v).voter = v
      BY <2>1 DEF Verify, NewRow
    <3>2. row \in granted' /\ row.id = s /\ row.voter = sessions'[s].voter
      BY <1>1, <2>1, <3>1
    <3>3. \A j \in 1..Len(wrong') : wrong'[j].token # s
      <4> TAKE j \in 1..Len(wrong')
      <4>1. j \in 1..Len(wrong) /\ wrong'[j] = wrong[j]  BY <1>1
      <4>2. wrong[j].token < t /\ wrong[j].token \in Nat
        BY <1>3, <4>1, GuessType DEF NewestInv, CapInv, Tokens
      <4> QED  BY <1>1, <2>1, <4>1, <4>2
    <3> QED  BY <3>2, <3>3
  <2>2. CASE s # t
    <3>1. sessions'[s] = sessions[s] /\ sessions[s] # NoSession  BY <2>2 DEF Verify
    <3> QED  BY <1>1, <3>1 DEF GuessInv, SessionGranted
  <2> QED  BY <2>1, <2>2
<1>6. GuessGranted'
  <2> SUFFICES ASSUME NEW j \in 1..Len(wrong)
               PROVE  /\ wrong[j].at <= now
                      /\ wrong[j].nth \in 1..OTP_MAX_ATTEMPTS
                      /\ \E a \in granted' :
                            /\ a.id = wrong[j].token /\ a.voter = wrong[j].voter
                            /\ a.created_at <= wrong[j].at
                      /\ \A a \in granted' :
                            a.voter = wrong[j].voter /\ a.id > wrong[j].token
                              => a.created_at >= wrong[j].at
    BY <1>1 DEF GuessGranted
  <2>1. wrong[j].at <= now /\ wrong[j].nth \in 1..OTP_MAX_ATTEMPTS
    BY DEF GuessInv, GuessGranted
  <2>2. PICK a \in granted : /\ a.id = wrong[j].token /\ a.voter = wrong[j].voter
                            /\ a.created_at <= wrong[j].at
    BY DEF GuessInv, GuessGranted
  <2>3. wrong[j].at \in Nat  BY GuessType DEF NewestInv, CapInv
  <2>4. row.created_at >= wrong[j].at  BY <1>1, <2>1, <2>3
  <2> QED  BY <1>1, <2>1, <2>2, <2>4 DEF GuessInv, GuessGranted
<1>7. GuessesInOrder'  BY <1>1 DEF GuessInv, GuessesInOrder
<1> QED  BY <1>4, <1>5, <1>6, <1>7 DEF GuessInv

LEMMA WrongOtpKeepsGuesses ==
  ASSUME NewestInv, GuessInv, TypeOK', NEW t \in Tokens, WrongOtp(t)
  PROVE  GuessInv'
<1> DEFINE n == Len(wrong)
           s == sessions[t]
           g == [token |-> t, nth |-> Counted(t), voter |-> s.voter, at |-> now]
<1>1. /\ s # NoSession /\ s \in Session /\ t \in Nat /\ now \in Nat
      /\ s.otp_attempts \in Nat /\ Counted(t) = s.otp_attempts + 1
      /\ s.otp_attempts < OTP_MAX_ATTEMPTS
  BY DEF WrongOtp, Presents, load_session, OtpUsable, Counted, NewestInv, CapInv,
         TypeOK, Session, Tokens
<1>2. /\ granted' = granted /\ now' = now /\ wrong' = Append(wrong, g)
      /\ wrong \in Seq(Guess) /\ n \in Nat
  BY DEF WrongOtp, NewestInv, CapInv, TypeOK
<1>3. /\ Len(wrong') = n + 1 /\ wrong'[n + 1] = g
      /\ \A j \in 1..n : wrong'[j] = wrong[j] /\ wrong[j] \in Guess
  BY <1>2
<1>4. PICK a \in granted : a.id = t /\ a.voter = s.voter
  BY <1>1 DEF GuessInv, SessionGranted
<1>5. \A b \in granted : b.voter = s.voter => b.id <= t
  BY <1>1 DEF NewestInv, OnlyNewestSession
<1>6. \A j \in 1..n : wrong[j].token = t => wrong[j].nth <= s.otp_attempts
  BY <1>1 DEF GuessInv, SessionGranted
<1>7. /\ \A r \in Tokens : r # t => sessions'[r] = sessions[r]
      /\ sessions'[t].voter = s.voter /\ sessions'[t].otp_attempts = Counted(t)
  BY <1>1 DEF WrongOtp, NewestInv, CapInv, TypeOK, Session
<1>8. GrantsPast'  BY <1>2 DEF GuessInv, GrantsPast
<1>9. SessionGranted'
  <2> SUFFICES ASSUME NEW r \in Tokens, sessions'[r] # NoSession
               PROVE  /\ \E b \in granted : b.id = r /\ b.voter = sessions'[r].voter
                      /\ \A j \in 1..n + 1 :
                           wrong'[j].token = r => wrong'[j].nth <= sessions'[r].otp_attempts
    BY <1>2, <1>3 DEF SessionGranted
  <2>1. CASE r = t
    <3>1. \A j \in 1..n : wrong[j].nth \in Nat  BY <1>3 DEF Guess
    <3> QED  BY <1>1, <1>2, <1>3, <1>4, <1>6, <1>7, <2>1, <3>1
  <2>2. CASE r # t
    BY <1>2, <1>3, <1>7, <2>2 DEF GuessInv, SessionGranted
  <2> QED  BY <2>1, <2>2
<1>10. GuessGranted'
  <2> SUFFICES ASSUME NEW j \in 1..n + 1
               PROVE  /\ wrong'[j].at <= now
                      /\ wrong'[j].nth \in 1..OTP_MAX_ATTEMPTS
                      /\ \E b \in granted :
                            /\ b.id = wrong'[j].token /\ b.voter = wrong'[j].voter
                            /\ b.created_at <= wrong'[j].at
                      /\ \A b \in granted :
                            b.voter = wrong'[j].voter /\ b.id > wrong'[j].token
                              => b.created_at >= wrong'[j].at
    BY <1>2, <1>3 DEF GuessGranted
  <2>1. CASE j \in 1..n
    BY <1>3, <2>1 DEF GuessInv, GuessGranted
  <2>2. CASE j = n + 1
    <3>1. wrong'[j] = g /\ g.at = now /\ g.nth = Counted(t) /\ g.token = t /\ g.voter = s.voter
      BY <1>3, <2>2
    <3>2. a.created_at <= now  BY DEF GuessInv, GrantsPast
    <3>3. Counted(t) \in 1..OTP_MAX_ATTEMPTS  BY <1>1, AccreditationAssumptions
    <3>4. \A b \in granted : b.id \in Nat  BY DEF NewestInv, CapInv, TypeOK, Attempt, Tokens
    <3>5. \A b \in granted : ~(b.voter = s.voter /\ b.id > t)  BY <1>1, <1>5, <3>4
    <3> QED  BY <1>1, <1>4, <3>1, <3>2, <3>3, <3>5
  <2> QED  BY <1>2, <2>1, <2>2
<1>11. GuessesInOrder'
  <2> SUFFICES ASSUME NEW j \in 1..n + 1, NEW k \in 1..n + 1, j < k
               PROVE  /\ wrong'[j].at <= wrong'[k].at
                      /\ wrong'[j].voter = wrong'[k].voter => wrong'[j].token <= wrong'[k].token
                      /\ wrong'[j].token = wrong'[k].token => wrong'[j].nth # wrong'[k].nth
    BY <1>2, <1>3 DEF GuessesInOrder
  <2>1. CASE k \in 1..n
    <3>1. j \in 1..n  BY <1>2, <2>1
    <3> QED  BY <1>3, <2>1, <3>1 DEF GuessInv, GuessesInOrder
  <2>2. CASE k = n + 1
    <3>1. j \in 1..n /\ wrong'[j] = wrong[j] /\ wrong'[k] = g  BY <1>2, <1>3, <2>2
    <3>2. wrong[j].at <= now  BY <3>1 DEF GuessInv, GuessGranted
    <3>3. wrong[j].voter = s.voter => wrong[j].token <= t
      BY <1>5, <3>1 DEF GuessInv, GuessGranted
    <3>4. wrong[j].token = t => wrong[j].nth # Counted(t)
      <4>1. wrong[j].nth \in Nat  BY <1>3, <3>1 DEF Guess
      <4> QED  BY <1>1, <1>6, <3>1, <4>1
    <3> QED  BY <3>1, <3>2, <3>3, <3>4
  <2> QED  BY <1>2, <2>1, <2>2
<1> QED  BY <1>8, <1>9, <1>10, <1>11 DEF GuessInv

LEMMA GuessInvHolds == Spec => [](NewestInv /\ GuessInv)
<1>1. Init => GuessInv
  <2> SUFFICES ASSUME Init PROVE GuessInv  OBVIOUS
  <2>1. granted = {} /\ Len(wrong) = 0 /\ \A t \in Tokens : sessions[t] = NoSession
    BY DEF Init
  <2> QED
    BY <2>1 DEF GuessInv, GrantsPast, SessionGranted, GuessGranted, GuessesInOrder
<1>2. NewestInv /\ TypeOK' /\ GuessInv /\ [Next]_vars => GuessInv'
  <2> SUFFICES ASSUME NewestInv, TypeOK', GuessInv, [Next]_vars PROVE GuessInv'  OBVIOUS
  <2>1. TypeOK /\ now \in Nat  BY DEF NewestInv, CapInv, TypeOK
  <2>2. ASSUME NEW t \in Tokens, NEW v \in Voters, Verify(t, v) PROVE GuessInv'
    BY <2>2, VerifyKeepsGuesses
  <2>3. ASSUME NEW t \in Tokens, WrongOtp(t) PROVE GuessInv'
    BY <2>3, WrongOtpKeepsGuesses
  <2>4. ASSUME NEW t \in Tokens, RightOtp(t) \/ FaceRejected(t) \/ FaceMatched(t)
        PROVE  GuessInv'
    <3>1. sessions[t] # NoSession /\ sessions[t] \in Session
      BY <2>1, <2>4 DEF RightOtp, FaceRejected, FaceMatched, Presents, load_session, TypeOK
    <3>2. UNCHANGED <<granted, wrong>> /\ now' = now
      BY <2>4 DEF RightOtp, FaceRejected, FaceMatched
    <3>3. /\ \A s \in Tokens : s # t => sessions'[s] = sessions[s]
          /\ sessions'[t].voter = sessions[t].voter
      BY <2>1, <2>4, <3>1, SessionStepKeepsVoter DEF SessionStep
    <3>4. sessions'[t].otp_attempts = sessions[t].otp_attempts
      BY <2>1, <2>4, <3>1, OnlyWrongOtpCounts
    <3> QED  BY <2>1, <3>1, <3>2, <3>3, <3>4, QuietKeepsGuesses
  <2>5. ASSUME NEW t \in Tokens, SmsStep(t) PROVE GuessInv'
    <3>1. UNCHANGED <<granted, wrong, now>>
      BY <2>5 DEF SmsStep, GatewayAccepts, GatewayFails, DropSession
    <3>2. \A s \in Tokens : sessions'[s] # NoSession => sessions'[s] = sessions[s]
      BY <2>5 DEF SmsStep, GatewayAccepts, GatewayFails, DropSession
    <3> QED  BY <2>1, <3>1, <3>2, QuietKeepsGuesses
  <2>6. ASSUME UNCHANGED <<sessions, granted, wrong>>, now <= now' PROVE GuessInv'
    BY <2>1, <2>6, QuietKeepsGuesses
  <2>7. Tick \/ Crash \/ UNCHANGED vars
          \/ (\E v \in Voters, u \in PollingUnits : RegisterVoter(v, u))
        => UNCHANGED <<sessions, granted, wrong>> /\ now <= now'
    BY <2>1 DEF Tick, Crash, RegisterVoter, vars
  <2> QED  BY <2>2, <2>3, <2>4, <2>5, <2>6, <2>7 DEF Next, SessionStep
<1> QED  BY <1>1, <1>2, NewestInvHolds, TypeCorrect, PTL DEF Spec

(* The codes of one hour come from at most one token more than the cap. *)
LEMMA FewSessionsGuess ==
  ASSUME NewestInv, GuessInv, NEW i \in 1..Len(wrong)
  PROVE  \E W : /\ IsFiniteSet(W)
                /\ Cardinality(W) <= MAX_SESSIONS_PER_VOTER_PER_HOUR + 1
                /\ \A j \in GuessesBefore(i) : wrong[j].token \in W
<1> DEFINE v == wrong[i].voter
           start == wrong[i].at - HOUR
           S == GuessesBefore(i)
<1>1. wrong[i].at \in Nat /\ HOUR \in Nat
  BY GuessType, AccreditationAssumptions DEF NewestInv, CapInv
<1>2. PICK g \in granted : g.id = wrong[i].token /\ g.voter = v /\ g.created_at <= wrong[i].at
  BY DEF GuessInv, GuessGranted
<1> DEFINE H == HourBefore(g)
           P == {a.id : a \in H}
           ids == [a \in H |-> a.id]
<1>3. IsFiniteSet(H) /\ Cardinality(H) <= MAX_SESSIONS_PER_VOTER_PER_HOUR
  <2>1. H \subseteq granted /\ IsFiniteSet(granted)  BY DEF HourBefore, NewestInv, CapInv
  <2> QED  BY <1>2, <2>1, FS_Subset DEF NewestInv, CapInv, AttemptCap
<1>4. IsFiniteSet(P) /\ Cardinality(P) <= MAX_SESSIONS_PER_VOTER_PER_HOUR
  <2>1. ids \in Surjection(H, P)  BY DEF Surjection
  <2> HIDE DEF H, P, ids
  <2>2. IsFiniteSet(P) /\ Cardinality(P) <= Cardinality(H)  BY <1>3, <2>1, FS_Surjection
  <2> QED
    BY <1>3, <2>2, FS_CardinalityType, AccreditationAssumptions
<1>5. ASSUME NEW j \in S
      PROVE  /\ j \in 1..Len(wrong) /\ j <= i /\ wrong[j].voter = v /\ wrong[j].at > start
             /\ wrong[j].token \in Nat /\ wrong[j].at \in Nat /\ wrong[j].token <= wrong[i].token
  <2>1. j \in 1..Len(wrong) /\ j <= i /\ wrong[j].voter = v /\ wrong[j].at > start
    BY DEF GuessesBefore
  <2>2. wrong[j].token \in Nat /\ wrong[j].at \in Nat /\ wrong[i].token \in Nat
    BY <2>1, GuessType DEF NewestInv, CapInv, Tokens
  <2>3. j = i \/ j < i  BY <2>1
  <2>4. wrong[j].token <= wrong[i].token
    BY <2>1, <2>2, <2>3 DEF GuessInv, GuessesInOrder
  <2> QED  BY <2>1, <2>2, <2>4
<1>6. ASSUME NEW j \in S, NEW a \in granted, a.id = wrong[j].token, a.voter = v,
             a.created_at > start
      PROVE  wrong[j].token \in P
  <2>1. a.created_at \in Nat /\ g.created_at \in Nat
    BY <1>2 DEF NewestInv, CapInv, TypeOK, Attempt
  <2>2. a.created_at > g.created_at - HOUR  BY <1>1, <1>2, <1>6, <2>1
  <2>3. a \in H  BY <1>2, <1>5, <1>6, <2>2 DEF HourBefore
  <2> QED  BY <1>6, <2>3
<1>7. ASSUME NEW j \in S, NEW k \in S, wrong[j].token \notin P, wrong[k].token \notin P
      PROVE  wrong[j].token = wrong[k].token
  <2>1. ASSUME NEW m \in S, NEW n \in S, wrong[n].token \notin P,
               wrong[m].token < wrong[n].token
        PROVE  FALSE
    <3>1. PICK b \in granted : b.id = wrong[n].token /\ b.voter = v
      BY <1>5 DEF GuessInv, GuessGranted
    <3>2. b.created_at >= wrong[m].at
      BY <1>5, <2>1, <3>1 DEF GuessInv, GuessGranted
    <3>3. b.created_at \in Nat  BY DEF NewestInv, CapInv, TypeOK, Attempt
    <3>4. b.created_at > start  BY <1>1, <1>5, <3>2, <3>3
    <3> QED  BY <1>6, <2>1, <3>1, <3>4
  <2>2. wrong[j].token \in Nat /\ wrong[k].token \in Nat  BY <1>5
  <2>3. ~(wrong[j].token < wrong[k].token) /\ ~(wrong[k].token < wrong[j].token)
    BY <1>7, <2>1
  <2> QED  BY <2>2, <2>3
<1>8. PICK o : \A j \in S : wrong[j].token \in P \cup {o}
  <2>1. CASE \A j \in S : wrong[j].token \in P  BY <2>1
  <2>2. CASE \E j \in S : wrong[j].token \notin P  BY <1>7, <2>2
  <2> QED  BY <2>1, <2>2
<1> HIDE DEF P, S
<1>9. IsFiniteSet(P \cup {o}) /\ Cardinality(P \cup {o}) <= MAX_SESSIONS_PER_VOTER_PER_HOUR + 1
  <2>1. /\ IsFiniteSet(P \cup {o})
        /\ Cardinality(P \cup {o}) <= Cardinality(P) + 1
    BY <1>4, AddAtMostOne
  <2>2. Cardinality(P \cup {o}) \in Nat /\ Cardinality(P) \in Nat
    BY <1>4, <2>1, FS_CardinalityType
  <2> QED  BY <1>4, <2>1, <2>2, AccreditationAssumptions
<1> QED  BY <1>8, <1>9 DEF S

LEMMA TimesIsMonotone ==
  ASSUME NEW a \in Nat, NEW b \in Nat, NEW m \in Nat, a <= b
  PROVE  a * m <= b * m
<1>1. PICK d \in Nat : b = a + d  BY SMT
<1>2. b * m = a * m + d * m  BY <1>1
<1>3. a * m \in Nat /\ d * m \in Nat  OBVIOUS
<1> QED  BY <1>2, <1>3

(* In any hour the wrong codes taken against a voter are at most those of  *)
(* one session more than the cap, whatever is restarted, expires or fails. *)
THEOREM GuessBudgetHolds == Spec => []GuessBudget
<1> DEFINE CAP == MAX_SESSIONS_PER_VOTER_PER_HOUR
           M == OTP_MAX_ATTEMPTS
<1>1. NewestInv /\ GuessInv => GuessBudget
  <2> SUFFICES ASSUME NewestInv, GuessInv, NEW i \in 1..Len(wrong)
               PROVE  Cardinality(GuessesBefore(i)) <= (CAP + 1) * M
    BY DEF GuessBudget
  <2> DEFINE S == GuessesBefore(i)
             code == [j \in S |-> <<wrong[j].token, wrong[j].nth>>]
  <2>1. PICK W : /\ IsFiniteSet(W) /\ Cardinality(W) <= CAP + 1
                 /\ \A j \in S : wrong[j].token \in W
    BY FewSessionsGuess
  <2>2. code \in Injection(S, W \X (1..M))
    <3>1. \A j \in S : j \in 1..Len(wrong)  BY DEF GuessesBefore
    <3>2. \A j \in S : wrong[j].nth \in 1..M  BY <3>1 DEF GuessInv, GuessGranted
    <3>3. code \in [S -> W \X (1..M)]  BY <2>1, <3>2
    <3>4. ASSUME NEW j \in S, NEW k \in S, code[j] = code[k] PROVE j = k
      <4>1. wrong[j].token = wrong[k].token /\ wrong[j].nth = wrong[k].nth  BY <3>4
      <4>2. ~(j < k) /\ ~(k < j)  BY <3>1, <4>1 DEF GuessInv, GuessesInOrder
      <4> QED  BY <3>1, <4>2
    <3> QED  BY <3>3, <3>4 DEF Injection, IsInjective
  <2> HIDE DEF S, code
  <2>3. /\ IsFiniteSet(1..M) /\ Cardinality(1..M) = M /\ M \in Nat /\ CAP \in Nat
    BY FS_Interval, AccreditationAssumptions
  <2>4. /\ IsFiniteSet(W \X (1..M))
        /\ Cardinality(W \X (1..M)) = Cardinality(W) * M
    BY <2>1, <2>3, FS_Product
  <2>5. IsFiniteSet(S) /\ Cardinality(S) <= Cardinality(W) * M
    BY <2>2, <2>4, FS_Injection
  <2>6. Cardinality(W) \in Nat /\ Cardinality(S) \in Nat
    BY <2>1, <2>5, FS_CardinalityType
  <2>7. Cardinality(W) * M <= (CAP + 1) * M
    BY <2>1, <2>3, <2>6, TimesIsMonotone
  <2>8. Cardinality(W) * M \in Nat /\ (CAP + 1) * M \in Nat  BY <2>3, <2>6
  <2>9. Cardinality(S) <= (CAP + 1) * M  BY <2>5, <2>6, <2>7, <2>8
  <2> QED  BY <2>9 DEF S
<1> QED  BY <1>1, GuessInvHolds, PTL
=============================================================================
