--------------------------- MODULE VoterAPIProofs ---------------------------
(***************************************************************************)
(* What the ballot box and accreditation guarantee on their own, they      *)
(* guarantee together: the voter API implements both.  And what neither    *)
(* can say alone: a vote needs a live accreditation of the voter it is     *)
(* recorded for.                                                           *)
(*                                                                         *)
(* Then the two parts the API has on either side: the page a voter casts   *)
(* from, and the rate limiter in front of the handlers.  Both are models   *)
(* of their own, with constants and variables of their own.                *)
(***************************************************************************)
EXTENDS VoterAPI, BallotBoxProofs, VoterPage, RateLimiter

(* The theorems about accreditation, over the state the API shares with it. *)
AccP == INSTANCE AccreditationProofs

(* The two instances of Accreditation have the same sets of values. *)
LEMMA SameValues ==
  /\ AccP!Tokens = Acc!Tokens /\ AccP!Session = Acc!Session
  /\ AccP!Request = Acc!Request /\ AccP!Attempt = Acc!Attempt /\ AccP!Guess = Acc!Guess
BY DEF AccP!Tokens, Acc!Tokens, AccP!Session, Acc!Session, AccP!Request, Acc!Request,
       AccP!Attempt, Acc!Attempt, AccP!Guess, Acc!Guess

(* ... and the same steps. *)
LEMMA SameVerify ==
  ASSUME NEW t \in Acc!Tokens, NEW v \in Voters, Acc!Verify(t, v)
  PROVE  AccP!Verify(t, v)
<1>1. AccP!Purged = Acc!Purged
  BY DEF AccP!Purged, Acc!Purged, AccP!Cutoff, Acc!Cutoff
<1>2. AccP!UnderCap(v) <=> Acc!UnderCap(v)
  <2>1. {a \in AccP!Purged : a.voter = v} = {a \in Acc!Purged : a.voter = v}  BY <1>1
  <2>2. \A S : AccP!Cardinality(S) = Acc!Cardinality(S)
    BY DEF AccP!Cardinality, Acc!Cardinality
  <2> QED  BY <2>1, <2>2 DEF AccP!UnderCap, Acc!UnderCap
<1>3. AccP!NewRow(v) = Acc!NewRow(v)  BY DEF AccP!NewRow, Acc!NewRow
<1>4. \A s \in Acc!Tokens : AccP!Survives(s, v) <=> Acc!Survives(s, v)
  BY DEF AccP!Survives, Acc!Survives, AccP!load_session, Acc!load_session,
         AccP!is_expired, Acc!is_expired
<1>5. sessions' = [s \in AccP!Tokens |-> IF s = t THEN AccP!NewRow(v)
                                        ELSE IF AccP!Survives(s, v) THEN sessions[s]
                                        ELSE NoSession]
  BY <1>3, <1>4, SameValues DEF Acc!Verify
<1> QED  BY <1>1, <1>2, <1>5, SameValues DEF AccP!Verify, Acc!Verify

LEMMA SameSmsStep ==
  ASSUME NEW t \in Acc!Tokens, Acc!SmsStep(t)
  PROVE  AccP!SmsStep(t)
<1>1. Acc!GatewayAccepts(t) => AccP!GatewayAccepts(t)
  BY DEF AccP!GatewayAccepts, Acc!GatewayAccepts
<1>2. \A transient \in BOOLEAN :
        Acc!GatewayFails(t, transient) => AccP!GatewayFails(t, transient)
  BY DEF AccP!GatewayFails, Acc!GatewayFails, AccP!Retries, Acc!Retries
<1>3. Acc!DropSession(t) => AccP!DropSession(t)
  BY SameValues DEF AccP!DropSession, Acc!DropSession, AccP!Deleted, Acc!Deleted
<1> QED  BY <1>1, <1>2, <1>3 DEF AccP!SmsStep, Acc!SmsStep

LEMMA SameSessionStep ==
  ASSUME NEW t \in Acc!Tokens, Acc!SessionStep(t)
  PROVE  AccP!SessionStep(t)
<1> USE DEF AccP!Presents, Acc!Presents, AccP!load_session, Acc!load_session,
            AccP!is_expired, Acc!is_expired
<1>1. Acc!RightOtp(t) => AccP!RightOtp(t)
  BY DEF AccP!RightOtp, Acc!RightOtp, AccP!OtpUsable, Acc!OtpUsable
<1>2. Acc!WrongOtp(t) => AccP!WrongOtp(t)
  BY DEF AccP!WrongOtp, Acc!WrongOtp, AccP!OtpUsable, Acc!OtpUsable,
         AccP!Counted, Acc!Counted
<1>3. Acc!FaceRejected(t) => AccP!FaceRejected(t)
  BY DEF AccP!FaceRejected, Acc!FaceRejected, AccP!FaceUsable, Acc!FaceUsable
<1>4. Acc!FaceMatched(t) => AccP!FaceMatched(t)
  BY DEF AccP!FaceMatched, Acc!FaceMatched, AccP!FaceUsable, Acc!FaceUsable
<1> QED  BY <1>1, <1>2, <1>3, <1>4 DEF AccP!SessionStep, Acc!SessionStep

(* The voter API implements accreditation: casting a ballot leaves it as it *)
(* is, and the other steps are accreditation's own or touch only the box.   *)
THEOREM APIImplementsAccreditation == SpecAPI => AccP!Spec
<1>1. InitAPI => AccP!Init
  BY SameValues DEF InitAPI, Acc!Init, AccP!Init
<1>2. [NextAPI]_apiVars => [AccP!Next]_(AccP!vars)
  <2> SUFFICES ASSUME [NextAPI]_apiVars PROVE [AccP!Next]_(AccP!vars)  OBVIOUS
  <2>1. ASSUME NEW v \in Voters, NEW u \in PollingUnits, Enrol(v, u) PROVE AccP!Next
    <3>1. AccP!RegisterVoter(v, u)
      BY <2>1 DEF Enrol, Acc!RegisterVoter, AccP!RegisterVoter
    <3> QED  BY <3>1 DEF AccP!Next
  <2>2. CASE AccreditationStep
    <3>1. CASE Acc!Tick
      <4>1. AccP!Tick  BY <3>1 DEF Acc!Tick, AccP!Tick
      <4> QED  BY <4>1 DEF AccP!Next
    <3>2. ASSUME NEW t \in Acc!Tokens, NEW v \in Voters, Acc!Verify(t, v) PROVE AccP!Next
      BY <3>2, SameVerify, SameValues DEF AccP!Next
    <3>3. ASSUME NEW t \in Acc!Tokens, Acc!SmsStep(t) PROVE AccP!Next
      BY <3>3, SameSmsStep, SameValues DEF AccP!Next
    <3>4. ASSUME NEW t \in Acc!Tokens, Acc!SessionStep(t) PROVE AccP!Next
      BY <3>4, SameSessionStep, SameValues DEF AccP!Next
    <3>5. CASE Acc!Crash
      <4>1. AccP!Crash  BY <3>5, SameValues DEF Acc!Crash, AccP!Crash
      <4> QED  BY <4>1 DEF AccP!Next
    <3> QED  BY <2>2, <3>1, <3>2, <3>3, <3>4, <3>5 DEF AccreditationStep
  <2>3. CASE AdminStep
    BY <2>3 DEF AdminStep, accreditation, OpenElection, CloseElection, Transition,
                SignCheckpoint, AccP!vars
  <2>4. ASSUME NEW t \in Acc!Tokens, NEW e \in Elections, NEW p \in Parties,
               CastBallot(t, e, p)
        PROVE  UNCHANGED AccP!vars
    BY <2>4 DEF CastBallot, RecordBallot, accreditation, AccP!vars
  <2>5. CASE UNCHANGED apiVars  BY <2>5 DEF apiVars, accreditation, AccP!vars
  <2> QED  BY <2>1, <2>2, <2>3, <2>4, <2>5 DEF NextAPI
<1> QED  BY <1>1, <1>2, PTL DEF SpecAPI, AccP!Spec

(* What accreditation's theorems assume of the constants, the API assumes. *)
LEMMA AccreditationAssumed ==
  /\ SECOND \in Nat \ {0} /\ HOUR \in Nat \ {0}
  /\ SESSION_TTL \in Nat \ {0} /\ OTP_TTL \in Nat \ {0}
  /\ OTP_MAX_ATTEMPTS \in Nat /\ FACE_MAX_ATTEMPTS \in Nat
  /\ MAX_SESSIONS_PER_VOTER_PER_HOUR \in Nat /\ SMS_RETRIES \in Nat
  /\ MaxTokens \in Nat /\ MaxTime \in Nat
  /\ Unregistered \notin PollingUnits
  /\ NoSession \notin AccP!Session
BY VoterAPIAssumptions, BallotBoxAssumptions, SameValues

(* Whatever the clients do, the sessions CastBallot reads are sessions, the *)
(* newest of their voters, and live as long as their grants say.            *)
LEMMA SessionsInv ==
  SpecAPI => [](AccP!TypeOK /\ AccP!OnlyNewestSession /\ AccP!SessionsAreGranted)
<1>1. AccP!Spec => []AccP!TypeOK  BY AccreditationAssumed, AccP!TypeCorrect
<1>2. AccP!Spec => []AccP!OnlyNewestSession
  BY AccreditationAssumed, AccP!OnlyNewestSessionHolds
<1>3. AccP!Spec => []AccP!SessionsAreGranted
  BY AccreditationAssumed, AccP!SessionsAreAlwaysGranted
<1> QED  BY <1>1, <1>2, <1>3, APIImplementsAccreditation, PTL
-----------------------------------------------------------------------------
(* The voter API implements the ballot box: the voter of a session is a     *)
(* voter, so every ballot the endpoint records is one the box takes, and    *)
(* accreditation leaves the box alone.                                      *)
THEOREM APIImplementsBallotBox == SpecAPI => Spec
<1>1. InitAPI => Init  BY DEF InitAPI
<1>2. AccP!TypeOK /\ [NextAPI]_apiVars => [Next]_vars
  <2> SUFFICES ASSUME AccP!TypeOK, [NextAPI]_apiVars PROVE [Next]_vars  OBVIOUS
  <2>1. ASSUME NEW v \in Voters, NEW u \in PollingUnits, Enrol(v, u) PROVE Next
    BY <2>1 DEF Enrol, Next
  <2>2. CASE AccreditationStep
    <3>1. register' = register
      <4>1. CASE Acc!Tick \/ Acc!Crash  BY <4>1 DEF Acc!Tick, Acc!Crash
      <4>2. ASSUME NEW t \in Acc!Tokens, NEW v \in Voters, Acc!Verify(t, v)
            PROVE register' = register
        BY <4>2 DEF Acc!Verify
      <4>3. ASSUME NEW t \in Acc!Tokens, Acc!SmsStep(t) PROVE register' = register
        BY <4>3 DEF Acc!SmsStep, Acc!GatewayAccepts, Acc!GatewayFails, Acc!DropSession
      <4>4. ASSUME NEW t \in Acc!Tokens, Acc!SessionStep(t) PROVE register' = register
        BY <4>4 DEF Acc!SessionStep, Acc!RightOtp, Acc!WrongOtp, Acc!FaceRejected,
                    Acc!FaceMatched
      <4> QED  BY <2>2, <4>1, <4>2, <4>3, <4>4 DEF AccreditationStep
    <3> QED  BY <2>2, <3>1 DEF AccreditationStep, box, vars
  <2>3. CASE AdminStep  BY <2>3 DEF AdminStep, Next
  <2>4. ASSUME NEW t \in Acc!Tokens, NEW e \in Elections, NEW p \in Parties,
               CastBallot(t, e, p)
        PROVE  Next
    <3>1. sessions[t] \in Acc!Session
      BY <2>4, SameValues DEF CastBallot, MayCast, Acc!Presents, Acc!load_session, AccP!TypeOK
    <3>2. sessions[t].voter \in Voters  BY <3>1 DEF Acc!Session
    <3> QED  BY <2>4, <3>2 DEF CastBallot, Next
  <2>5. CASE UNCHANGED apiVars  BY <2>5 DEF apiVars, box, vars
  <2> QED  BY <2>1, <2>2, <2>3, <2>4, <2>5 DEF NextAPI
<1> QED  BY <1>1, <1>2, SessionsInv, PTL DEF SpecAPI, Spec

(* So the API keeps every promise of the box: its ledger and votes_cast     *)
(* agree, its checkpoints and receipts hold, its closed tallies stay, and   *)
(* it implements one vote per voter and election.                           *)
THEOREM APIKeepsTheBox ==
  SpecAPI => /\ []LedgerMatchesVotes /\ []CheckpointsHold /\ []ReceiptsHold
             /\ ClosedTallyFrozen /\ ImplementsOneVote
BY APIImplementsBallotBox, LedgerAlwaysMatchesVotes, CheckpointsAlwaysHold,
   ReceiptsAlwaysHold, ClosedTallyStaysFrozen, BallotBoxKeepsPromise

(* No ballot is ever cast on a session that was replaced, has expired, lost *)
(* its message, or is only half accredited; nor for a voter other than the  *)
(* one the session was granted to.                                          *)
THEOREM VotesAlwaysNeedLiveAccreditation == SpecAPI => VotesNeedLiveAccreditation
<1> DEFINE Backed == \A v \in Voters, e \in Elections :
             <<v, e>> \in votes_cast' \ votes_cast => BackedByLatestVerification(v)
<1>1. /\ AccP!TypeOK /\ AccP!OnlyNewestSession /\ AccP!SessionsAreGranted
      /\ [NextAPI]_apiVars
      => [Backed]_apiVars
  <2> SUFFICES ASSUME AccP!TypeOK, AccP!OnlyNewestSession, AccP!SessionsAreGranted,
                      [NextAPI]_apiVars,
                      NEW v \in Voters, NEW e \in Elections,
                      <<v, e>> \in votes_cast' \ votes_cast
               PROVE  BackedByLatestVerification(v)
    OBVIOUS
  <2>1. PICK t \in Acc!Tokens, f \in Elections, p \in Parties : CastBallot(t, f, p)
    BY DEF NextAPI, Enrol, RegisterVoter, AccreditationStep, box, AdminStep, OpenElection,
           CloseElection, Transition, SignCheckpoint, apiVars
  <2>2. v = sessions[t].voter  BY <2>1 DEF CastBallot, RecordBallot
  <2>3. /\ sms[t].state = "sent" /\ sessions[t] # NoSession /\ Accredited(t)
        /\ ~(sessions[t].expires_at <= now)
    BY <2>1 DEF CastBallot, MayCast, Acc!Presents, Acc!load_session, Acc!is_expired
  <2>4. PICK a \in granted : /\ a.id = t /\ a.voter = v
                             /\ sessions[t].expires_at = a.created_at + SESSION_TTL
    BY <2>2, <2>3, SameValues DEF AccP!SessionsAreGranted
  <2>5. \A b \in granted : b.voter = v => b.id <= t
    BY <2>2, <2>3, SameValues DEF AccP!OnlyNewestSession
  <2>6. now - a.created_at < SESSION_TTL
    <3>1. a.created_at \in Nat /\ now \in Nat
      BY DEF AccP!TypeOK, AccP!Attempt
    <3> QED  BY <2>3, <2>4, <3>1, VoterAPIAssumptions
  <2> QED  BY <2>3, <2>4, <2>5, <2>6 DEF BackedByLatestVerification
<1> QED  BY <1>1, SessionsInv, PTL DEF SpecAPI, VotesNeedLiveAccreditation

-----------------------------------------------------------------------------
(* In front of the API: the voter's page.  What it knows of the server are  *)
(* tokens, and a token reaches it once, in the answer to the call that      *)
(* opened the session.                                                      *)
Openers == {"verify", "resend"}
Sent(c) == calls[c] # NoCall /\ calls[c].at = "out"
Opened(c) == calls[c] # NoCall /\ calls[c].at = "ok"

Answered == [at : {"ok", "expired"}]

CallsOf(c, n) ==
  IF c \in Openers
    THEN {NoCall} \cup [at : {"out"}, by : People, token : {NoToken}]
                       \cup [at : {"ok"}, by : People, token : 1..n]
    ELSE {NoCall} \cup Answered \cup
         IF c = "otp" THEN [at : {"out"}, token : 0..n, code : Tokens]
         ELSE IF c = "cast" THEN [at : {"out"}, by : People \cup {Nobody}, token : 0..n]
         ELSE [at : {"out"}, token : 0..n]

CallTypes ==
  /\ calls = [c \in Controls |-> calls[c]]
  /\ \A c \in Controls : calls[c] \in CallsOf(c, page_issued)

PageTypes ==
  /\ step \in 1..5 /\ token \in 0..page_issued /\ credentials \in People \cup {Nobody}
  /\ step = 2 => credentials \in People
  /\ page_issued \in 0..MaxIssued
  /\ page_sessions \in [Tokens -> PageSession \cup {NoRow}]
  /\ \A t \in Tokens : t > page_issued => page_sessions[t] = NoRow
  /\ CallTypes

(* An answer on its way brings a token that the page has not had yet.      *)
Unheard(t) == \A c \in Openers : Opened(c) => calls[c].token # t

TokensComeOnce ==
  /\ Unheard(token)
  /\ Sent("otp") => Unheard(calls["otp"].token)
  /\ Sent("cast") => Unheard(calls["cast"].token)
  /\ Opened("verify") /\ Opened("resend") => calls["verify"].token # calls["resend"].token

(* Credentials stay as long as the token does. *)
CastFromThePage ==
  Sent("cast") /\ calls["cast"].token = token /\ token # NoToken
    => calls["cast"].by = credentials

(* Only the page of the session's own voter has, or ever had, the token.   *)
Owned(t) ==
  Live(t) =>
    /\ token = t => credentials = page_sessions[t].voter
    /\ Sent("cast") /\ calls["cast"].token = t => calls["cast"].by = page_sessions[t].voter
    /\ Unheard(t)

(* A code was read from her phone by the voter the page is of, so a session *)
(* whose code is on its way or was right is her own.  A session that lives  *)
(* but was never verified need not be: a late answer to a resend gives the  *)
(* page of one voter the session of another.                                *)
CodesAreOwned ==
  /\ \A t \in Tokens : Live(t) /\ page_sessions[t].otp_verified => Owned(t)
  /\ \A t \in Tokens :
       Sent("otp") /\ calls["otp"].code = t /\ calls["otp"].token = t => Owned(t)

PageInv ==
  PageTypes /\ TokensComeOnce /\ CastFromThePage /\ CodesAreOwned
    /\ BallotsAreTheirCasters

LEMMA PageInit == InitPage => PageInv
<1> SUFFICES ASSUME InitPage PROVE PageInv  OBVIOUS
<1>1. PageTypes
  BY VoterPageAssumptions
  DEF InitPage, PageTypes, NoToken, Tokens, Controls, Uploads, Openers, CallTypes, CallsOf
<1> QED
  BY <1>1 DEF PageInv, InitPage, TokensComeOnce, Unheard, Opened, Sent, CastFromThePage,
     CodesAreOwned, Live, BallotsAreTheirCasters, Controls, Openers

(* A control gets another call or its answer, and no token is forgotten.   *)
LEMMA OneCallChanges ==
  ASSUME PageTypes, NEW n \in Nat, page_issued' = n, page_issued <= n,
         NEW c \in Controls, NEW call, call \in CallsOf(c, n),
         calls' = [calls EXCEPT ![c] = call]
  PROVE  CallTypes'
<1>1. \A d \in Controls : CallsOf(d, page_issued) \subseteq CallsOf(d, n)
  <2>1. page_issued \in Nat  BY VoterPageAssumptions DEF PageTypes
  <2> QED  BY <2>1 DEF CallsOf, Controls, Openers
<1>2. \A d \in Controls : calls'[d] \in CallsOf(d, n)
  BY <1>1 DEF CallTypes, PageTypes
<1>3. calls' = [d \in Controls |-> calls'[d]]  BY DEF CallTypes, PageTypes
<1> QED  BY <1>2, <1>3 DEF CallTypes

LEMMA OneCallEnds ==
  ASSUME PageTypes, NEW c \in Controls, UNCHANGED page_issued,
         \/ calls' = [calls EXCEPT ![c] = NoCall]
         \/ /\ c \notin Openers
            /\ \E at \in {"ok", "expired"} : calls' = [calls EXCEPT ![c] = [at |-> at]]
  PROVE  CallTypes'
<1>1. PICK call \in {NoCall} \cup Answered :
        calls' = [calls EXCEPT ![c] = call] /\ call \in CallsOf(c, page_issued)
  BY DEF CallsOf, Controls, Openers, Answered
<1>2. page_issued \in Nat  BY VoterPageAssumptions DEF PageTypes
<1>3. page_issued <= page_issued  BY <1>2
<1> QED  BY <1>1, <1>2, <1>3, OneCallChanges

LEMMA PageTypesKept == PageTypes /\ [NextPage]_pageVars => PageTypes'
<1> SUFFICES ASSUME PageTypes, [NextPage]_pageVars PROVE PageTypes'  OBVIOUS
<1> USE VoterPageAssumptions DEF page, server
<1>a. page_issued \in Nat  BY DEF PageTypes
<1>b. ASSUME NEW c \in Controls, NEW call \in CallsOf(c, page_issued), Send(c, call)
      PROVE  PageTypes'
  <2>1. page_issued' = page_issued /\ page_issued <= page_issued
    BY <1>a, <1>b DEF Send
  <2>2. calls' = [calls EXCEPT ![c] = call]  BY <1>b DEF Send
  <2>3. CallTypes'  BY <1>a, <1>b, <2>1, <2>2, OneCallChanges
  <2> QED  BY <1>b, <2>1, <2>3 DEF PageTypes, Send
<1> DEFINE of(c) == CallsOf(c, page_issued)
<1>1. CASE PressVerify
  <2>1. \A v \in People : Identity("out", v, NoToken) \in of("verify")
    BY DEF CallsOf, Openers, Identity
  <2> QED  BY <1>1, <1>b, <2>1 DEF PressVerify, Controls
<1>2. CASE PressResend
  <2>1. Identity("out", credentials, NoToken) \in of("resend")
    BY <1>2 DEF CallsOf, Openers, Identity, PageTypes, PressResend
  <2> QED  BY <1>2, <1>b, <2>1 DEF PressResend, Controls
<1>3. CASE PressOtp
  <2>1. \A t \in Tokens : Code(token, t) \in of("otp")
    BY DEF CallsOf, Openers, Code, PageTypes
  <2> QED  BY <1>3, <1>b, <2>1 DEF PressOtp, Controls
<1>4. CASE PressCast
  <2>1. CastCall(credentials, token) \in of("cast")
    BY DEF CallsOf, Openers, CastCall, PageTypes, Uploads
  <2> QED  BY <1>4, <1>b, <2>1 DEF PressCast, Controls
<1>5. ASSUME NEW c \in Controls, PressUpload(c) PROVE PageTypes'
  <2>1. Picture(token) \in of(c)
    BY <1>5 DEF CallsOf, Openers, Picture, PageTypes, Uploads, PressUpload
  <2> QED  BY <1>5, <1>b, <2>1 DEF PressUpload
<1>6. ASSUME NEW c \in Controls, Serve(c) PROVE PageTypes'
  <2>1. CASE c \in {"verify", "resend"} /\ ServeVerify(c)
    <3> DEFINE v == calls[c].by
               t == page_issued + 1
    <3>1. v \in People
      <4>1. calls[c] \in CallsOf(c, page_issued) /\ calls[c] # NoCall
        BY <1>6 DEF Serve, PageTypes, CallTypes
      <4> QED  BY <2>1, <4>1 DEF CallsOf, Openers
    <3>2. /\ page_issued' = t /\ t \in Tokens /\ UNCHANGED page
          /\ calls' = [calls EXCEPT ![c] = Identity("ok", v, t)]
      BY <2>1 DEF ServeVerify
    <3>3. Identity("ok", v, t) \in CallsOf(c, page_issued')
      BY <1>a, <2>1, <3>1, <3>2 DEF CallsOf, Openers, Identity
    <3>4. CallTypes'
      <4>1. t \in Nat /\ page_issued <= t  BY <1>a
      <4> HIDE DEF t, v
      <4> QED  BY <4>1, <3>2, <3>3, OneCallChanges
    <3>5. /\ page_sessions' \in [Tokens -> PageSession \cup {NoRow}]
          /\ \A s \in Tokens : s > t => page_sessions'[s] = NoRow
      <4>1. Fresh(v) \in PageSession  BY <3>1 DEF Fresh, PageSession
      <4>2. page_sessions' =
              [s \in Tokens |->
                 IF s = t THEN Fresh(v)
                 ELSE IF Live(s) /\ page_sessions[s].voter = v THEN NoRow
                 ELSE page_sessions[s]]
        BY <2>1, <3>2 DEF ServeVerify
      <4> QED  BY <1>a, <4>1, <4>2 DEF PageTypes, Tokens
    <3> QED  BY <1>a, <3>2, <3>4, <3>5 DEF PageTypes, Tokens
  <2>2. CASE c = "otp" /\ ServeOtp
    <3>1. CallTypes'
      BY <2>2, OneCallEnds DEF ServeOtp, Answer, Openers
    <3> QED  BY <2>2, <3>1 DEF PageTypes, ServeOtp, PageSession, Live
  <2>3. CASE c \in Uploads /\ ServeUpload(c)
    <3>1. CallTypes'
      BY <2>3, OneCallEnds DEF ServeUpload, Answer, Openers, Uploads
    <3> QED  BY <2>3, <3>1 DEF PageTypes, ServeUpload, PageSession, Live
  <2>4. CASE c = "cast" /\ ServeCast
    <3>1. CallTypes'
      BY <2>4, OneCallEnds DEF ServeCast, Answer, Openers
    <3> QED  BY <2>4, <3>1 DEF PageTypes, ServeCast
  <2>5. CASE c \in Uploads \cup {"cast"} /\ ServeExpired(c)
    <3>1. CallTypes'
      BY <2>5, OneCallEnds DEF ServeExpired, Answer, Openers, Uploads
    <3> QED  BY <2>5, <3>1 DEF PageTypes, ServeExpired
  <2> QED  BY <1>6, <2>1, <2>2, <2>3, <2>4, <2>5 DEF Serve
<1>7. ASSUME NEW c \in Controls, Lose(c) PROVE PageTypes'
  <2>1. CallTypes'  BY <1>7, OneCallEnds DEF Lose
  <2> QED  BY <1>7, <2>1 DEF PageTypes, Lose
<1>8. ASSUME NEW c \in Controls, Resume(c) PROVE PageTypes'
  <2>1. calls' = [calls EXCEPT ![c] = NoCall] /\ UNCHANGED server
    BY <1>8 DEF Resume
  <2>2. CallTypes'  BY <2>1, OneCallEnds
  <2>3. calls[c] \in CallsOf(c, page_issued) /\ calls[c] # NoCall
    BY <1>8 DEF PageTypes, CallTypes, Resume
  <2>4. CASE OnExpired
    BY <2>1, <2>2, <2>4 DEF PageTypes, OnExpired, Restart, Panel, NoToken
  <2>5. CASE c = "verify" /\ calls[c].at = "ok" /\ OnVerified(calls[c])
    <3>1. calls[c].token \in 0..page_issued /\ calls[c].by \in People
      BY <1>a, <2>3, <2>5 DEF CallsOf, Openers
    <3> QED  BY <2>1, <2>2, <2>5, <3>1 DEF PageTypes, OnVerified, Panel
  <2>6. CASE c = "resend" /\ calls[c].at = "ok" /\ OnResent(calls[c])
    <3>1. calls[c].token \in 0..page_issued
      BY <1>a, <2>3, <2>6 DEF CallsOf, Openers
    <3> QED  BY <2>1, <2>2, <2>6, <3>1 DEF PageTypes, OnResent
  <2>7. CASE OnOtp \/ OnFace \/ OnCast
    <3>1. step' \in {3, 4, 5} /\ UNCHANGED <<token, credentials>>
      BY <2>7 DEF OnOtp, OnFace, OnCast, Panel
    <3> QED  BY <2>1, <2>2, <3>1 DEF PageTypes
  <2> QED  BY <1>8, <2>4, <2>5, <2>6, <2>7 DEF Resume, Shows, OnOk
<1>9. ASSUME NEW t \in Tokens, Expire(t) PROVE PageTypes'
  BY <1>9 DEF PageTypes, Expire, CallTypes
<1>10. CASE Reload
  <2>1. CallTypes'  BY <1>10 DEF Reload, CallTypes, CallsOf
  <2> QED  BY <1>10, <2>1 DEF PageTypes, Reload, Restart, Panel, NoToken
<1>11. CASE UNCHANGED pageVars
  BY <1>11 DEF PageTypes, pageVars, CallTypes
<1> QED
  BY <1>1, <1>2, <1>3, <1>4, <1>5, <1>6, <1>7, <1>8, <1>9, <1>10, <1>11 DEF NextPage

(* A step after which no other code, ballot or token is on its way, and no *)
(* session lives or is verified that was not, disturbs nothing.            *)
NothingSent ==
  /\ \A c \in {"otp", "cast"} : Sent(c)' => Sent(c) /\ calls'[c] = calls[c]
  /\ \A c \in Openers : Opened(c)' => Opened(c) /\ calls'[c] = calls[c]

LEMMA NothingNew ==
  ASSUME PageInv, NothingSent, UNCHANGED <<token, credentials, ballots>>,
         \A t \in Tokens :
           Live(t)' => /\ Live(t) /\ page_sessions'[t].voter = page_sessions[t].voter
                       /\ page_sessions'[t].otp_verified => Owned(t)
  PROVE  (TokensComeOnce /\ CastFromThePage /\ CodesAreOwned /\ BallotsAreTheirCasters)'
<1>1. \A t : Unheard(t) => Unheard(t)'  BY DEF NothingSent, Unheard
<1>2. \A t \in Tokens : Owned(t) => Owned(t)'
  BY <1>1 DEF Owned, NothingSent
<1>3. \A t \in Tokens :
        (Sent("otp") /\ calls["otp"].code = t /\ calls["otp"].token = t)' => Owned(t)'
  BY <1>2 DEF PageInv, CodesAreOwned, NothingSent
<1>4. \A t \in Tokens : Live(t)' /\ page_sessions'[t].otp_verified => Owned(t)'
  BY <1>2
<1>5. TokensComeOnce'
  BY <1>1 DEF TokensComeOnce, PageInv, NothingSent, Openers
<1>6. CastFromThePage'  BY DEF CastFromThePage, PageInv, NothingSent
<1> QED  BY <1>3, <1>4, <1>5, <1>6 DEF PageInv, BallotsAreTheirCasters, CodesAreOwned

LEMMA PageOwnershipKept ==
  PageInv /\ PageTypes' /\ [NextPage]_pageVars
    => (TokensComeOnce /\ CastFromThePage /\ CodesAreOwned /\ BallotsAreTheirCasters)'
<1> SUFFICES ASSUME PageInv, PageTypes', [NextPage]_pageVars
             PROVE  /\ TokensComeOnce' /\ CastFromThePage' /\ CodesAreOwned'
                    /\ BallotsAreTheirCasters'
  OBVIOUS
<1> DEFINE Kept == (TokensComeOnce /\ CastFromThePage /\ CodesAreOwned
                     /\ BallotsAreTheirCasters)'
<1> USE VoterPageAssumptions DEF page, server, NoToken
<1>a. /\ PageTypes /\ TokensComeOnce /\ CastFromThePage /\ CodesAreOwned
      /\ BallotsAreTheirCasters /\ page_issued \in Nat
  BY DEF PageInv, PageTypes
<1>b. \A t \in Tokens : Live(t) /\ page_sessions[t].otp_verified => Owned(t)
  BY <1>a DEF CodesAreOwned
<1>c. \A c \in Openers : Opened(c) => calls[c].token \in 1..page_issued /\ calls[c].by \in People
  BY <1>a DEF PageTypes, CallTypes, CallsOf, Opened, Openers, Controls
<1>d. /\ Sent("otp") => calls["otp"].token \in 0..page_issued
      /\ Sent("cast") => calls["cast"].token \in 0..page_issued
  BY <1>a DEF PageTypes, CallTypes, CallsOf, Sent, Openers, Controls, Answered
<1>e. ASSUME NothingSent, UNCHANGED <<token, credentials, page_sessions, ballots>> PROVE Kept
  <2>1. \A t \in Tokens : Live(t)' = Live(t)  BY <1>e DEF Live
  <2> QED  BY <1>b, <1>e, <2>1, NothingNew
<1>f. calls = [c \in Controls |-> calls[c]]  BY <1>a DEF PageTypes, CallTypes
<1>g. ASSUME NothingSent, token' = NoToken, UNCHANGED <<page_sessions, ballots>> PROVE Kept
  <2>1. \A s : Unheard(s) => Unheard(s)'  BY <1>g DEF NothingSent, Unheard
  <2>2. Unheard(0)'  BY <1>c, <1>g DEF NothingSent, Unheard
  <2>3. \A s : Live(s)' = Live(s)  BY <1>g DEF Live
  <2>4. \A s : Owned(s) => Owned(s)'
    BY <1>g, <2>1, <2>3 DEF Owned, NothingSent, Live
  <2>5. CodesAreOwned'
    BY <1>a, <1>g, <2>3, <2>4 DEF CodesAreOwned, NothingSent
  <2> QED
    BY <1>a, <1>g, <2>1, <2>2, <2>5 DEF TokensComeOnce, CastFromThePage, NothingSent, Openers,
       BallotsAreTheirCasters
<1>1. CASE PressVerify \/ PressResend
  <2>1. \E c \in Openers : \E v, t :
          /\ calls' = [calls EXCEPT ![c] = [at |-> "out", by |-> v, token |-> t]]
          /\ UNCHANGED <<page, server>>
    BY <1>1 DEF PressVerify, PressResend, Send, Identity, Openers
  <2>2. \A c \in {"otp", "cast"} : Sent(c)' => Sent(c) /\ calls'[c] = calls[c]
    BY <1>f, <2>1 DEF Sent, Openers, Controls
  <2>3. \A c \in Openers : Opened(c)' => Opened(c) /\ calls'[c] = calls[c]
    BY <1>f, <2>1 DEF Opened, Openers, Controls
  <2> QED  BY <1>e, <2>1, <2>2, <2>3 DEF NothingSent
<1>2. CASE PressOtp
  <2>1. PICK t \in Tokens :
          /\ Live(t) /\ page_sessions[t].voter = credentials
          /\ calls' = [calls EXCEPT !["otp"] = Code(token, t)]
          /\ UNCHANGED <<page, server>>
    BY <1>2 DEF PressOtp, Send
  <2>2. /\ Sent("cast")' = Sent("cast") /\ calls'["cast"] = calls["cast"]
        /\ \A c \in Openers : Opened(c)' = Opened(c) /\ calls'[c] = calls[c]
    BY <1>f, <2>1 DEF Sent, Opened, Openers, Controls
  <2>3. calls'["otp"].token = token /\ calls'["otp"].code = t
    BY <1>f, <2>1 DEF Code, Controls
  <2>4. \A s : Unheard(s)' = Unheard(s)  BY <2>2 DEF Unheard
  <2>5. \A s \in Tokens : Owned(s)' = Owned(s)
    BY <2>1, <2>2, <2>4 DEF Owned, Live
  <2>6. t = token => Owned(t)
    BY <1>a, <2>1 DEF Owned, CastFromThePage, TokensComeOnce, Tokens
  <2>7. CodesAreOwned'
    BY <1>a, <2>1, <2>3, <2>5, <2>6 DEF CodesAreOwned, Live
  <2> QED
    BY <1>a, <2>1, <2>2, <2>3, <2>4, <2>7 DEF TokensComeOnce, CastFromThePage,
       BallotsAreTheirCasters, Openers
<1>3. CASE PressCast
  <2>1. /\ calls' = [calls EXCEPT !["cast"] = CastCall(credentials, token)]
        /\ UNCHANGED <<page, server>>
    BY <1>3 DEF PressCast, Send
  <2>2. /\ Sent("otp")' = Sent("otp") /\ calls'["otp"] = calls["otp"]
        /\ \A c \in Openers : Opened(c)' = Opened(c) /\ calls'[c] = calls[c]
    BY <1>f, <2>1 DEF Sent, Opened, Openers, Controls
  <2>3. calls'["cast"].token = token /\ calls'["cast"].by = credentials
    BY <1>f, <2>1 DEF CastCall, Controls
  <2>4. \A s : Unheard(s)' = Unheard(s)  BY <2>2 DEF Unheard
  <2>5. \A s \in Tokens : Owned(s) => Owned(s)'
    BY <2>1, <2>3, <2>4 DEF Owned, Live
  <2>6. CodesAreOwned'
    BY <1>a, <2>1, <2>2, <2>5 DEF CodesAreOwned, Live, Owned
  <2> QED
    BY <1>a, <2>1, <2>2, <2>3, <2>4, <2>6 DEF TokensComeOnce, CastFromThePage,
       BallotsAreTheirCasters, Openers
<1>4. ASSUME NEW c \in Controls, PressUpload(c) PROVE Kept
  <2>1. /\ calls' = [calls EXCEPT ![c] = Picture(token)]
        /\ UNCHANGED <<page, server>> /\ c \in {"capture", "photo"}
    BY <1>4 DEF PressUpload, Send, Uploads
  <2>2. \A d \in Openers \cup {"otp", "cast"} : calls'[d] = calls[d]
    BY <1>f, <2>1 DEF Openers, Controls
  <2> QED  BY <1>e, <2>1, <2>2 DEF NothingSent, Sent, Opened
<1>5. ASSUME NEW c \in Openers, ServeVerify(c), calls[c].at = "out" PROVE Kept
  <2> DEFINE v == calls[c].by
             t == page_issued + 1
  <2>1. /\ t \in Tokens /\ UNCHANGED <<page, ballots>>
        /\ calls' = [calls EXCEPT ![c] = Identity("ok", v, t)]
        /\ page_sessions' =
             [s \in Tokens |->
                IF s = t THEN Fresh(v)
                ELSE IF Live(s) /\ page_sessions[s].voter = v THEN NoRow
                ELSE page_sessions[s]]
    BY <1>5 DEF ServeVerify
  <2>2. \A s \in Tokens : s # t /\ Live(s)' =>
          Live(s) /\ page_sessions'[s] = page_sessions[s]
    BY <2>1 DEF Live
  <2>3. ~page_sessions'[t].otp_verified  BY <2>1 DEF Fresh
  <2>4. /\ \A d \in Openers \ {c} : Opened(d)' = Opened(d) /\ calls'[d] = calls[d]
        /\ \A d \in {"otp", "cast"} : Sent(d)' = Sent(d) /\ calls'[d] = calls[d]
    BY <1>f, <2>1 DEF Sent, Opened, Openers, Controls
  <2>5. calls'[c].token = t  BY <1>f, <2>1 DEF Identity, Controls, Openers
  <2>6. t > page_issued /\ t \in Nat  BY <1>a
  <2> HIDE DEF t, v
  <2>7. \A s \in 0..page_issued : s # t /\ (Unheard(s) => Unheard(s)')
    BY <1>a, <2>4, <2>5, <2>6 DEF Unheard
  <2>8. \A s \in Tokens : Live(s) => s \in 0..page_issued
    BY <1>a DEF PageTypes, Live, Tokens
  <2>9. \A s \in Tokens : Live(s)' /\ s # t /\ Owned(s) => Owned(s)'
    BY <2>1, <2>2, <2>4, <2>7, <2>8 DEF Owned
  <2>10. \A s \in Tokens : Live(s)' /\ page_sessions'[s].otp_verified => Owned(s)'
    BY <1>b, <2>2, <2>3, <2>9
  <2>11. \A s \in Tokens :
           (Sent("otp") /\ calls["otp"].code = s /\ calls["otp"].token = s)' => Owned(s)'
    BY <1>a, <1>d, <2>4, <2>7, <2>9 DEF CodesAreOwned, Owned
  <2>12. TokensComeOnce'
    <3>1. token \in 0..page_issued  BY <1>a DEF PageTypes
    <3>2. \A d \in Openers \ {c} : Opened(d)' => calls'[d].token # t
      BY <1>c, <2>4, <2>6, <2>7
    <3> QED  BY <1>a, <1>d, <2>1, <2>4, <2>5, <2>7, <3>1, <3>2 DEF TokensComeOnce, Openers
  <2> QED
    BY <1>a, <2>1, <2>4, <2>10, <2>11, <2>12 DEF CodesAreOwned, CastFromThePage,
       BallotsAreTheirCasters
<1>6. CASE ServeOtp /\ calls["otp"].at = "out" /\ Sent("otp")
  <2> DEFINE t == calls["otp"].token
  <2>1. /\ Live(t) /\ calls["otp"].code = t
        /\ page_sessions' = [page_sessions EXCEPT ![t].otp_verified = TRUE]
        /\ calls' = [calls EXCEPT !["otp"] = [at |-> "ok"]]
        /\ UNCHANGED <<page, ballots>>
    BY <1>6 DEF ServeOtp, Answer, Matches
  <2>2. Owned(t)
    <3>1. t \in Tokens
      BY <1>a, <1>d, <1>6, <2>1 DEF Live, Tokens, PageTypes
    <3> QED  BY <1>a, <1>6, <2>1, <3>1 DEF CodesAreOwned
  <2>3. \A s \in Tokens : Live(s)' =>
          /\ Live(s) /\ page_sessions'[s].voter = page_sessions[s].voter
          /\ page_sessions'[s].otp_verified => Owned(s)
    <3> SUFFICES ASSUME NEW s \in Tokens, Live(s)'
                 PROVE  /\ Live(s) /\ page_sessions'[s].voter = page_sessions[s].voter
                        /\ page_sessions'[s].otp_verified => Owned(s)
      OBVIOUS
    <3>1. CASE s = t
      <4>1. page_sessions[s] \in PageSession
        BY <1>a, <2>1, <3>1 DEF PageTypes, Live
      <4>2. page_sessions'[s] = [page_sessions[s] EXCEPT !.otp_verified = TRUE]
        BY <1>a, <2>1, <3>1 DEF PageTypes
      <4> QED  BY <2>1, <2>2, <3>1, <4>1, <4>2 DEF PageSession
    <3>2. CASE s # t
      <4>1. page_sessions'[s] = page_sessions[s]  BY <1>a, <2>1, <3>2 DEF PageTypes
      <4> QED  BY <1>b, <4>1 DEF Live
    <3> QED  BY <3>1, <3>2
  <2>4. NothingSent
    BY <1>f, <2>1 DEF NothingSent, Sent, Opened, Openers, Controls
  <2> QED  BY <2>1, <2>3, <2>4, NothingNew
<1>7. ASSUME NEW c \in Uploads, ServeUpload(c) PROVE Kept
  <2> DEFINE t == calls[c].token
  <2>1. /\ Live(t) /\ page_sessions[t].otp_verified
        /\ page_sessions' = [page_sessions EXCEPT ![t].face_verified = TRUE]
        /\ calls' = [calls EXCEPT ![c] = [at |-> "ok"]]
        /\ UNCHANGED <<page, ballots>>
    BY <1>7 DEF ServeUpload, Answer
  <2>2. NothingSent
    BY <1>f, <2>1 DEF NothingSent, Sent, Opened, Openers, Controls, Uploads
  <2>3. \A s \in Tokens : Live(s)' =>
          /\ Live(s) /\ page_sessions'[s].voter = page_sessions[s].voter
          /\ page_sessions'[s].otp_verified => Owned(s)
    <3> SUFFICES ASSUME NEW s \in Tokens, Live(s)'
                 PROVE  /\ Live(s) /\ page_sessions'[s].voter = page_sessions[s].voter
                        /\ page_sessions'[s].otp_verified => Owned(s)
      OBVIOUS
    <3>1. CASE s = t
      <4>1. page_sessions[s] \in PageSession
        BY <1>a, <2>1, <3>1 DEF PageTypes, Live
      <4>2. page_sessions'[s] = [page_sessions[s] EXCEPT !.face_verified = TRUE]
        BY <1>a, <2>1, <3>1 DEF PageTypes
      <4> QED  BY <1>b, <2>1, <3>1, <4>1, <4>2 DEF PageSession
    <3>2. CASE s # t
      <4>1. page_sessions'[s] = page_sessions[s]  BY <1>a, <2>1, <3>2 DEF PageTypes
      <4> QED  BY <1>b, <4>1 DEF Live
    <3> QED  BY <3>1, <3>2
  <2> QED  BY <2>1, <2>2, <2>3, NothingNew
<1>8. CASE ServeCast /\ Sent("cast")
  <2> DEFINE t == calls["cast"].token
  <2>1. /\ Live(t) /\ page_sessions[t].otp_verified
        /\ ballots' = ballots \cup {[for |-> page_sessions[t].voter, by |-> calls["cast"].by]}
        /\ calls' = [calls EXCEPT !["cast"] = [at |-> "ok"]]
        /\ UNCHANGED <<page, page_sessions>>
    BY <1>8 DEF ServeCast, Answer
  <2>2. t \in Tokens
    BY <1>a, <1>d, <1>8, <2>1 DEF Live, Tokens, PageTypes
  <2>3. calls["cast"].by = page_sessions[t].voter
    BY <1>b, <1>8, <2>1, <2>2 DEF Owned
  <2>4. BallotsAreTheirCasters'
    BY <1>a, <2>1, <2>3 DEF BallotsAreTheirCasters
  <2>5. NothingSent
    BY <1>f, <2>1 DEF NothingSent, Sent, Opened, Openers, Controls
  <2>6. (TokensComeOnce /\ CastFromThePage /\ CodesAreOwned)'
    <3>1. \A s : Unheard(s) => Unheard(s)'  BY <2>5 DEF NothingSent, Unheard
    <3>2. \A s : Live(s)' = Live(s)  BY <2>1 DEF Live
    <3>3. \A s : Owned(s) => Owned(s)'
      BY <2>1, <2>5, <3>1, <3>2 DEF Owned, NothingSent
    <3>4. CodesAreOwned'
      BY <1>a, <2>1, <2>5, <3>2, <3>3 DEF CodesAreOwned, NothingSent
    <3> QED
      BY <1>a, <2>1, <2>5, <3>1, <3>4 DEF TokensComeOnce, CastFromThePage, NothingSent, Openers
  <2> QED  BY <2>4, <2>6
<1>9. ASSUME NEW c \in Uploads \cup {"cast"}, ServeExpired(c) PROVE Kept
  <2>1. NothingSent
    BY <1>f, <1>9 DEF ServeExpired, Answer, NothingSent, Sent, Opened, Openers,
       Controls, Uploads
  <2> QED  BY <1>e, <1>9, <2>1 DEF ServeExpired
<1>10. ASSUME NEW c \in Controls, Lose(c) PROVE Kept
  <2>1. NothingSent
    BY <1>f, <1>10 DEF Lose, NothingSent, Sent, Opened, Openers, Controls
  <2> QED  BY <1>e, <1>10, <2>1 DEF Lose
<1>11. ASSUME NEW c \in Controls, Resume(c) PROVE Kept
  <2>1. calls' = [calls EXCEPT ![c] = NoCall] /\ UNCHANGED server
    BY <1>11 DEF Resume
  <2>2. NothingSent
    BY <1>f, <2>1 DEF NothingSent, Sent, Opened, Openers, Controls
  <2>3. CASE OnExpired
    BY <2>1, <2>2, <2>3, <1>g DEF OnExpired, Restart
  <2>4. CASE c \in Openers /\ Opened(c) /\ token' = calls[c].token
    <3>1. PICK t \in 1..page_issued : t = calls[c].token  BY <1>c, <2>4
    <3>2. \A s \in Tokens : Owned(s) /\ Live(s) => s # t
      BY <2>4, <3>1 DEF Owned, Unheard
    <3>3. Unheard(t)'
      BY <1>a, <1>f, <2>1, <2>4, <3>1 DEF Unheard, TokensComeOnce, Openers, Opened, Controls
    <3>4. (Sent("otp") => calls["otp"].token # t) /\ (Sent("cast") => calls["cast"].token # t)
      BY <1>a, <2>4, <3>1 DEF TokensComeOnce, Unheard
    <3>5. \A s : Unheard(s) => Unheard(s)'  BY <2>2 DEF NothingSent, Unheard
    <3>6. \A s \in Tokens : Live(s) /\ Owned(s) => Owned(s)'
      BY <2>1, <2>2, <2>4, <3>1, <3>2, <3>5 DEF Owned, NothingSent, Live
    <3>7. CodesAreOwned'
      BY <1>a, <1>b, <1>d, <2>1, <2>2, <3>6 DEF CodesAreOwned, NothingSent, Live, Owned,
         PageTypes, Tokens
    <3> QED
      BY <1>a, <2>1, <2>2, <2>4, <3>1, <3>3, <3>4, <3>5, <3>7 DEF TokensComeOnce, CastFromThePage,
         NothingSent, Openers, BallotsAreTheirCasters
  <2>5. CASE UNCHANGED <<token, credentials>>
    BY <1>e, <2>1, <2>2, <2>5
  <2> QED
    BY <1>11, <2>3, <2>4, <2>5 DEF Resume, Shows, OnOk, OnVerified,
       OnResent, OnOtp, OnFace, OnCast, Opened, Openers
<1>12. ASSUME NEW t \in Tokens, Expire(t) PROVE Kept
  <2>1. NothingSent  BY <1>12 DEF Expire, NothingSent, Sent, Opened
  <2>2. \A s \in Tokens : Live(s)' =>
          Live(s) /\ page_sessions'[s] = page_sessions[s]
    BY <1>a, <1>12 DEF Expire, Live, PageTypes
  <2> QED  BY <1>b, <1>12, <2>1, <2>2, NothingNew DEF Expire
<1>13. CASE Reload
  <2>1. NothingSent
    BY <1>13 DEF Reload, NothingSent, Sent, Opened, Openers, Controls
  <2> QED  BY <1>g, <1>13, <2>1 DEF Reload, Restart
<1>14. CASE UNCHANGED pageVars
  BY <1>e, <1>14 DEF pageVars, NothingSent, Sent, Opened
<1>15. ASSUME NEW c \in Controls, Serve(c) PROVE Kept
  BY <1>5, <1>6, <1>7, <1>8, <1>9, <1>15 DEF Serve, Openers, Sent, Uploads
<1> QED
  BY <1>1, <1>2, <1>3, <1>4, <1>10, <1>11, <1>12, <1>13, <1>14, <1>15 DEF NextPage

LEMMA PageInvHolds == FairSpecPage => []PageInv
<1>1. PageInv /\ [NextPage]_pageVars => PageInv'
  BY PageTypesKept, PageOwnershipKept DEF PageInv
<1> QED  BY PageInit, <1>1, PTL DEF FairSpecPage

(* No answer, however late, and no token that was replaced lets one voter  *)
(* at the page cast the ballot of another, for any number of voters and    *)
(* sessions.                                                               *)
THEOREM BallotsStayWithTheirCasters == FairSpecPage => []BallotsAreTheirCasters
<1>1. PageInv => BallotsAreTheirCasters  BY DEF PageInv
<1> QED  BY <1>1, PageInvHolds, PTL

-----------------------------------------------------------------------------
(* The rate limiter in front of the voter's handlers: how far its limit    *)
(* can be overrun, for any number of threads, any limit and any window.    *)
(* Len(q) alone is not inductive: between its test of the length and its   *)
(* append a thread has room that no other thread sees, so these threads    *)
(* are counted with the deque.                                             *)

LimiterTypes ==
  /\ clock \in Nat
  /\ q \in Seq(Nat)
  /\ pc \in [Threads -> Statements]
  /\ thread_now \in [Threads -> Nat]

Appending == {t \in Threads : pc[t] = "append"}

BurstInv == Len(q) + Cardinality(Appending) <= limit + Cardinality(Threads) - 1

LimiterInv == LimiterTypes /\ BurstInv

-----------------------------------------------------------------------------
(* How the set of appending threads changes with one thread's statement. *)

LEMMA AppendingFinite ==
  /\ IsFiniteSet(Appending) /\ Cardinality(Appending) \in Nat
  /\ Cardinality(Threads) \in Nat /\ Cardinality(Appending) <= Cardinality(Threads)
  BY RateLimiterAssumptions, FS_Subset, FS_CardinalityType DEF Appending

(* A thread that was not and is not about to append changes nothing. *)
LEMMA AppendingKept ==
  ASSUME LimiterTypes, NEW t \in Threads, NEW to \in Statements, to # "append",
         pc[t] # "append", pc' = [pc EXCEPT ![t] = to]
  PROVE  Appending' = Appending
  BY DEF Appending, LimiterTypes

(* One that is now about to append is one more, of all the threads at most. *)
LEMMA AppendingJoined ==
  ASSUME LimiterTypes, NEW t \in Threads,
         pc[t] # "append", pc' = [pc EXCEPT ![t] = "append"]
  PROVE  Cardinality(Appending') <= Cardinality(Threads)
  <1>1. Appending' \subseteq Threads
    BY DEF Appending
  <1> QED
    BY RateLimiterAssumptions, <1>1, FS_Subset DEF LimiterTypes

(* One that has appended is one less. *)
LEMMA AppendingLeft ==
  ASSUME LimiterTypes, NEW t \in Threads,
         pc[t] = "append", pc' = [pc EXCEPT ![t] = "idle"]
  PROVE  Cardinality(Appending') = Cardinality(Appending) - 1
  <1>1. Appending' = Appending \ {t} /\ t \in Appending
    BY DEF Appending, LimiterTypes
  <1> QED
    BY <1>1, AppendingFinite, FS_RemoveElement DEF LimiterTypes

-----------------------------------------------------------------------------

LEMMA LimiterInit == InitLimiter => LimiterInv
  <1> SUFFICES ASSUME InitLimiter PROVE LimiterInv
    OBVIOUS
  <1>1. LimiterTypes
    BY DEF InitLimiter, LimiterTypes, Statements
  <1>2. Appending = {}
    BY DEF InitLimiter, Appending
  <1>3. Cardinality(Threads) > 0
    BY RateLimiterAssumptions, AppendingFinite, FS_EmptySet
  <1> QED
    BY RateLimiterAssumptions, <1>1, <1>2, <1>3, FS_EmptySet, AppendingFinite
    DEF InitLimiter, LimiterInv, BurstInv

LEMMA LimiterTypesKept == LimiterTypes /\ [NextLimiter]_limiterVars => LimiterTypes'
  <1> SUFFICES ASSUME LimiterTypes, [NextLimiter]_limiterVars PROVE LimiterTypes'
    OBVIOUS
  <1>1. CASE Tick
    BY <1>1 DEF Tick, LimiterTypes
  <1>2. ASSUME NEW t \in Threads, Start(t) PROVE LimiterTypes'
    BY <1>2 DEF Start, GoTo, LimiterTypes, Statements
  <1>3. ASSUME NEW t \in Threads, Test(t) PROVE LimiterTypes'
    BY <1>3 DEF Test, GoTo, LimiterTypes, Statements
  <1>4. ASSUME NEW t \in Threads, Peek(t) PROVE LimiterTypes'
    BY <1>4 DEF Peek, GoTo, LimiterTypes, Statements
  <1>5. ASSUME NEW t \in Threads, Pop(t) PROVE LimiterTypes'
    BY <1>5 DEF Pop, Popped, GoTo, LimiterTypes, Statements
  <1>6. ASSUME NEW t \in Threads, EmptiedMeanwhile(t) PROVE LimiterTypes'
    BY <1>6 DEF EmptiedMeanwhile, GoTo, LimiterTypes, Statements
  <1>7. ASSUME NEW t \in Threads, Count(t) PROVE LimiterTypes'
    BY <1>7 DEF Count, GoTo, LimiterTypes, Statements
  <1>8. ASSUME NEW t \in Threads, Admit(t) PROVE LimiterTypes'
    BY <1>8 DEF Admit, GoTo, LimiterTypes, Statements
  <1>9. CASE UNCHANGED limiterVars
    BY <1>9 DEF limiterVars, LimiterTypes
  <1> QED
    BY <1>1, <1>2, <1>3, <1>4, <1>5, <1>6, <1>7, <1>8, <1>9 DEF NextLimiter, Continue

LEMMA BurstKept == LimiterInv /\ [NextLimiter]_limiterVars => BurstInv'
  <1> SUFFICES ASSUME LimiterTypes, BurstInv, [NextLimiter]_limiterVars PROVE BurstInv'
    BY DEF LimiterInv
  <1>a. limit \in Nat  BY RateLimiterAssumptions DEF LimiterTypes
  <1> USE <1>a, AppendingFinite
  <1>1. CASE Tick
    BY <1>1 DEF Tick, BurstInv, Appending
  <1>2. ASSUME NEW t \in Threads, Start(t) PROVE BurstInv'
    BY <1>2, AppendingKept DEF Start, GoTo, BurstInv, Statements
  <1>3. ASSUME NEW t \in Threads, Test(t) PROVE BurstInv'
    <2> DEFINE to == IF q = << >> THEN "count" ELSE "peek"
    <2>1. to \in Statements /\ to # "append"
      BY DEF Statements
    <2>2. Appending' = Appending
      BY <1>3, <2>1, AppendingKept DEF Test, GoTo
    <2> QED
      BY <1>3, <2>2 DEF Test, BurstInv
  <1>4. ASSUME NEW t \in Threads, Peek(t) PROVE BurstInv'
    <2> DEFINE to == IF Expired(t) THEN "pop" ELSE "count"
    <2>1. to \in Statements /\ to # "append"
      BY DEF Statements
    <2>2. Appending' = Appending
      BY <1>4, <2>1, AppendingKept DEF Peek, GoTo
    <2> QED
      BY <1>4, <2>2 DEF Peek, BurstInv
  <1>5. ASSUME NEW t \in Threads, Pop(t) PROVE BurstInv'
    <2>1. Appending' = Appending
      BY <1>5, AppendingKept DEF Pop, GoTo, Statements
    <2>2. Len(q') = Len(q) - 1
      BY <1>5 DEF Pop, Popped, LimiterTypes
    <2>3. Len(q) \in Nat
      BY DEF LimiterTypes
    <2> QED
      BY <2>1, <2>2, <2>3 DEF BurstInv
  <1>6. ASSUME NEW t \in Threads, EmptiedMeanwhile(t) PROVE BurstInv'
    BY <1>6, AppendingKept DEF EmptiedMeanwhile, GoTo, BurstInv, Statements
  <1>7. ASSUME NEW t \in Threads, Count(t) PROVE BurstInv'
    <2>1. CASE Full
      BY <1>7, <2>1, AppendingKept DEF Count, GoTo, BurstInv, Statements
    <2>2. CASE ~Full
      <3>1. Cardinality(Appending') <= Cardinality(Threads)
        BY <1>7, <2>2, AppendingJoined DEF Count, GoTo
      <3>2. Len(q') = Len(q) /\ Len(q) \in Nat /\ Len(q) <= limit - 1
        BY <1>7, <2>2 DEF Count, Full, LimiterTypes
      <3>3. Cardinality(Appending') \in Nat
        <4>1. Appending' \subseteq Threads
          BY DEF Appending
        <4> QED
          BY RateLimiterAssumptions, <4>1, FS_Subset, FS_CardinalityType
      <3> QED
        BY <3>1, <3>2, <3>3 DEF BurstInv
    <2> QED
      BY <2>1, <2>2
  <1>8. ASSUME NEW t \in Threads, Admit(t) PROVE BurstInv'
    <2>1. Cardinality(Appending') = Cardinality(Appending) - 1
      BY <1>8, AppendingLeft DEF Admit, GoTo
    <2>2. Len(q') = Len(q) + 1 /\ Len(q) \in Nat
      BY <1>8 DEF Admit, LimiterTypes
    <2> QED
      BY <2>1, <2>2 DEF BurstInv
  <1>9. CASE UNCHANGED limiterVars
    BY <1>9 DEF limiterVars, BurstInv, Appending
  <1> QED
    BY <1>1, <1>2, <1>3, <1>4, <1>5, <1>6, <1>7, <1>8, <1>9 DEF NextLimiter, Continue

(* The limit of security.rate_limit is never overrun by more than one      *)
(* request for every other thread of the pool.                             *)
THEOREM BurstAlwaysBounded == SpecLimiter => []BurstBounded
  <1>1. LimiterInv /\ [NextLimiter]_limiterVars => LimiterInv'
    BY LimiterTypesKept, BurstKept DEF LimiterInv
  <1>2. LimiterInv => BurstBounded
    <2> SUFFICES ASSUME LimiterInv PROVE BurstBounded
      OBVIOUS
    <2>1. Len(q) \in Nat
      BY DEF LimiterInv, LimiterTypes
    <2> QED
      BY RateLimiterAssumptions, <2>1, AppendingFinite
      DEF LimiterInv, LimiterTypes, BurstInv, BurstBounded
  <1> QED
    BY LimiterInit, <1>1, <1>2, PTL DEF SpecLimiter
=============================================================================
