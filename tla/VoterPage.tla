------------------------------ MODULE VoterPage ------------------------------
(***************************************************************************)
(* The voter's page (static/js/voter.js) against the voter API.  The page  *)
(* is a wizard of five panels with a token it got from the last answer to  *)
(* verify.  A control is disabled until its own request is answered, and   *)
(* no other is, so that resend and submit can be in flight together and be *)
(* answered in any order, over a network that loses requests and answers.  *)
(* A photo disables the capture button and not itself: uploads overlap,    *)
(* and the two that can here are named after the two controls.  Voters use *)
(* the page one after another.                                             *)
(*                                                                         *)
(* The server keeps what the page can tell apart: which sessions live, and *)
(* what they have passed.  Its counters and caps are refusals it may give  *)
(* at any time; a session may expire at any time.                          *)
(*                                                                         *)
(* Names that the API's modules have too begin or end with "page", so that *)
(* a module can extend both.                                               *)
(***************************************************************************)
EXTENDS Naturals

CONSTANTS
  People,            \* the voters, one after another
  Nobody,            \* the page's credentials before anyone identified herself
  NoRow,             \* no sessions row for a token
  MaxIssued          \* bound: how many sessions are opened

Tokens == 1..MaxIssued
NoToken == 0

ASSUME VoterPageAssumptions == MaxIssued \in Nat /\ Nobody \notin People

Controls == {"verify", "resend", "otp", "capture", "photo", "cast"}
Uploads == {"capture", "photo"}

VARIABLES
  step,           \* the panel that is shown, 1..5
  token,          \* state.token
  credentials,    \* state.credentials
  listed,         \* panel 4 lists an open election, and btn-cast is enabled
  calls,          \* the request under way of each control
  page_sessions,  \* sessions: the row of each token, or NoRow
  page_issued,    \* how many tokens were issued
  ballots         \* history: for whom a ballot counts, and who cast it

page == <<step, token, credentials, listed>>
server == <<page_sessions, page_issued, ballots>>
pageVars == <<page, calls, server>>

(* A call is "out" until the server takes it up; its answer is "ok" or       *)
(* "expired", the 401 that restarts the page.  Any other answer is Lose.     *)
NoCall == [at |-> "none"]
Identity(at, v, t) == [at |-> at, by |-> v, token |-> t]
Code(t, code) == [at |-> "out", token |-> t, code |-> code]
Picture(t) == [at |-> "out", token |-> t]
CastCall(v, t) == [at |-> "out", by |-> v, token |-> t]

PageSession == [voter : People, otp_verified : BOOLEAN, face_verified : BOOLEAN]

Fresh(v) == [voter |-> v, otp_verified |-> FALSE, face_verified |-> FALSE]

InitPage ==
  /\ step = 1 /\ token = NoToken /\ credentials = Nobody
  /\ listed = FALSE
  /\ calls = [c \in Controls |-> NoCall]
  /\ page_sessions = [t \in Tokens |-> NoRow]
  /\ page_issued = 0
  /\ ballots = {}

-----------------------------------------------------------------------------
(* The voter presses a control: api() reads state.token now, and the        *)
(* control stays disabled until its own answer comes.                       *)

Send(c, call) ==
  /\ calls[c] = NoCall
  /\ calls' = [calls EXCEPT ![c] = call]
  /\ UNCHANGED <<page, server>>

PressVerify == step = 1 /\ \E v \in People : Send("verify", Identity("out", v, NoToken))

PressResend == step = 2 /\ Send("resend", Identity("out", credentials, NoToken))

Live(t) == t # NoToken /\ page_sessions[t] # NoRow

(* Whoever identified herself types the code of her session, which is on    *)
(* her own phone.  A code is named by the token of its session; an old one  *)
(* would only be refused.                                                   *)
PressOtp ==
  step = 2 /\ \E t \in Tokens : /\ Live(t) /\ page_sessions[t].voter = credentials
                                /\ Send("otp", Code(token, t))

PressUpload(c) == c \in Uploads /\ step = 3 /\ Send(c, Picture(token))

PressCast == step = 4 /\ listed /\ Send("cast", CastCall(credentials, token))

-----------------------------------------------------------------------------
(* The server's transactions. *)

Answer(c, at) == calls' = [calls EXCEPT ![c] = [at |-> at]]

(* main.verify: the voter's other session goes, a new one is opened and its *)
(* code sent.  A refusal is Lose; a failed SMS, whose session is deleted    *)
(* again, is Lose and Expire.                                               *)
ServeVerify(c) ==
  LET v == calls[c].by
      t == page_issued + 1
      others == [s \in Tokens |-> IF Live(s) /\ page_sessions[s].voter = v THEN NoRow
                                  ELSE page_sessions[s]]
  IN /\ t \in Tokens
     /\ page_issued' = t
     /\ page_sessions' = [others EXCEPT ![t] = Fresh(v)]
     /\ calls' = [calls EXCEPT ![c] = Identity("ok", v, t)]
     /\ UNCHANGED <<page, ballots>>

(* Mutant: the code is hashed without the token of its session. *)
MatchesAny(code, t) == Live(code)

(* otp_hash(token_hash, code): a code is good for its own session only. *)
Matches(code, t) == code = t

(* main.verify_otp: a wrong code and a dead session are both 401, which the *)
(* page only shows here: they are Lose.                                     *)
ServeOtp ==
  LET t == calls["otp"].token
  IN /\ Live(t) /\ Matches(calls["otp"].code, t)
     /\ page_sessions' = [page_sessions EXCEPT ![t].otp_verified = TRUE]
     /\ Answer("otp", "ok")
     /\ UNCHANGED <<page, page_issued, ballots>>

(* main.verify_face: a picture that is not accepted is Lose. *)
ServeUpload(c) ==
  LET t == calls[c].token
  IN /\ Live(t) /\ page_sessions[t].otp_verified
     /\ page_sessions' = [page_sessions EXCEPT ![t].face_verified = TRUE]
     /\ Answer(c, "ok")
     /\ UNCHANGED <<page, page_issued, ballots>>

(* main.cast_ballot, in one open election *)
ServeCast ==
  LET t == calls["cast"].token
  IN /\ Live(t) /\ page_sessions[t].otp_verified /\ page_sessions[t].face_verified
     /\ \A b \in ballots : b.for # page_sessions[t].voter
     /\ ballots' = ballots \cup {[for |-> page_sessions[t].voter, by |-> calls["cast"].by]}
     /\ Answer("cast", "ok")
     /\ UNCHANGED <<page, page_sessions, page_issued>>

(* 401: the session has expired, or another replaced it. *)
ServeExpired(c) ==
  /\ ~Live(calls[c].token)
  /\ Answer(c, "expired")
  /\ UNCHANGED <<page, server>>

Serve(c) ==
  /\ calls[c] # NoCall /\ calls[c].at = "out"
  /\ \/ c \in {"verify", "resend"} /\ ServeVerify(c)
     \/ c = "otp" /\ ServeOtp
     \/ c \in Uploads /\ ServeUpload(c)
     \/ c = "cast" /\ ServeCast
     \/ c \in Uploads \cup {"cast"} /\ ServeExpired(c)

Expire(t) ==
  /\ Live(t)
  /\ page_sessions' = [page_sessions EXCEPT ![t] = NoRow]
  /\ UNCHANGED <<page, calls, page_issued, ballots>>

(* The request is refused, or it or its answer is lost and fetch rejects:   *)
(* the page shows it and enables the control again.                         *)
Lose(c) ==
  /\ calls[c] # NoCall
  /\ calls' = [calls EXCEPT ![c] = NoCall]
  /\ UNCHANGED <<page, server>>

-----------------------------------------------------------------------------
(* The page's continuations. *)

(* Panel n is shown; only the fourth has a list of elections. *)
Panel(n) == step' = n /\ listed' \in (IF n = 4 THEN BOOLEAN ELSE {FALSE})

Restart == Panel(1) /\ token' = NoToken /\ credentials' = Nobody

(* Mutant: a 401 is only shown. *)
OnlySaid == UNCHANGED page

(* catch: error.status === 401 restarts the wizard. *)
OnExpired == Restart

OnVerified(call) == Panel(2) /\ token' = call.token /\ credentials' = call.by

OnResent(call) == token' = call.token /\ UNCHANGED <<step, credentials, listed>>

OnOtp == Panel(3) /\ UNCHANGED <<token, credentials>>

(* loadElections follows. *)
OnFace == Panel(4) /\ UNCHANGED <<token, credentials>>

OnCast == Panel(5) /\ UNCHANGED <<token, credentials>>

OnOk(c) ==
  \/ c = "verify" /\ OnVerified(calls[c])
  \/ c = "resend" /\ OnResent(calls[c])
  \/ c = "otp" /\ OnOtp
  \/ c \in Uploads /\ OnFace
  \/ c = "cast" /\ OnCast

Shows(c) ==
  \/ calls[c].at = "ok" /\ OnOk(c)
  \/ calls[c].at = "expired" /\ OnExpired

Resume(c) ==
  /\ calls[c] # NoCall
  /\ Shows(c)
  /\ calls' = [calls EXCEPT ![c] = NoCall]
  /\ UNCHANGED server

(* The page is loaded again, at the last panel for the next voter, at any    *)
(* other at will: its state and its calls are gone.                          *)
Reload ==
  /\ Restart
  /\ calls' = [c \in Controls |-> NoCall]
  /\ UNCHANGED server

NextPage ==
  \/ PressVerify \/ PressResend \/ PressOtp \/ PressCast
  \/ \E c \in Controls : PressUpload(c) \/ Serve(c) \/ Lose(c) \/ Resume(c)
  \/ \E t \in Tokens : Expire(t)
  \/ Reload

Main == {"capture", "cast"}
Press == PressUpload("capture") \/ PressCast
Served == \E c \in Main : Serve(c)
Resumed == \E c \in Main : Resume(c)

(* The voter keeps pressing the panel's main button, the network does not   *)
(* lose every such request nor every answer, and sessions reach their       *)
(* expiry.  Nobody has to reload the page or to press anything else.        *)
Fairness ==
  /\ WF_pageVars(Press) /\ SF_pageVars(Served) /\ SF_pageVars(Resumed)
  /\ WF_pageVars(\E t \in Tokens : Expire(t))

FairSpecPage == InitPage /\ [][NextPage]_pageVars /\ Fairness

-----------------------------------------------------------------------------
(* Properties. *)

(* Every ballot counts for the voter who had identified herself on the page *)
(* when it was cast: neither a late answer to the voter before her nor a    *)
(* token replaced by a resend lets one voter cast another's.                *)
BallotsAreTheirCasters == \A b \in ballots : b.for = b.by

(* No mix of answers strands the voter: a token that was replaced while its *)
(* code was being checked leaves her at a panel that cannot succeed, but    *)
(* the session's expiry brings her back to one that can, unless no election *)
(* was listed and the page offers nothing to press.                         *)
NoDeadPanel ==
  (step \in {3, 4}) ~> (step \in {1, 2, 5} \/ (step = 4 /\ ~listed))
=============================================================================
