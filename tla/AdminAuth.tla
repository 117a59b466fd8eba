------------------------------ MODULE AdminAuth ------------------------------
(***************************************************************************)
(* Who may act as an administrator: accounts, logins, sessions and the     *)
(* role check in front of every admin handler (admin.py require_role,      *)
(* login, logout; manage.py create_admin).                                 *)
(*                                                                         *)
(* A request is two steps: require_role reads session and role in a        *)
(* transaction of its own, then the handler acts in a later one with the   *)
(* user name it was handed.  The operator may replace the account, the     *)
(* session may expire or be logged out, and the process may die between.   *)
(***************************************************************************)
EXTENDS Integers, Sequences

CONSTANTS
  Usernames, Passwords,
  Requests,                \* the requests the server can have in hand
  NoAdmin, NoSession,
  ADMIN_TTL,               \* ticks
  MaxTokens, MaxTime,      \* bounds: logins that succeed, ticks
  MaxTrail                 \* bound: events recorded

Roles == {"ADMIN", "REGISTRAR", "AUDITOR"}
Account == [password : Passwords, role : Roles]
Session == [username : Usernames, expires_at : Nat]

ASSUME AdminAuthAssumptions ==
  /\ ADMIN_TTL \in Nat \ {0}
  /\ MaxTokens \in Nat /\ MaxTime \in Nat /\ MaxTrail \in Nat
  /\ NoAdmin \notin Account
  /\ NoSession \notin Session

Tokens == 1..MaxTokens

(* The roles each handler is declared with.  Handlers that only read are   *)
(* left out.                                                               *)
Allowed ==
  [register_voter    |-> {"ADMIN", "REGISTRAR"},
   add_officer       |-> {"ADMIN"},
   set_officer_state |-> {"ADMIN"},
   logout            |-> Roles]
Handlers == DOMAIN Allowed

VARIABLES
  now,              \* now_utc()
  admins,           \* admins: the account of each user name, or NoAdmin
  admin_sessions,   \* admin_sessions: the row of each token, or NoSession
  requests,         \* what each request in hand was admitted as
  trail             \* history: credentials saved, logins and acts, in order

authVars == <<now, admins, admin_sessions, requests, trail>>

(* A request that passed require_role: the token and the handler it is for, *)
(* the name it acts under, and when it was admitted: the time, and how many *)
(* events had happened.                                                     *)
Idle == [handler |-> "none"]
Admitted == [handler : Handlers, username : Usernames, token : Tokens,
             at : Nat, seen : Nat]

Credentials == [event : {"credentials"}, username : Usernames, role : Roles]
Login == [event : {"login"}, username : Usernames, token : Tokens, at : Nat]
LoginFailed == [event : {"login_failed"}]
Act == [event : {"act"}, by : Admitted]
Event == Credentials \cup Login \cup LoginFailed \cup Act

Init ==
  /\ now = 0
  /\ admins = [u \in Usernames |-> NoAdmin]
  /\ admin_sessions = [t \in Tokens |-> NoSession]
  /\ requests = [r \in Requests |-> Idle]
  /\ trail = << >>

is_expired(at) == at <= now

Records(e) == Len(trail) < MaxTrail /\ trail' = Append(trail, e)

Tick ==
  /\ now < MaxTime
  /\ now' = now + 1
  /\ UNCHANGED <<admins, admin_sessions, requests, trail>>

(* Mutant: the DELETE of create_admin is forgotten. *)
NoRevocation(u) == admin_sessions

(* DELETE FROM admin_sessions WHERE username = u *)
Revoked(u) ==
  [t \in Tokens |-> IF admin_sessions[t] # NoSession /\ admin_sessions[t].username = u
                    THEN NoSession ELSE admin_sessions[t]]

(* manage.create_admin: a new account, or a new password and role. *)
CreateAdmin(u, p, role) ==
  /\ admins' = [admins EXCEPT ![u] = [password |-> p, role |-> role]]
  /\ admin_sessions' = Revoked(u)
  /\ Records([event |-> "credentials", username |-> u, role |-> role])
  /\ UNCHANGED <<now, requests>>

(* admin.login: the row is inserted and the login recorded in one            *)
(* transaction; a failure is recorded too, and answered 401 after it commits. *)
LogIn(u, p, t) ==
  /\ admins[u] # NoAdmin /\ admins[u].password = p
  /\ \A i \in DOMAIN trail : trail[i].event = "login" => trail[i].token < t
  /\ admin_sessions' = [admin_sessions EXCEPT
       ![t] = [username |-> u, expires_at |-> now + ADMIN_TTL]]
  /\ Records([event |-> "login", username |-> u, token |-> t, at |-> now])
  /\ UNCHANGED <<now, admins, requests>>

FailedLogIn ==
  /\ Records([event |-> "login_failed"])
  /\ UNCHANGED <<now, admins, admin_sessions, requests>>

(* Mutant: the expiry is not checked. *)
LiveUnchecked(t) == admin_sessions[t] # NoSession

Live(t) == admin_sessions[t] # NoSession /\ ~is_expired(admin_sessions[t].expires_at)

(* The role is the account's at the time of the read: a join, not a copy    *)
(* made at login.                                                           *)
HasRole(t, h) == admins[admin_sessions[t].username].role \in Allowed[h]

(* require_role; 401 and 403 change nothing. *)
Admit(r, t, h) ==
  /\ requests[r] = Idle
  /\ Live(t)
  /\ HasRole(t, h)
  /\ requests' = [requests EXCEPT ![r] =
       [handler |-> h, username |-> admin_sessions[t].username, token |-> t,
        at |-> now, seen |-> Len(trail)]]
  /\ UNCHANGED <<now, admins, admin_sessions, trail>>

(* The handler's own transaction, with its audit entry. *)
Handle(r, h) ==
  /\ requests[r] # Idle /\ requests[r].handler = h
  /\ requests' = [requests EXCEPT ![r] = Idle]
  /\ Records([event |-> "act", by |-> requests[r]])
  /\ UNCHANGED <<now, admins>>

(* Every handler but logout leaves accounts and sessions alone. *)
Serve(r, h) ==
  /\ h # "logout"
  /\ Handle(r, h)
  /\ UNCHANGED admin_sessions

LogOut(r) ==
  /\ Handle(r, "logout")
  /\ admin_sessions' = [admin_sessions EXCEPT ![requests[r].token] = NoSession]

(* The handler's transaction is refused and rolled back, or the process     *)
(* dies with the request in hand.                                           *)
Drop(r) ==
  /\ requests[r] # Idle
  /\ requests' = [requests EXCEPT ![r] = Idle]
  /\ UNCHANGED <<now, admins, admin_sessions, trail>>

AuthStep ==
  \/ Tick
  \/ \E u \in Usernames, p \in Passwords, role \in Roles : CreateAdmin(u, p, role)
  \/ \E u \in Usernames, p \in Passwords, t \in Tokens : LogIn(u, p, t)
  \/ FailedLogIn
  \/ \E r \in Requests, t \in Tokens, h \in Handlers : Admit(r, t, h)
  \/ \E r \in Requests : LogOut(r) \/ Drop(r)

Next == AuthStep \/ \E r \in Requests, h \in Handlers : Serve(r, h)

Spec == Init /\ [][Next]_authVars

-----------------------------------------------------------------------------
(* Properties. *)

(* Every variable keeps its type. *)
AuthTypeOK ==
  /\ now \in Nat
  /\ admins \in [Usernames -> Account \cup {NoAdmin}]
  /\ admin_sessions \in [Tokens -> Session \cup {NoSession}]
  /\ requests \in [Requests -> Admitted \cup {Idle}]
  /\ trail \in Seq(Event)

(* The i-th event saved u's credentials, the last to do so up to event n. *)
LastCredentials(u, i, n) ==
  /\ trail[i] \in Credentials /\ trail[i].username = u
  /\ \A k \in i+1..n : ~(trail[k].event = "credentials" /\ trail[k].username = u)

(* The i-th event logged token t in, and none up to event n logged it out. *)
LastLogin(t, i, n) ==
  /\ trail[i] \in Login /\ trail[i].token = t
  /\ \A k \in i+1..n : ~(/\ trail[k].event = "act"
                         /\ trail[k].by.handler = "logout" /\ trail[k].by.token = t)

(* What a request was admitted as follows from the events before it: its    *)
(* user had the role, by the last credentials saved for her, and had logged *)
(* in with them, less than ADMIN_TTL before, and had not logged out.        *)
Justified(a) ==
  \E i, j \in 1..a.seen :
    /\ i < j
    /\ LastCredentials(a.username, i, a.seen)
    /\ trail[i].role \in Allowed[a.handler]
    /\ LastLogin(a.token, j, a.seen)
    /\ trail[j].username = a.username
    /\ a.at < trail[j].at + ADMIN_TTL

(* Everything done in an administrator's name was admitted on a login that  *)
(* was good when the request came in, although the account, the session and *)
(* the role may have gone by the time its transaction commits.              *)
EveryActIsJustified ==
  \A i \in DOMAIN trail : trail[i].event = "act" => Justified(trail[i].by)

(* No session outlives the password and the role it was opened with: its    *)
(* login comes after the last credentials saved for its user.  The revoking *)
(* DELETE and the login's INSERT are in different processes.                *)
NoSessionOutlivesItsCredentials ==
  \A t \in Tokens : admin_sessions[t] # NoSession =>
    \E i, j \in DOMAIN trail :
      /\ i < j
      /\ LastCredentials(admin_sessions[t].username, i, Len(trail))
      /\ LastLogin(t, j, Len(trail))
      /\ trail[j].username = admin_sessions[t].username
      /\ admin_sessions[t].expires_at = trail[j].at + ADMIN_TTL
=============================================================================
