------------------------ MODULE AdministrationProofs ------------------------
(***************************************************************************)
(* What guards the admin handlers, and what keeps the officers' keys, for  *)
(* every set of user names, passwords, requests and officers, every        *)
(* lifetime of a session and any number of logins, commands and crashes.   *)
(***************************************************************************)
EXTENDS Administration, TLAPS

(* An event is recognised by its tag. *)
LEMMA EventKinds ==
  ASSUME NEW e \in Event
  PROVE  /\ e.event = "credentials" => e \in Credentials
         /\ e.event = "login" => e \in Login
         /\ e.event = "act" => e \in Act
BY DEF Event, Credentials, Login, LoginFailed, Act

(* Recording an event leaves the earlier ones where they were. *)
LEMMA Recorded ==
  ASSUME trail \in Seq(Event), NEW e \in Event, trail' = Append(trail, e)
  PROVE  /\ Len(trail) \in Nat /\ Len(trail') = Len(trail) + 1
         /\ trail' \in Seq(Event)
         /\ trail'[Len(trail) + 1] = e
         /\ \A i \in 1..Len(trail) : trail'[i] = trail[i]
OBVIOUS

(* What happened up to an event is not changed by what is recorded later.  *)
LEMMA PastIsFixed ==
  ASSUME trail \in Seq(Event), NEW e \in Event, trail' = Append(trail, e),
         NEW n \in Nat, n <= Len(trail), NEW i \in 1..n
  PROVE  /\ \A u \in Usernames : LastCredentials(u, i, n) => LastCredentials(u, i, n)'
         /\ \A t \in Tokens : LastLogin(t, i, n) => LastLogin(t, i, n)'
<1>1. \A k \in 1..n : trail'[k] = trail[k]  BY Recorded
<1>2. \A k \in i+1..n : k \in 1..n  OBVIOUS
<1> QED  BY <1>1, <1>2 DEF LastCredentials, LastLogin

LEMMA JustifiedForGood ==
  ASSUME trail \in Seq(Event), NEW e \in Event, trail' = Append(trail, e),
         NEW a \in Admitted, a.seen <= Len(trail), Justified(a)
  PROVE  Justified(a)'
<1>1. /\ a.seen \in Nat /\ a.username \in Usernames /\ a.token \in Tokens
  BY DEF Admitted
<1>2. PICK i, j \in 1..a.seen :
        /\ i < j
        /\ LastCredentials(a.username, i, a.seen)
        /\ trail[i].role \in Allowed[a.handler]
        /\ LastLogin(a.token, j, a.seen)
        /\ trail[j].username = a.username
        /\ a.at < trail[j].at + ADMIN_TTL
  BY DEF Justified
<1>3. trail'[i] = trail[i] /\ trail'[j] = trail[j]  BY <1>1, Recorded
<1>4. LastCredentials(a.username, i, a.seen)' /\ LastLogin(a.token, j, a.seen)'
  BY <1>1, <1>2, PastIsFixed
<1> QED  BY <1>2, <1>3, <1>4 DEF Justified

(* The last credentials of a user stay the last until others are saved.    *)
LEMMA CredentialsLast ==
  ASSUME trail \in Seq(Event), NEW e \in Event, trail' = Append(trail, e),
         NEW u \in Usernames,
         ~(e.event = "credentials" /\ e.username = u),
         NEW i \in DOMAIN trail, LastCredentials(u, i, Len(trail))
  PROVE  LastCredentials(u, i, Len(trail))' /\ i \in DOMAIN trail'
<1>1. /\ Len(trail') = Len(trail) + 1 /\ Len(trail) \in Nat /\ trail' \in Seq(Event)
      /\ trail'[Len(trail) + 1] = e /\ \A k \in 1..Len(trail) : trail'[k] = trail[k]
  BY Recorded
<1>2. i \in 1..Len(trail) /\ DOMAIN trail' = 1..Len(trail')  BY <1>1
<1>3. \A k \in i+1..Len(trail') : k \in i+1..Len(trail) \/ k = Len(trail) + 1
  BY <1>1, <1>2
<1>4. \A k \in i+1..Len(trail) : k \in 1..Len(trail)  BY <1>1, <1>2
<1> QED  BY <1>1, <1>2, <1>3, <1>4 DEF LastCredentials

(* A login stays good until its token is logged out. *)
LEMMA LoginLasts ==
  ASSUME trail \in Seq(Event), NEW e \in Event, trail' = Append(trail, e),
         NEW t \in Tokens,
         ~(e.event = "act" /\ e.by.handler = "logout" /\ e.by.token = t),
         NEW j \in DOMAIN trail, LastLogin(t, j, Len(trail))
  PROVE  LastLogin(t, j, Len(trail))' /\ j \in DOMAIN trail'
<1>1. /\ Len(trail') = Len(trail) + 1 /\ Len(trail) \in Nat /\ trail' \in Seq(Event)
      /\ trail'[Len(trail) + 1] = e /\ \A k \in 1..Len(trail) : trail'[k] = trail[k]
  BY Recorded
<1>2. j \in 1..Len(trail) /\ DOMAIN trail' = 1..Len(trail')  BY <1>1
<1>3. \A k \in j+1..Len(trail') : k \in j+1..Len(trail) \/ k = Len(trail) + 1
  BY <1>1, <1>2
<1>4. \A k \in j+1..Len(trail) : k \in 1..Len(trail)  BY <1>1, <1>2
<1> QED  BY <1>1, <1>2, <1>3, <1>4 DEF LastLogin

-----------------------------------------------------------------------------
(* The register of officers and the command line leave accounts, sessions  *)
(* and requests alone except through the steps of AdminAuth: what is proved *)
(* of AdminAuth holds of the whole administration.                         *)
THEOREM AdministrationImplementsAuth == SpecAdministration => Spec
<1>1. InitAdministration => Init  BY DEF InitAdministration
<1>2. [NextAdministration]_administrationVars => [Next]_authVars
  <2> SUFFICES ASSUME [NextAdministration]_administrationVars PROVE [Next]_authVars
    OBVIOUS
  <2>1. CASE AuthStep /\ UNCHANGED officerVars  BY <2>1 DEF Next
  <2>2. ASSUME NEW r \in Requests, AdminCall(r) PROVE Next
    <3>1. PICK h \in Handlers : Serve(r, h)
      BY <2>2 DEF AdminCall, Handlers, Allowed
    <3> QED  BY <3>1 DEF Next
  <2>3. CASE \E o \in OfficerIds : CommandLine(o) /\ UNCHANGED authVars  BY <2>3
  <2>4. CASE UNCHANGED administrationVars  BY <2>4 DEF administrationVars
  <2> QED  BY <2>1, <2>2, <2>3, <2>4 DEF NextAdministration
<1> QED  BY <1>1, <1>2, PTL DEF SpecAdministration, Spec

-----------------------------------------------------------------------------
(* The invariant.  What an act was admitted on is a fact about the events  *)
(* before it, so it is enough that it holds when the request is admitted;  *)
(* for that, a session in the table must come from a good login, and the   *)
(* account the role is joined from must be the last one saved.             *)

RequestsAreJustified ==
  \A r \in Requests : requests[r] # Idle =>
    requests[r] \in Admitted /\ requests[r].seen <= Len(trail) /\ Justified(requests[r])

ActsAreJustified ==
  \A i \in DOMAIN trail : trail[i].event = "act" =>
    /\ trail[i].by \in Admitted /\ trail[i].by.seen <= Len(trail)
    /\ Justified(trail[i].by)

AccountsAreTheLastSaved ==
  \A u \in Usernames : admins[u] # NoAdmin =>
    \E i \in DOMAIN trail :
      LastCredentials(u, i, Len(trail)) /\ admins[u].role = trail[i].role

(* Nothing deletes an account: the join of session and account finds one.  *)
SessionsHaveAccounts ==
  \A t \in Tokens :
    admin_sessions[t] # NoSession => admins[admin_sessions[t].username] # NoAdmin

(* The last credentials are the last: two claims to be it agree. *)
LEMMA LastCredentialsUnique ==
  ASSUME trail \in Seq(Event), NEW u \in Usernames,
         NEW i \in DOMAIN trail, NEW j \in DOMAIN trail,
         LastCredentials(u, i, Len(trail)), LastCredentials(u, j, Len(trail))
  PROVE  i = j
<1>1. Len(trail) \in Nat /\ DOMAIN trail = 1..Len(trail)  OBVIOUS
<1>2. trail[i].event = "credentials" /\ trail[j].event = "credentials"
  BY DEF LastCredentials, Credentials
<1>3. ~(i < j)  BY <1>1, <1>2 DEF LastCredentials
<1>4. ~(j < i)  BY <1>1, <1>2 DEF LastCredentials
<1> QED  BY <1>1, <1>3, <1>4

AuthInv ==
  /\ AuthTypeOK
  /\ RequestsAreJustified
  /\ ActsAreJustified
  /\ AccountsAreTheLastSaved
  /\ SessionsHaveAccounts
  /\ NoSessionOutlivesItsCredentials

(* Every step but Tick records one event or none. *)
LEMMA NewEvent ==
  ASSUME AuthTypeOK, NEW e \in Event, Records(e)
  PROVE  /\ trail' = Append(trail, e)
         /\ trail \in Seq(Event)
         /\ \A i \in DOMAIN trail' : i \in DOMAIN trail \/ i = Len(trail) + 1
BY DEF AuthTypeOK, Records

-----------------------------------------------------------------------------
(* Types. *)

LEMMA EventTypes ==
  ASSUME AuthTypeOK
  PROVE  /\ \A u \in Usernames, role \in Roles :
              [event |-> "credentials", username |-> u, role |-> role] \in Credentials
         /\ \A u \in Usernames, t \in Tokens :
              [event |-> "login", username |-> u, token |-> t, at |-> now] \in Login
         /\ [event |-> "login_failed"] \in LoginFailed
         /\ \A a \in Admitted : [event |-> "act", by |-> a] \in Act
BY DEF AuthTypeOK, Credentials, Login, LoginFailed, Act

LEMMA AuthTypeStep ==
  ASSUME AuthTypeOK, [Next]_authVars
  PROVE  AuthTypeOK'
<1>1. ASSUME Tick PROVE AuthTypeOK'  BY <1>1 DEF Tick, AuthTypeOK
<1>2. ASSUME NEW u \in Usernames, NEW p \in Passwords, NEW role \in Roles,
             CreateAdmin(u, p, role)
      PROVE AuthTypeOK'
  <2>1. trail' \in Seq(Event)
    BY <1>2, EventTypes DEF CreateAdmin, Records, AuthTypeOK, Event
  <2>2. admins' \in [Usernames -> Account \cup {NoAdmin}]
    BY <1>2 DEF CreateAdmin, AuthTypeOK, Account
  <2>3. admin_sessions' \in [Tokens -> Session \cup {NoSession}]
    BY <1>2 DEF CreateAdmin, Revoked, AuthTypeOK
  <2> QED  BY <1>2, <2>1, <2>2, <2>3 DEF CreateAdmin, AuthTypeOK
<1>3. ASSUME NEW u \in Usernames, NEW p \in Passwords, NEW t \in Tokens, LogIn(u, p, t)
      PROVE AuthTypeOK'
  <2>1. trail' \in Seq(Event)
    BY <1>3, EventTypes DEF LogIn, Records, AuthTypeOK, Event
  <2>2. [username |-> u, expires_at |-> now + ADMIN_TTL] \in Session
    BY AdminAuthAssumptions DEF AuthTypeOK, Session
  <2> QED  BY <1>3, <2>1, <2>2 DEF LogIn, AuthTypeOK
<1>4. ASSUME FailedLogIn PROVE AuthTypeOK'
  BY <1>4, EventTypes DEF FailedLogIn, Records, AuthTypeOK, Event
<1>5. ASSUME NEW r \in Requests, NEW t \in Tokens, NEW h \in Handlers, Admit(r, t, h)
      PROVE AuthTypeOK'
  <2>1. admin_sessions[t] \in Session  BY <1>5 DEF Admit, Live, AuthTypeOK
  <2>2. [handler |-> h, username |-> admin_sessions[t].username, token |-> t,
         at |-> now, seen |-> Len(trail)] \in Admitted
    BY <2>1 DEF AuthTypeOK, Session, Admitted
  <2> QED  BY <1>5, <2>2 DEF Admit, AuthTypeOK
<1>6. ASSUME NEW r \in Requests, NEW h \in Handlers, Handle(r, h)
      PROVE /\ trail' \in Seq(Event)
            /\ requests' \in [Requests -> Admitted \cup {Idle}]
            /\ UNCHANGED <<now, admins>>
  BY <1>6, EventTypes DEF Handle, Records, AuthTypeOK, Event
<1>7. ASSUME NEW r \in Requests, LogOut(r) PROVE AuthTypeOK'
  <2>1. Handle(r, "logout") /\ "logout" \in Handlers
    BY <1>7 DEF LogOut, Handlers, Allowed
  <2> QED  BY <1>6, <1>7, <2>1 DEF LogOut, AuthTypeOK
<1>8. ASSUME NEW r \in Requests, Drop(r) PROVE AuthTypeOK'
  BY <1>8 DEF Drop, AuthTypeOK
<1>9. ASSUME NEW r \in Requests, NEW h \in Handlers, Serve(r, h) PROVE AuthTypeOK'
  BY <1>6, <1>9 DEF Serve, AuthTypeOK
<1>10. CASE UNCHANGED authVars  BY <1>10 DEF authVars, AuthTypeOK
<1> QED  BY <1>1, <1>2, <1>3, <1>4, <1>5, <1>7, <1>8, <1>9, <1>10 DEF Next, AuthStep
-----------------------------------------------------------------------------
(* Each part of the invariant is kept by whatever records an event, under  *)
(* the condition the step in question provides.                            *)

LEMMA RecordKeepsRequests ==
  ASSUME AuthInv, NEW e \in Event, Records(e),
         \A r \in Requests : requests'[r] \in {requests[r], Idle}
  PROVE  RequestsAreJustified'
<1> SUFFICES ASSUME NEW r \in Requests, requests'[r] # Idle
             PROVE  /\ requests'[r] \in Admitted /\ requests'[r].seen <= Len(trail')
                    /\ Justified(requests[r])'
  BY DEF RequestsAreJustified
<1> DEFINE a == requests[r]
<1>1. requests'[r] = a /\ a \in Admitted /\ a.seen <= Len(trail) /\ Justified(a)
  BY DEF AuthInv, RequestsAreJustified
<1>2. trail' = Append(trail, e) /\ trail \in Seq(Event)  BY NewEvent DEF AuthInv
<1>3. Len(trail') = Len(trail) + 1 /\ Len(trail) \in Nat  BY <1>2, Recorded
<1>4. a.seen \in Nat  BY <1>1 DEF Admitted
<1>5. ASSUME NEW b \in Admitted, b.seen <= Len(trail), Justified(b) PROVE Justified(b)'
  BY <1>2, <1>5, JustifiedForGood
<1> QED  BY <1>1, <1>3, <1>4, <1>5
LEMMA RecordKeepsActs ==
  ASSUME AuthInv, NEW e \in Event, Records(e),
         e.event = "act" =>
           e.by \in Admitted /\ e.by.seen <= Len(trail) /\ Justified(e.by)
  PROVE  ActsAreJustified'
<1>1. /\ trail' = Append(trail, e) /\ trail \in Seq(Event)
      /\ \A i \in DOMAIN trail' : i \in DOMAIN trail \/ i = Len(trail) + 1
  BY NewEvent DEF AuthInv
<1>2. /\ Len(trail') = Len(trail) + 1 /\ Len(trail) \in Nat
      /\ trail'[Len(trail) + 1] = e
      /\ \A i \in DOMAIN trail : trail'[i] = trail[i]
  BY <1>1, Recorded
<1>3. ASSUME NEW b \in Admitted, b.seen <= Len(trail), Justified(b)
      PROVE  b.seen <= Len(trail') /\ Justified(b)'
  <2>1. b.seen \in Nat  BY DEF Admitted
  <2>2. Justified(b)'  BY <1>1, <1>3, JustifiedForGood
  <2> QED  BY <1>2, <1>3, <2>1, <2>2
<1> SUFFICES ASSUME NEW i \in DOMAIN trail', trail'[i].event = "act"
             PROVE  /\ trail'[i].by \in Admitted /\ trail'[i].by.seen <= Len(trail')
                    /\ Justified(trail[i].by)'
  BY DEF ActsAreJustified
<1>4. CASE i \in DOMAIN trail
  BY <1>2, <1>3, <1>4 DEF AuthInv, ActsAreJustified
<1>5. CASE i = Len(trail) + 1  BY <1>2, <1>3, <1>5
<1> QED  BY <1>1, <1>4, <1>5

LEMMA RecordKeepsAccounts ==
  ASSUME AuthInv, NEW e \in Event, Records(e), e.event # "credentials", UNCHANGED admins
  PROVE  AccountsAreTheLastSaved'
<1>1. trail' = Append(trail, e) /\ trail \in Seq(Event)  BY NewEvent DEF AuthInv
<1> SUFFICES ASSUME NEW u \in Usernames, admins[u] # NoAdmin
             PROVE  \E i \in DOMAIN trail' :
                      LastCredentials(u, i, Len(trail))' /\ admins[u].role = trail'[i].role
  BY DEF AccountsAreTheLastSaved
<1>2. PICK i \in DOMAIN trail :
        LastCredentials(u, i, Len(trail)) /\ admins[u].role = trail[i].role
  BY DEF AuthInv, AccountsAreTheLastSaved
<1>3. LastCredentials(u, i, Len(trail))' /\ i \in DOMAIN trail'
  BY <1>1, <1>2, CredentialsLast
<1>4. trail'[i] = trail[i]  BY <1>1, Recorded
<1> QED  BY <1>2, <1>3, <1>4

(* What a session rests on: the two events NoSessionOutlivesItsCredentials  *)
(* asks for.                                                                *)
Rests(t) ==
  \E i, j \in DOMAIN trail :
    /\ i < j
    /\ LastCredentials(admin_sessions[t].username, i, Len(trail))
    /\ LastLogin(t, j, Len(trail))
    /\ trail[j].username = admin_sessions[t].username
    /\ admin_sessions[t].expires_at = trail[j].at + ADMIN_TTL

LEMMA RecordKeepsSession ==
  ASSUME AuthInv, NEW e \in Event, Records(e), NEW t \in Tokens,
         admin_sessions[t] # NoSession, admin_sessions'[t] = admin_sessions[t],
         ~(e.event = "credentials" /\ e.username = admin_sessions[t].username),
         ~(e.event = "act" /\ e.by.handler = "logout" /\ e.by.token = t)
  PROVE  Rests(t)'
<1> DEFINE u == admin_sessions[t].username
<1>1. trail' = Append(trail, e) /\ trail \in Seq(Event)  BY NewEvent DEF AuthInv
<1>2. u \in Usernames  BY DEF AuthInv, AuthTypeOK, Session
<1>3. PICK i \in DOMAIN trail, j \in DOMAIN trail :
        /\ i < j
        /\ LastCredentials(u, i, Len(trail))
        /\ LastLogin(t, j, Len(trail))
        /\ trail[j].username = u
        /\ admin_sessions[t].expires_at = trail[j].at + ADMIN_TTL
  BY DEF AuthInv, NoSessionOutlivesItsCredentials
<1>4. ASSUME NEW w \in Usernames, LastCredentials(w, i, Len(trail)),
             ~(e.event = "credentials" /\ e.username = w)
      PROVE  LastCredentials(w, i, Len(trail))' /\ i \in DOMAIN trail'
  BY <1>1, <1>4, CredentialsLast
<1>5. LastCredentials(u, i, Len(trail))' /\ i \in DOMAIN trail'
  BY <1>2, <1>3, <1>4
<1>6. LastLogin(t, j, Len(trail))' /\ j \in DOMAIN trail'  BY <1>1, <1>3, LoginLasts
<1>7. trail'[j] = trail[j]  BY <1>1, Recorded
<1> QED  BY <1>3, <1>5, <1>6, <1>7 DEF Rests
-----------------------------------------------------------------------------
(* The steps. *)

(* A step that records an event which saves no credentials and logs nobody *)
(* out, and leaves accounts and sessions alone, keeps the invariant.       *)
LEMMA HandleKeepsAuth ==
  ASSUME AuthInv, NEW r \in Requests, NEW h \in Handlers, Handle(r, h)
  PROVE  RequestsAreJustified' /\ ActsAreJustified' /\ AccountsAreTheLastSaved'
<1> DEFINE e == [event |-> "act", by |-> requests[r]]
<1>1. requests[r] \in Admitted /\ requests[r].seen <= Len(trail) /\ Justified(requests[r])
  BY DEF AuthInv, RequestsAreJustified, Handle
<1>2. Records(e) /\ UNCHANGED admins  BY DEF Handle
<1>3. e \in Event  BY <1>1, EventTypes DEF AuthInv, Event
<1>4. \A q \in Requests : requests'[q] \in {requests[q], Idle}
  BY DEF Handle, AuthInv, AuthTypeOK
<1>5. RequestsAreJustified'  BY <1>2, <1>3, <1>4, RecordKeepsRequests
<1>6. ActsAreJustified'  BY <1>1, <1>2, <1>3, RecordKeepsActs
<1>7. AccountsAreTheLastSaved'  BY <1>2, <1>3, RecordKeepsAccounts
<1> QED  BY <1>5, <1>6, <1>7

LEMMA ServeKeepsAuth ==
  ASSUME AuthInv, NEW r \in Requests, NEW h \in Handlers, Serve(r, h)
  PROVE  NoSessionOutlivesItsCredentials'
<1> DEFINE e == [event |-> "act", by |-> requests[r]]
<1>1. requests[r] \in Admitted /\ requests[r].handler # "logout"
  BY DEF AuthInv, RequestsAreJustified, Serve, Handle
<1>2. Records(e) /\ UNCHANGED admin_sessions  BY DEF Serve, Handle
<1>3. e \in Event  BY <1>1, EventTypes DEF AuthInv, Event
<1>4. \A t \in Tokens : admin_sessions[t] # NoSession => Rests(t)'
  BY <1>1, <1>2, <1>3, RecordKeepsSession
<1> QED  BY <1>2, <1>4 DEF Rests, NoSessionOutlivesItsCredentials

LEMMA LogOutKeepsAuth ==
  ASSUME AuthInv, NEW r \in Requests, LogOut(r)
  PROVE  NoSessionOutlivesItsCredentials'
<1> DEFINE e == [event |-> "act", by |-> requests[r]]
<1>1. requests[r] \in Admitted
  BY DEF AuthInv, RequestsAreJustified, LogOut, Handle
<1>2. /\ Records(e)
      /\ admin_sessions' = [admin_sessions EXCEPT ![requests[r].token] = NoSession]
  BY DEF LogOut, Handle
<1>3. e \in Event  BY <1>1, EventTypes DEF AuthInv, Event
<1>4. ASSUME NEW t \in Tokens, admin_sessions'[t] # NoSession
      PROVE  t # requests[r].token /\ admin_sessions'[t] = admin_sessions[t]
  BY <1>2, <1>4 DEF AuthInv, AuthTypeOK
<1>5. \A t \in Tokens : admin_sessions'[t] # NoSession => Rests(t)'
  BY <1>2, <1>3, <1>4, RecordKeepsSession
<1> QED  BY <1>5 DEF Rests, NoSessionOutlivesItsCredentials

(* Saving credentials revokes exactly the sessions that rested on the ones *)
(* they replace.                                                            *)
LEMMA CreateAdminKeepsAuth ==
  ASSUME AuthInv, NEW u \in Usernames, NEW p \in Passwords, NEW role \in Roles,
         CreateAdmin(u, p, role)
  PROVE  /\ RequestsAreJustified' /\ ActsAreJustified'
         /\ AccountsAreTheLastSaved' /\ NoSessionOutlivesItsCredentials'
<1> DEFINE e == [event |-> "credentials", username |-> u, role |-> role]
<1>1. Records(e)  BY DEF CreateAdmin
<1>2. e \in Credentials /\ e \in Event  BY EventTypes DEF AuthInv, Event
<1>3. /\ trail' = Append(trail, e) /\ trail \in Seq(Event)
      /\ Len(trail') = Len(trail) + 1 /\ Len(trail) \in Nat
      /\ trail'[Len(trail) + 1] = e
      /\ \A i \in DOMAIN trail : trail'[i] = trail[i]
  <2>1. trail' = Append(trail, e) /\ trail \in Seq(Event)
    BY <1>1, <1>2, NewEvent DEF AuthInv
  <2> QED  BY <1>2, <2>1, Recorded
<1>4. RequestsAreJustified'  BY <1>1, <1>2, RecordKeepsRequests DEF CreateAdmin
<1>5. ActsAreJustified'  BY <1>1, <1>2, RecordKeepsActs
<1>6. ASSUME NEW w \in Usernames, admins'[w] # NoAdmin
      PROVE  \E i \in DOMAIN trail' :
               LastCredentials(w, i, Len(trail))' /\ admins'[w].role = trail'[i].role
  <2>1. CASE w = u
    <3> PICK n \in Nat : n = Len(trail) + 1  BY <1>3
    <3>1. n \in DOMAIN trail' /\ trail'[n] = e  BY <1>2, <1>3
    <3>2. LastCredentials(w, n, Len(trail))'  BY <1>2, <1>3, <2>1, <3>1 DEF LastCredentials
    <3>3. admins'[w].role = role  BY <2>1 DEF CreateAdmin, AuthInv, AuthTypeOK
    <3> QED  BY <3>1, <3>2, <3>3
  <2>2. CASE w # u
    <3>1. admins'[w] = admins[w]  BY <2>2 DEF CreateAdmin, AuthInv, AuthTypeOK
    <3>2. PICK i \in DOMAIN trail :
            LastCredentials(w, i, Len(trail)) /\ admins[w].role = trail[i].role
      BY <1>6, <3>1 DEF AuthInv, AccountsAreTheLastSaved
    <3>3. LastCredentials(w, i, Len(trail))' /\ i \in DOMAIN trail'
      BY <1>2, <1>3, <2>2, <3>2, CredentialsLast
    <3> QED  BY <1>3, <3>1, <3>2, <3>3
  <2> QED  BY <2>1, <2>2
<1>7. ASSUME NEW t \in Tokens, admin_sessions'[t] # NoSession PROVE Rests(t)'
  <2>1. admin_sessions'[t] = admin_sessions[t] /\ admin_sessions[t].username # u
    BY <1>7 DEF CreateAdmin, Revoked
  <2> QED  BY <1>1, <1>2, <1>7, <2>1, RecordKeepsSession
<1> QED
  BY <1>4, <1>5, <1>6, <1>7
  DEF Rests, NoSessionOutlivesItsCredentials, AccountsAreTheLastSaved

(* A login rests on the credentials that are in force when it commits. *)
LEMMA LogInKeepsAuth ==
  ASSUME AuthInv, NEW u \in Usernames, NEW p \in Passwords, NEW t \in Tokens,
         LogIn(u, p, t)
  PROVE  /\ RequestsAreJustified' /\ ActsAreJustified'
         /\ AccountsAreTheLastSaved' /\ NoSessionOutlivesItsCredentials'
<1> DEFINE e == [event |-> "login", username |-> u, token |-> t, at |-> now]
           row == [username |-> u, expires_at |-> now + ADMIN_TTL]
<1>1. /\ Records(e) /\ UNCHANGED <<admins, requests>> /\ admins[u] # NoAdmin
      /\ admin_sessions' = [admin_sessions EXCEPT ![t] = row]
  BY DEF LogIn
<1>2. e \in Login /\ e \in Event  BY EventTypes DEF AuthInv, Event
<1>3. /\ trail' = Append(trail, e) /\ trail \in Seq(Event)
      /\ Len(trail') = Len(trail) + 1 /\ Len(trail) \in Nat
      /\ trail'[Len(trail) + 1] = e
  <2>1. trail' = Append(trail, e) /\ trail \in Seq(Event)
    BY <1>1, <1>2, NewEvent DEF AuthInv
  <2> QED  BY <1>2, <2>1, Recorded
<1>4. RequestsAreJustified'  BY <1>1, <1>2, RecordKeepsRequests
<1>5. ActsAreJustified'  BY <1>1, <1>2, RecordKeepsActs
<1>6. AccountsAreTheLastSaved'  BY <1>1, <1>2, RecordKeepsAccounts
<1>7. ASSUME NEW s \in Tokens, admin_sessions'[s] # NoSession PROVE Rests(s)'
  <2>1. CASE s = t
    <3> PICK j \in Nat : j = Len(trail) + 1  BY <1>3
    <3>1. PICK i \in DOMAIN trail : LastCredentials(u, i, Len(trail))
      BY <1>1 DEF AuthInv, AccountsAreTheLastSaved
    <3>2. LastCredentials(u, i, Len(trail))' /\ i \in DOMAIN trail'
      BY <1>2, <1>3, <3>1, CredentialsLast
    <3>3. j \in DOMAIN trail' /\ trail'[j] = e /\ i < j  BY <1>2, <1>3, <3>1
    <3>4. LastLogin(s, j, Len(trail))'  BY <1>2, <1>3, <2>1, <3>3 DEF LastLogin
    <3>5. admin_sessions'[s] = row  BY <1>1, <2>1 DEF AuthInv, AuthTypeOK
    <3> QED  BY <3>2, <3>3, <3>4, <3>5 DEF Rests
  <2>2. CASE s # t
    <3>1. admin_sessions'[s] = admin_sessions[s]
      BY <1>1, <2>2 DEF AuthInv, AuthTypeOK
    <3> QED  BY <1>1, <1>2, <1>7, <3>1, RecordKeepsSession
  <2> QED  BY <2>1, <2>2
<1> QED  BY <1>4, <1>5, <1>6, <1>7 DEF Rests, NoSessionOutlivesItsCredentials
(* A request is admitted on what its session and its account rest on. *)
LEMMA AdmitKeepsAuth ==
  ASSUME AuthInv, NEW r \in Requests, NEW t \in Tokens, NEW h \in Handlers, Admit(r, t, h)
  PROVE  RequestsAreJustified'
<1> DEFINE u == admin_sessions[t].username
           a == [handler |-> h, username |-> u, token |-> t, at |-> now, seen |-> Len(trail)]
<1>1. /\ admin_sessions[t] \in Session /\ admin_sessions[t] # NoSession
      /\ u \in Usernames /\ admin_sessions[t].expires_at \in Nat
      /\ trail \in Seq(Event) /\ now \in Nat /\ Len(trail) \in Nat
  BY DEF Admit, Live, AuthInv, AuthTypeOK, Session
<1>2. a \in Admitted  BY <1>1 DEF Admitted
<1>3. PICK i \in DOMAIN trail, j \in DOMAIN trail :
        /\ i < j
        /\ LastCredentials(u, i, Len(trail))
        /\ LastLogin(t, j, Len(trail))
        /\ trail[j].username = u
        /\ admin_sessions[t].expires_at = trail[j].at + ADMIN_TTL
  BY <1>1 DEF AuthInv, NoSessionOutlivesItsCredentials
<1>4. trail[i].role \in Allowed[h]
  <2>1. admins[u].role \in Allowed[h]  BY DEF Admit, HasRole
  <2>2. admins[u] # NoAdmin  BY <1>1 DEF AuthInv, SessionsHaveAccounts
  <2>3. PICK k \in DOMAIN trail :
          LastCredentials(u, k, Len(trail)) /\ admins[u].role = trail[k].role
    BY <1>1, <2>2 DEF AuthInv, AccountsAreTheLastSaved
  <2>4. \A w \in Usernames : LastCredentials(w, i, Len(trail)) /\ LastCredentials(w, k, Len(trail))
                              => k = i
    BY <1>1, LastCredentialsUnique
  <2> QED  BY <1>1, <1>3, <2>1, <2>3, <2>4
<1>5. now < trail[j].at + ADMIN_TTL
  <2>1. trail[j].at \in Nat
    BY <1>3 DEF LastLogin, Login
  <2> QED  BY <1>1, <1>3, <2>1, AdminAuthAssumptions DEF Admit, Live, is_expired
<1>6. Justified(a)
  <2>1. i \in 1..Len(trail) /\ j \in 1..Len(trail)  BY <1>1, <1>3
  <2> QED  BY <1>3, <1>4, <1>5, <2>1 DEF Justified
<1>7. UNCHANGED trail /\ requests' = [requests EXCEPT ![r] = a]  BY DEF Admit
<1> SUFFICES ASSUME NEW q \in Requests, requests'[q] # Idle
             PROVE  /\ requests'[q] \in Admitted /\ requests'[q].seen <= Len(trail')
                    /\ Justified(requests[q])'
  BY DEF RequestsAreJustified
<1>8. ASSUME NEW b \in Admitted, b.seen <= Len(trail), Justified(b)
      PROVE  b.seen <= Len(trail') /\ Justified(b)'
  BY <1>7, <1>8 DEF Justified, LastCredentials, LastLogin
<1>9. CASE q = r
  <2>1. requests'[q] = a  BY <1>7, <1>9 DEF AuthInv, AuthTypeOK
  <2>2. a.seen <= Len(trail)  BY <1>1
  <2> HIDE DEF a
  <2> QED  BY <1>2, <1>6, <1>8, <2>1, <2>2
<1>10. CASE q # r
  <2>1. requests'[q] = requests[q]  BY <1>7, <1>10 DEF AuthInv, AuthTypeOK
  <2> QED  BY <1>8, <2>1 DEF AuthInv, RequestsAreJustified
<1> QED  BY <1>9, <1>10

LEMMA SessionsKeepAccounts ==
  ASSUME AuthInv, Next
  PROVE  SessionsHaveAccounts'
<1>1. ASSUME NEW u \in Usernames, NEW p \in Passwords, NEW role \in Roles,
             CreateAdmin(u, p, role)
      PROVE SessionsHaveAccounts'
  BY <1>1, AdminAuthAssumptions
  DEF CreateAdmin, Revoked, AuthInv, AuthTypeOK, SessionsHaveAccounts, Account, Session
<1>2. ASSUME NEW u \in Usernames, NEW p \in Passwords, NEW t \in Tokens, LogIn(u, p, t)
      PROVE SessionsHaveAccounts'
  BY <1>2 DEF LogIn, AuthInv, AuthTypeOK, SessionsHaveAccounts
<1>3. ASSUME NEW r \in Requests, LogOut(r) PROVE SessionsHaveAccounts'
  BY <1>3 DEF LogOut, Handle, AuthInv, AuthTypeOK, SessionsHaveAccounts
<1>4. CASE UNCHANGED <<admins, admin_sessions>>
  BY <1>4 DEF AuthInv, SessionsHaveAccounts
<1> QED
  BY <1>1, <1>2, <1>3, <1>4
  DEF Next, AuthStep, Tick, FailedLogIn, Admit, Drop, Serve, Handle

LEMMA AuthStepKeepsInv ==
  ASSUME AuthInv, [Next]_authVars
  PROVE  AuthInv'
<1> USE DEF AuthInv
<1>1. AuthTypeOK'  BY AuthTypeStep
<1>2. CASE UNCHANGED <<trail, admins, admin_sessions>>
            /\ \A r \in Requests : requests'[r] \in {requests[r], Idle}
  BY <1>1, <1>2
  DEF RequestsAreJustified, ActsAreJustified, AccountsAreTheLastSaved, SessionsHaveAccounts,
      NoSessionOutlivesItsCredentials, Justified, LastCredentials, LastLogin
<1>3. ASSUME NEW u \in Usernames, NEW p \in Passwords, NEW role \in Roles,
             CreateAdmin(u, p, role)
      PROVE AuthInv'
  <2>1. Next  BY <1>3 DEF Next, AuthStep
  <2> QED  BY <1>1, <1>3, <2>1, CreateAdminKeepsAuth, SessionsKeepAccounts
<1>4. ASSUME NEW u \in Usernames, NEW p \in Passwords, NEW t \in Tokens, LogIn(u, p, t)
      PROVE AuthInv'
  <2>1. Next  BY <1>4 DEF Next, AuthStep
  <2> QED  BY <1>1, <1>4, <2>1, LogInKeepsAuth, SessionsKeepAccounts
<1>5. ASSUME FailedLogIn PROVE AuthInv'
  <2> DEFINE e == [event |-> "login_failed"]
  <2>1. Next  BY <1>5 DEF Next, AuthStep
  <2>2. Records(e) /\ UNCHANGED <<admins, admin_sessions, requests>>
    BY <1>5 DEF FailedLogIn
  <2>3. e \in Event  BY EventTypes DEF Event
  <2>4. RequestsAreJustified'  BY <2>2, <2>3, RecordKeepsRequests
  <2>5. ActsAreJustified' /\ AccountsAreTheLastSaved'
    BY <2>2, <2>3, RecordKeepsActs, RecordKeepsAccounts
  <2>6. \A t \in Tokens : admin_sessions[t] # NoSession => Rests(t)'
    BY <2>2, <2>3, RecordKeepsSession
  <2>7. NoSessionOutlivesItsCredentials'
    BY <2>2, <2>6 DEF Rests, NoSessionOutlivesItsCredentials
  <2> QED  BY <1>1, <2>1, <2>4, <2>5, <2>7, SessionsKeepAccounts
<1>6. ASSUME NEW r \in Requests, NEW t \in Tokens, NEW h \in Handlers, Admit(r, t, h)
      PROVE AuthInv'
  <2>1. RequestsAreJustified'  BY <1>6, AdmitKeepsAuth
  <2>2. UNCHANGED <<trail, admins, admin_sessions>>  BY <1>6 DEF Admit
  <2>3. ActsAreJustified' /\ AccountsAreTheLastSaved' /\ SessionsHaveAccounts'
    BY <2>2 DEF ActsAreJustified, AccountsAreTheLastSaved, SessionsHaveAccounts,
                Justified, LastCredentials, LastLogin
  <2>4. NoSessionOutlivesItsCredentials'
    BY <2>2 DEF NoSessionOutlivesItsCredentials, LastCredentials, LastLogin
  <2> QED  BY <1>1, <2>1, <2>3, <2>4
<1>7. ASSUME NEW r \in Requests, LogOut(r) PROVE AuthInv'
  <2>1. Next /\ Handle(r, "logout") /\ "logout" \in Handlers
    BY <1>7 DEF Next, AuthStep, LogOut, Handlers, Allowed
  <2> QED
    BY <1>1, <1>7, <2>1, HandleKeepsAuth, LogOutKeepsAuth, SessionsKeepAccounts
<1>8. ASSUME NEW r \in Requests, NEW h \in Handlers, Serve(r, h) PROVE AuthInv'
  <2>1. Next /\ Handle(r, h)  BY <1>8 DEF Next, Serve
  <2> QED
    BY <1>1, <1>8, <2>1, HandleKeepsAuth, ServeKeepsAuth, SessionsKeepAccounts
<1>9. ASSUME NEW r \in Requests, Drop(r) PROVE AuthInv'
  BY <1>2, <1>9 DEF Drop, AuthTypeOK
<1>10. CASE Tick  BY <1>2, <1>10 DEF Tick
<1>11. CASE UNCHANGED authVars  BY <1>2, <1>11 DEF authVars
<1> QED
  BY <1>3, <1>4, <1>5, <1>6, <1>7, <1>8, <1>9, <1>10, <1>11 DEF Next, AuthStep

(* The five parts together are inductive: no login, command, request or    *)
(* crash breaks them.                                                      *)
THEOREM AuthInvariant == Spec => []AuthInv
<1>1. Init => AuthInv
  <2> SUFFICES ASSUME Init PROVE AuthInv  OBVIOUS
  <2>1. AuthTypeOK  BY DEF Init, AuthTypeOK
  <2>2. DOMAIN trail = {}  BY DEF Init
  <2> QED
    BY <2>1, <2>2
    DEF Init, AuthInv, RequestsAreJustified, ActsAreJustified, AccountsAreTheLastSaved,
        SessionsHaveAccounts, NoSessionOutlivesItsCredentials
<1>2. AuthInv /\ [Next]_authVars => AuthInv'  BY AuthStepKeepsInv
<1> QED  BY <1>1, <1>2, PTL DEF Spec
-----------------------------------------------------------------------------
(* The results, of the whole administration. *)

(* Whatever the operator, the clock, logouts and crashes do between         *)
(* require_role and the handler's transaction, every act recorded in an     *)
(* administrator's name was admitted on a good login and a role she had.    *)
THEOREM EveryActAlwaysJustified == SpecAdministration => []EveryActIsJustified
<1>1. AuthInv => EveryActIsJustified
  BY DEF AuthInv, ActsAreJustified, EveryActIsJustified
<1> QED  BY <1>1, AuthInvariant, AdministrationImplementsAuth, PTL

(* A session never outlives the password and role it was opened with.      *)
THEOREM SessionsNeverOutliveTheirCredentials ==
  SpecAdministration => []NoSessionOutlivesItsCredentials
<1>1. AuthInv => NoSessionOutlivesItsCredentials  BY DEF AuthInv
<1> QED  BY <1>1, AuthInvariant, AdministrationImplementsAuth, PTL

(* Types: what the API and the command line write into officers and key    *)
(* files are public and private keys that were generated.                   *)
THEOREM TypeCorrect == SpecAdministration => []TypeOK
<1>1. InitAdministration => TypeOK
  BY AdministrationAssumptions DEF InitAdministration, Init, TypeOK, AuthTypeOK
<1>2. TypeOK /\ [NextAdministration]_administrationVars => TypeOK'
  <2> SUFFICES ASSUME TypeOK, [NextAdministration]_administrationVars PROVE TypeOK'
    OBVIOUS
  <2> DEFINE OfficersOK ==
        /\ officers \in [OfficerIds -> Officer \cup {NotRegistered}]
        /\ key_files \in [OfficerIds -> Keys \cup {NoKey}]
        /\ keys \in 0..MaxKeys
        /\ unsaved \in [OfficerIds -> Keys \cup {NoKey}]
  <2>1. OfficersOK /\ AuthTypeOK  BY DEF TypeOK
  <2>2. CASE AuthStep /\ UNCHANGED officerVars
    BY <2>1, <2>2, AuthTypeStep DEF officerVars, Next, TypeOK
  <2>3. ASSUME NEW o \in OfficerIds, NEW k \in Keys, AddOfficer(o, k) PROVE OfficersOK'
    BY <2>1, <2>3 DEF AddOfficer, Insert, Officer
  <2>4. ASSUME NEW o \in OfficerIds, NEW active \in BOOLEAN, SetOfficerState(o, active)
        PROVE OfficersOK'
    BY <2>1, <2>4 DEF SetOfficerState, Officer
  <2>5. ASSUME NEW r \in Requests, AdminCall(r) PROVE TypeOK'
    <3>1. PICK h \in Handlers : Serve(r, h)
      BY <2>5 DEF AdminCall, Handlers, Allowed
    <3>2. AuthTypeOK'  BY <2>1, <3>1, AuthTypeStep DEF Next
    <3>3. OfficersOK'
      BY <2>1, <2>3, <2>4, <2>5 DEF AdminCall, officerVars
    <3> QED  BY <3>2, <3>3 DEF TypeOK
  <2>6. ASSUME NEW o \in OfficerIds, CommandLine(o), UNCHANGED authVars PROVE TypeOK'
    <3>1. AuthTypeOK'  BY <2>1, <2>6 DEF AuthTypeOK, authVars
    <3>2. keys < MaxKeys => FreshKey \in Keys /\ keys + 1 \in 0..MaxKeys
      BY <2>1, AdministrationAssumptions DEF FreshKey, Keys
    <3>3. ASSUME OfficerKeygen(o) PROVE OfficersOK'
      BY <2>1, <3>2, <3>3 DEF OfficerKeygen, Written, FreshKey
    <3>4. ASSUME RegisterOfficer(o) PROVE OfficersOK'
      BY <2>1, <3>2, <3>4 DEF RegisterOfficer, Insert, Officer, FreshKey
    <3>5. ASSUME SaveKey(o) PROVE OfficersOK'
      BY <2>1, <3>5 DEF SaveKey, Written
    <3>6. ASSUME KillCommand(o) PROVE OfficersOK'
      BY <2>1, <3>6 DEF KillCommand
    <3> QED
      BY <2>3, <2>4, <2>6, <3>1, <3>3, <3>4, <3>5, <3>6 DEF CommandLine, TypeOK
  <2>7. CASE UNCHANGED administrationVars
    BY <2>1, <2>7 DEF administrationVars, authVars, officerVars, TypeOK, AuthTypeOK
  <2> QED  BY <2>2, <2>5, <2>6, <2>7 DEF NextAdministration
<1> QED  BY <1>1, <1>2, PTL DEF SpecAdministration

(* A key is generated before it is registered, saved or in hand; the key in *)
(* hand is the one registered, and in no file yet.                          *)
KeysOf(o) ==
  /\ officers[o].key <= keys /\ key_files[o] <= keys
  /\ unsaved[o] # NoKey =>
       unsaved[o] = officers[o].key /\ unsaved[o] # key_files[o]

KeysInv == \A o \in OfficerIds : KeysOf(o)

(* What SigningIsSettled says of one step and one registered officer. *)
Settled(o) ==
  /\ unsaved[o] # NoKey => (CanSign(o)' <=> SaveKey(o) /\ key_files[o] = NoKey)
  /\ unsaved[o] = NoKey => (CanSign(o)' <=> CanSign(o))

(* The keys of officers, files and commands are those generated so far, and *)
(* a key waiting to be saved is its officer's and nowhere else: a fresh key *)
(* is above every key there is.                                             *)
LEMMA KeysAreAccountedFor == SpecAdministration => []KeysInv
<1>1. InitAdministration => KeysInv
  BY DEF InitAdministration, KeysInv, KeysOf, NotRegistered, NoKey
<1>2. TypeOK /\ KeysInv /\ [NextAdministration]_administrationVars => KeysInv'
  <2> SUFFICES ASSUME TypeOK, KeysInv, [NextAdministration]_administrationVars,
                      NEW x \in OfficerIds
               PROVE  KeysOf(x)'
    BY DEF KeysInv, KeysOf
  <2>1. /\ keys \in Nat
        /\ officers[x].key \in Nat /\ key_files[x] \in Nat /\ unsaved[x] \in Nat
        /\ officers[x].key <= keys /\ key_files[x] <= keys
        /\ unsaved[x] # NoKey => unsaved[x] = officers[x].key /\ unsaved[x] # key_files[x]
    BY AdministrationAssumptions DEF TypeOK, KeysInv, KeysOf, Officer, NotRegistered, Keys, NoKey
  <2>2. CASE UNCHANGED officerVars
    BY <2>1, <2>2 DEF KeysOf, officerVars
  <2>3. ASSUME NEW o \in OfficerIds, NEW k \in Keys, AddOfficer(o, k) PROVE KeysOf(x)'
    <3>1. CASE x = o
      <4>1. officers'[x].key = k /\ k <= keys
        BY <2>1, <2>3, <3>1 DEF AddOfficer, Insert, TypeOK
      <4>2. unsaved[x] = NoKey
        BY <2>1, <2>3, <3>1 DEF AddOfficer, Insert, NotRegistered
      <4> QED  BY <2>1, <2>3, <4>1, <4>2 DEF AddOfficer, KeysOf
    <3>2. CASE x # o
      BY <2>1, <2>3, <3>2 DEF AddOfficer, Insert, KeysOf, TypeOK
    <3> QED  BY <3>1, <3>2
  <2>4. ASSUME NEW o \in OfficerIds, NEW active \in BOOLEAN, SetOfficerState(o, active)
        PROVE KeysOf(x)'
    <3>1. officers'[x].key = officers[x].key
      BY <2>4 DEF SetOfficerState, TypeOK, Officer
    <3> QED  BY <2>1, <2>4, <3>1 DEF SetOfficerState, KeysOf
  <2>5. ASSUME NEW r \in Requests, AdminCall(r) PROVE KeysOf(x)'
    BY <2>2, <2>3, <2>4, <2>5 DEF AdminCall
  <2>6. ASSUME NEW o \in OfficerIds, CommandLine(o) PROVE KeysOf(x)'
    <3>1. ASSUME OfficerKeygen(o) PROVE KeysOf(x)'
      <4>1. keys' = keys + 1 /\ (key_files'[x] = key_files[x] \/ key_files'[x] = keys + 1)
        BY <3>1 DEF OfficerKeygen, Written, FreshKey, TypeOK
      <4> QED  BY <2>1, <3>1, <4>1 DEF OfficerKeygen, KeysOf
    <3>2. ASSUME RegisterOfficer(o) PROVE KeysOf(x)'
      <4>1. keys' = keys + 1 /\ key_files' = key_files
        BY <3>2 DEF RegisterOfficer, FreshKey
      <4>2. CASE x = o
        <5>1. officers'[x].key = keys + 1 /\ unsaved'[x] = keys + 1
          BY <3>2, <4>2 DEF RegisterOfficer, Insert, FreshKey, TypeOK
        <5> QED  BY <2>1, <4>1, <5>1 DEF KeysOf
      <4>3. CASE x # o
        <5>1. officers'[x] = officers[x] /\ unsaved'[x] = unsaved[x]
          BY <3>2, <4>3 DEF RegisterOfficer, Insert, TypeOK
        <5> QED  BY <2>1, <4>1, <5>1 DEF KeysOf
      <4> QED  BY <4>2, <4>3
    <3>3. ASSUME SaveKey(o) PROVE KeysOf(x)'
      <4>1. keys' = keys /\ officers' = officers
        BY <3>3 DEF SaveKey
      <4>2. CASE x = o
        <5>1. unsaved'[x] = NoKey /\ (key_files'[x] = key_files[x] \/ key_files'[x] = unsaved[x])
          BY <3>3, <4>2 DEF SaveKey, Written, TypeOK
        <5>2. unsaved[x] <= keys  BY <2>1, <3>3, <4>2 DEF SaveKey
        <5> QED  BY <2>1, <4>1, <5>1, <5>2 DEF KeysOf
      <4>3. CASE x # o
        <5>1. key_files'[x] = key_files[x] /\ unsaved'[x] = unsaved[x]
          BY <3>3, <4>3 DEF SaveKey, Written, TypeOK
        <5> QED  BY <2>1, <4>1, <5>1 DEF KeysOf
      <4> QED  BY <4>2, <4>3
    <3>4. ASSUME KillCommand(o) PROVE KeysOf(x)'
      <4>1. unsaved'[x] = NoKey \/ unsaved'[x] = unsaved[x]
        BY <3>4 DEF KillCommand, TypeOK
      <4> QED  BY <2>1, <3>4, <4>1 DEF KillCommand, KeysOf
    <3> QED  BY <2>3, <2>4, <2>6, <3>1, <3>2, <3>3, <3>4 DEF CommandLine
  <2> QED  BY <2>2, <2>5, <2>6 DEF NextAdministration, administrationVars
<1> QED  BY <1>1, <1>2, TypeCorrect, PTL DEF SpecAdministration

(* Whether a registered officer can sign is settled when her registration   *)
(* ends: register_officer gives her the key exactly when it saves it to a   *)
(* file that is not there yet, and nothing the API or the command line does *)
(* later gives her the key or takes it away.                                *)
THEOREM SigningAlwaysSettled == SpecAdministration => SigningIsSettled
<1>1. TypeOK /\ KeysInv /\ [NextAdministration]_administrationVars
      => [\A o \in OfficerIds :
            officers[o] # NotRegistered =>
              /\ unsaved[o] # NoKey =>
                   (CanSign(o)' <=> SaveKey(o) /\ key_files[o] = NoKey)
              /\ unsaved[o] = NoKey => (CanSign(o)' <=> CanSign(o))]_administrationVars
  <2> SUFFICES ASSUME TypeOK, KeysInv, [NextAdministration]_administrationVars,
                      NEW x \in OfficerIds, officers[x] # NotRegistered
               PROVE  Settled(x)
    BY DEF Settled
  <2>1. /\ keys \in Nat
        /\ officers[x] \in Officer /\ officers[x].key \in Nat /\ officers[x].key # NoKey
        /\ key_files[x] \in Nat /\ unsaved[x] \in Nat
        /\ officers[x].key <= keys
        /\ unsaved[x] # NoKey => unsaved[x] = officers[x].key /\ unsaved[x] # key_files[x]
    BY AdministrationAssumptions DEF TypeOK, KeysInv, KeysOf, Officer, NotRegistered, Keys, NoKey
  <2>2. unsaved[x] # NoKey => ~CanSign(x)
    BY <2>1 DEF CanSign
  <2>3. ASSUME CanSign(x)' <=> CanSign(x), unsaved[x] # NoKey => ~SaveKey(x)
        PROVE  Settled(x)
    BY <2>2, <2>3 DEF Settled
  <2>4. ASSUME officers'[x].key = officers[x].key, officers'[x] # NotRegistered,
               key_files'[x] = key_files[x]
        PROVE  CanSign(x)' <=> CanSign(x)
    BY <2>4 DEF CanSign
  <2>5. unsaved'[x] = unsaved[x] /\ unsaved[x] # NoKey => ~SaveKey(x)
    BY DEF SaveKey, TypeOK
  <2>6. CASE UNCHANGED officerVars
    BY <2>3, <2>4, <2>5, <2>6 DEF officerVars
  <2>7. ASSUME NEW o \in OfficerIds, NEW k \in Keys, AddOfficer(o, k) PROVE Settled(x)
    <3>1. x # o  BY <2>7 DEF AddOfficer, Insert
    <3>2. officers'[x] = officers[x] /\ key_files' = key_files /\ unsaved' = unsaved
      BY <2>7, <3>1 DEF AddOfficer, Insert, TypeOK
    <3> QED  BY <2>3, <2>4, <2>5, <3>2
  <2>8. ASSUME NEW o \in OfficerIds, NEW active \in BOOLEAN, SetOfficerState(o, active)
        PROVE Settled(x)
    <3>1. officers'[x].key = officers[x].key /\ key_files' = key_files /\ unsaved' = unsaved
      BY <2>1, <2>8 DEF SetOfficerState, TypeOK, Officer
    <3>2. officers'[x] # NotRegistered  BY <2>1, <3>1 DEF NotRegistered
    <3> QED  BY <2>3, <2>4, <2>5, <3>1, <3>2
  <2>9. ASSUME NEW r \in Requests, AdminCall(r) PROVE Settled(x)
    BY <2>6, <2>7, <2>8, <2>9 DEF AdminCall
  <2>10. ASSUME NEW o \in OfficerIds, CommandLine(o) PROVE Settled(x)
    <3>1. ASSUME OfficerKeygen(o) PROVE Settled(x)
      <4>1. officers' = officers /\ unsaved' = unsaved
        BY <3>1 DEF OfficerKeygen
      <4>2. \/ key_files'[x] = key_files[x]
            \/ key_files[x] = NoKey /\ key_files'[x] = keys + 1
        BY <3>1 DEF OfficerKeygen, Written, FreshKey, TypeOK
      <4>3. keys + 1 # officers[x].key  BY <2>1
      <4>4. CanSign(x)' <=> CanSign(x)  BY <2>1, <4>1, <4>2, <4>3 DEF CanSign
      <4> QED  BY <2>3, <2>5, <4>1, <4>4
    <3>2. ASSUME RegisterOfficer(o) PROVE Settled(x)
      <4>1. x # o  BY <3>2 DEF RegisterOfficer, Insert
      <4>2. officers'[x] = officers[x] /\ key_files' = key_files /\ unsaved'[x] = unsaved[x]
        BY <3>2, <4>1 DEF RegisterOfficer, Insert, TypeOK
      <4> QED  BY <2>3, <2>4, <2>5, <4>2
    <3>3. ASSUME SaveKey(o) PROVE Settled(x)
      <4>1. CASE x = o
        <5>1. officers' = officers /\ unsaved[x] # NoKey /\ SaveKey(x)
          BY <3>3, <4>1 DEF SaveKey
        <5>2. key_files'[x] = IF key_files[x] = NoKey THEN unsaved[x] ELSE key_files[x]
          BY <3>3, <4>1 DEF SaveKey, Written, TypeOK
        <5>3. CanSign(x)' <=> key_files[x] = NoKey
          BY <2>1, <5>1, <5>2 DEF CanSign
        <5> QED  BY <5>1, <5>3 DEF Settled
      <4>2. CASE x # o
        <5>1. officers' = officers /\ key_files'[x] = key_files[x] /\ unsaved'[x] = unsaved[x]
          BY <3>3, <4>2 DEF SaveKey, Written, TypeOK
        <5> QED  BY <2>3, <2>4, <2>5, <5>1
      <4> QED  BY <4>1, <4>2
    <3>4. ASSUME KillCommand(o) PROVE Settled(x)
      <4>1. officers' = officers /\ key_files' = key_files
        BY <3>4 DEF KillCommand
      <4>2. CanSign(x)' <=> CanSign(x)  BY <2>4, <4>1
      <4>3. unsaved[x] # NoKey => ~(SaveKey(x) /\ key_files[x] = NoKey)
        BY <2>1, <4>1 DEF SaveKey, Written, TypeOK
      <4> QED  BY <2>2, <4>2, <4>3 DEF Settled
    <3> QED  BY <2>7, <2>8, <2>10, <3>1, <3>2, <3>3, <3>4 DEF CommandLine
  <2> QED  BY <2>6, <2>9, <2>10 DEF NextAdministration, administrationVars
<1> QED  BY <1>1, TypeCorrect, KeysAreAccountedFor, PTL DEF SpecAdministration, SigningIsSettled

=============================================================================
