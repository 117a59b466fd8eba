SPECIFICATION SpecAdministration
CONSTANTS
  Usernames = {a1, a2}
  Passwords = {p1}
  Requests = {r1, r2}
  NoAdmin = NoAdmin
  NoSession = NoSession
  ADMIN_TTL = 1
  MaxTokens = 2
  MaxTime = 1
  MaxTrail = 4
  OfficerIds = {o1}
  MaxKeys = 2
SYMMETRY Symmetry
INVARIANTS
  EveryActIsJustified
  NoSessionOutlivesItsCredentials
PROPERTIES
  SigningIsSettled
CHECK_DEADLOCK FALSE
