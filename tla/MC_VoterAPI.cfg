SPECIFICATION SpecAPI
CONSTANTS
  Voters = {v1, v2}
  Elections = {pres, senate}
  Parties = {apc}
  PollingUnits = {u1, u2}
  Unregistered = Unregistered
  NoSession = NoSession
  SECOND = 1
  HOUR = 3
  SESSION_TTL = 2
  OTP_TTL = 1
  OTP_MAX_ATTEMPTS = 1
  FACE_MAX_ATTEMPTS = 1
  MAX_SESSIONS_PER_VOTER_PER_HOUR = 2
  SMS_RETRIES = 0
  MaxTokens = 2
  MaxTime = 2
  MaxCheckpoints = 1
SYMMETRY Symmetry
INVARIANTS
  LedgerMatchesVotes
  CheckpointsHold
  ReceiptsHold
PROPERTIES
  ClosedTallyFrozen
  ImplementsOneVote
  VotesNeedLiveAccreditation
CHECK_DEADLOCK FALSE
