SPECIFICATION FairSpec
CONSTANTS
  Voters = {v1}
  PollingUnits = {u1}
  Unregistered = Unregistered
  NoSession = NoSession
  SECOND = 2
  HOUR = 4
  SESSION_TTL = 3
  OTP_TTL = 2
  OTP_MAX_ATTEMPTS = 1
  FACE_MAX_ATTEMPTS = 1
  MAX_SESSIONS_PER_VOTER_PER_HOUR = 2
  SMS_RETRIES = 1
  MaxTokens = 4
  MaxTime = 5
INVARIANTS
  AttemptCap
  GuessBudget
  OnlyNewestSession
PROPERTIES
  SessionEndsForItsOwnReason
  EveryVerifyEnds
CHECK_DEADLOCK FALSE
