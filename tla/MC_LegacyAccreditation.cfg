SPECIFICATION SpecAccreditation
CONSTANTS
  Voters = {v1}
  Codes = {c1, c2}
  Requests = {r1, r2, r3}
  None = None
  SESSION_TIMEOUT = 2
  OTP_EXPIRY = 1
  MaxTime = 2
  MaxCodes = 2
SYMMETRY Symmetry
INVARIANTS
  OneAccreditation
  AcceptedCodesAreLatest
CHECK_DEADLOCK FALSE
