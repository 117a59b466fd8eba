SPECIFICATION Spec
CONSTANTS
  Voters = {v1}
  Ballots = {b1, b2}
  Units = {u1}
  Parties = {apc}
  Requests = {r1, r2}
  None = None
  LOCK_TTL = 1
  IDEM_TTL = 0
  MaxTime = 1
SYMMETRY Symmetry
INVARIANTS
  BallotsCountOnce
  TalliesFollowTheLedger
  SuccessIsCounted
  CountedVotersMoveOn
CHECK_DEADLOCK FALSE
