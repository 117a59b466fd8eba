SPECIFICATION FairSpec
CONSTANTS
  Workers = {w1, w2}
  NoWorker = NoWorker
  Voters = {v1}
  Elections = {pres}
  Parties = {apc}
  PollingUnits = {u1}
  Unregistered = Unregistered
  Kinds = {"face", "cast", "open", "close", "checkpoint", "public_ledger"}
  FACE_MAX_ATTEMPTS = 1
  MaxCheckpoints = 1
INVARIANTS
  NoFalseAlarm
  OnePublishedLedger
PROPERTIES
  EveryRequestEnds
