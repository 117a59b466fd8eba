SPECIFICATION FairSpec
CONSTANTS
  Processes = {server, next, manage}
  Entries = {login}
  NoHash = NoHash
  MaxLegacy = 2
  MaxEntries = 3
  MaxCheckpoints = 1
INVARIANTS
  NoFalseAlarm
  CheckpointsCoverThemselves
PROPERTIES
  StartUpCompletes
CHECK_DEADLOCK FALSE
