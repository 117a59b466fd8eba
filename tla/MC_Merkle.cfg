SPECIFICATION SpecTree
CONSTANTS
  MaxLeaves = 13
  NoCheckpoint = NoCheckpoint
INVARIANTS
  CoveredSheetsProve
  ProofsBindTheSheet
  SignedRootIsStandard
CHECK_DEADLOCK FALSE
