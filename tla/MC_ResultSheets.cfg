SPECIFICATION Spec
CONSTANTS
  Elections = {pres, gov}
  Units = {u1, u2}
  Parties = {apc}
  Officers = {o1, o2}
  MAX_COUNT = 1
  Reports <- MCReports
  NoOfficer = NoOfficer
  MaxCheckpoints = 2
  MaxSheets = 2
SYMMETRY Symmetry
INVARIANTS
  SealedUntilClosed
  ArchiveVerifies
  SignedRootsHold
PROPERTIES
  ImplementsOneResult
CHECK_DEADLOCK FALSE
