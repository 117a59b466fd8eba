SPECIFICATION FairSpecPage
CONSTANTS
  People = {v1, v2}
  Nobody = Nobody
  NoRow = NoRow
  MaxIssued = 3
INVARIANTS
  BallotsAreTheirCasters
PROPERTIES
  NoDeadPanel
CHECK_DEADLOCK FALSE
