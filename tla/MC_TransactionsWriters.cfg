SPECIFICATION Spec
CONSTANTS
  Workers = {w1, w2}
  NoWorker = NoWorker
  Voters = {v1, v2}
  Elections = {pres}
  Parties = {apc}
  PollingUnits = {u1}
  Unregistered = Unregistered
  Kinds = {"face", "cast", "open", "close"}
  FACE_MAX_ATTEMPTS = 2
  MaxCheckpoints = 0
SYMMETRY Symmetry
INVARIANTS
  AcknowledgedIsCommitted
  FaceVerdictsAreCounted
PROPERTIES
  ImplementsBallotBox
