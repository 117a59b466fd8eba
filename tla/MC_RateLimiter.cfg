SPECIFICATION FairSpecLimiter
CONSTANTS
  Threads = {t1, t2, t3}
  limit = 2
  window_s = 1
  LastTick = 2
INVARIANTS
  BurstBounded
PROPERTIES
  EveryRequestDecided
