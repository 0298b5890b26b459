SPECIFICATION FairSpec
CONSTANTS
  Request = {c1, c2}
  RatePerSec = 1
  MaxConcurrent = 1
  ChunkCap = 1
  MaxDeltas = 1
  MaxAttempts = 2
INVARIANTS InflightExact CompleteIsWhole
PROPERTIES EveryCallSettles
CHECK_DEADLOCK FALSE
