SPECIFICATION CallsSpec
CONSTANTS
  Request = {c1}
  RatePerSec = 1
  MaxConcurrent = 1
  ChunkCap = 1
  MaxDeltas = 1
  MaxAttempts = 2
INVARIANTS PlainUnderstood
CHECK_DEADLOCK FALSE
