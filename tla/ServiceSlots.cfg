CONSTANTS
\* Clients that lock, come and go and read.
  Node <- Paths
  Above <- PathAbove
  NoNode = NoNode
  Fd <- TwoFds
  NoFd <- NoneFd
  MaxWaitersPerNode = 2
  Requested <- Leaves
  Waited <- Leaves
  SharesSlots = TRUE
  MaxInbox = 2
  MaxEvents = 6
  FirstFd = 2
\* Two agents with a call each, two crashes or hangs; one slot and one thread.
  Caller = {a1, a2}
  MaxCalls = 1
  SpawnMayFail = TRUE
  MaxChildren = 1
  ForkMayFail = TRUE
  MaxThreads = 1
  MaxFaults = 2
\* Two requests, or one program, that prints more than a pipe holds and an answer keeps.
  PipeCap = 1
  MaxOutput = 1
  MaxPrints = 2
  MaxRuns = 2
SPECIFICATION PartsSpec
INVARIANT BeliefSound
CHECK_DEADLOCK FALSE
