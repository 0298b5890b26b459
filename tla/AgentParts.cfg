\* Every interleaving of four clients on "/", "/a", "/a/b", "/a/c", with disconnects.
\* Calls in replies of up to two; handlers of every shape, and a
\* repository with overlays.
CONSTANTS
  Node <- ForkNodes
  Above <- ForkAbove
  NoNode = NoNode
  Fd = {f1, f2, f3, f4}
  NoFd = NoFd
  MaxWaitersPerNode = 2
  f = f
  lockfile = lockfile
  q1 = q1
  q2 = q2
  File <- MCFile
  Question <- MCQuestion
  Protected <- MCProtected
  Calls <- MCCalls
  Flaky = {"search"}
  StreakLimit = 3
  MaxReplies = 3
  MaxCalls = 2
  NoCall = NoCall
  Groups <- MCGroups
  AsGlob <- MCAsGlob
  MatchOf <- MCMatchOf
  Text <- MCText
  Items <- MCItems
  Changes <- MCChanges
  Disks <- MCDisks
  Program <- MCProgram
  RuleLimit = 3
  ActionLimit = 3
  StepLimit = 9
  TriggerLimit = 2
  ValidationLimit = 2
  GateLimit = 2
  NoFile = NoFile
SPECIFICATION PartsSpec
SYMMETRY Clients
CHECK_DEADLOCK FALSE
INVARIANTS NoLostWakeup OneRetryPerCode PlainRulesMeanIt ReviewsAskedFor
PROPERTY BreakerPauses
