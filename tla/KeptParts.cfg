CONSTANTS
\* No connection is lost while it owns a path: the trie implements HierLock.
\* Two clients with settings on three nested paths, one key.
  Node <- Fork
  Above <- ForkAbove
  NoNode = NoNode
  Fd = {f1, f2, f3}
  NoFd = NoFd
  MaxWaitersPerNode = 2
  Dir <- Chain
  DirsAbove <- ChainAbove
  Root <- RootPath
  Key = {k1}
  Value = {v1, v2}
  Unset = Unset
  Conn = {d1, d2}
  SaveMayFail = TRUE
\* Three messages of one client through a buffer of four bytes.
  OutCap = 4
  MessageLengths = {1, 3, 6}
  MaxOutgoing = 3
\* A trajectory of seven messages; four judged turns, or six without the model's observations; two agents with a call each.
  File = {f}
  Big = {f}
  Texts <- MCTexts
  Size = {1, 5}
  Limit = 12
  System = 4
  WordSize = 1
  Notice = 1
  RetrySoft = 2
  RetryHard = 3
  Recent = 1
  LastTools = 1
  Forms = {"fields", "line"}
  MaxMsgs = 7
  MaxRecorded = 2
  MaxSaid = 2
  MaxVersion = 2
  None = None
  s1 = s1
  Nothing = Nothing
  Sign <- MCSign
  Sight <- MCSight
  Subgoal <- MCSubgoal
  WatcherFrequency = 2
  CriticFrequency = 3
  ReflectAfter = 3
  ReflectionCooldown = 3
  RestartAfter = 2
  Weight <- MCWeight
  ReflectionTokens = 3
  MemoryCap = 4
  Stored = 3
  Window = 5
  Activation = 2
  UseLlm = {TRUE, FALSE}
  MaxEdits = 4
  MaxJudged = 6
  MaxStoring = 4
  MaxStored = 6
  MaxMessages = 13
  Agent <- MCAgent
  Batcher <- MCBatcher
  LineText <- MCText
  HashOf <- MCHashOf
  DigitHash <- MCDigitHash
  Carried <- MCCarried
  AsAnchor <- MCAsAnchor
  NoAnchor <- MCNoAnchor
  Norm <- MCNorm
  Near <- MCNear
  Radius = 1
  NewText = "z"
  Blank = ""
  FirstLines <- MCFirstLines
  MaxEditCalls = 1
SPECIFICATION PartsSpec
SYMMETRY Symmetric
INVARIANTS SubtreeExclusion Durable Conserved TaskSurvives WordsOutlive
  ReflectionSurvives OnlySummarisedDropped
  SplicesExact AnchorsHold PanicsOnlyOnOverlap
PROPERTIES KeepsPromise
CHECK_DEADLOCK FALSE
