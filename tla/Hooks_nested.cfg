CONSTANTS
  Groups <- MCGroups
  AsGlob <- MCAsGlob
  MatchOf <- MCMatchOf
  Text <- MCText
  Items <- MCItems
  Changes <- MCChanges
  Disks <- LangDisks
  Program <- MCProgram
  RuleLimit = 3
  ActionLimit = 3
  StepLimit = 9
  TriggerLimit = 2
  ValidationLimit = 2
  GateLimit = 2
  NoFile = NoFile
SPECIFICATION HooksSpec
CHECK_DEADLOCK FALSE
INVARIANT RulesMeanIt
