\* A task of two tool calls, with a user who speaks, switches the mode and interrupts.
CONSTANTS
  Replies <- MixedReplies
  Timed = TRUE
  MaxCalls = 2
  MaxSends = 2
  MaxEvents = 2
\* The settings of two roles, with two providers: one has two models and a parameter.
  Roles <- MCRoles
  Switchable = {"observer"}
  Listed <- MCListed
  ModelsOf <- MCModels
  Tunable = {"p"}
  Default = 1
  Ceiling = 2
  Keys = {"k"}
  Numbers = {3}
  Themes <- MCThemes
  None = None
  Files <- MCFiles
  MaxKeys = 3
  MaxDialogs = 2
  MaxAgents = 1
  MaxTrouble = 1
\* One text editor, with texts of up to three characters or two bytes.
  Char <- MCChar
  Pastes <- MCPastes
  HookFiles <- MCHookFiles
  MaxInput = 2
  MaxHistory = 2
  MaxSource = 3
  MaxPath = 2
\* Two agents' conversations on a screen of one row.
  Height = 1
  MaxTabs = 2
  Lengths = {2}
  OffsetLimit = 8
  MaxNews = 4
  MaxMoves = 2
SPECIFICATION PartsSpec
INVARIANTS PromptsHonest OneYesPerRun HeardInOrder LoadingEnds LookingChangesNothing AllAgree CursorsHold ShowsTheLog
PROPERTIES PlanChangesNothing InterruptEnds
CHECK_DEADLOCK FALSE
