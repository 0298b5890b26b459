\* Two changes in one turn, the user answers the first prompt late.
CONSTANTS
  Replies <- EditReplies
  Timed = FALSE
  MaxCalls = 2
  MaxSends = 1
  MaxEvents = 2
SPECIFICATION SessionSpec
INVARIANT OnlyApprovedRun
CHECK_DEADLOCK FALSE
