\* Two agents' conversations on a screen of two rows.
CONSTANTS
  Height = 2
  MaxTabs = 2
  Lengths = {2}
  OffsetLimit = 8
  MaxNews = 5
  MaxMoves = 2
SPECIFICATION TalkSpec
INVARIANT DrawnIsCurrent
CHECK_DEADLOCK FALSE
