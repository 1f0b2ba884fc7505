SPECIFICATION FairSpec
CONSTANTS
  MaxAge = 1
  ChanCap = 2
  Fallbacks = {TRUE, FALSE}
  JSModes = {TRUE, FALSE}
  MaxEvents = 3
  MaxTime = 2
INVARIANTS TypeOK InOrder Accounted OrderedUnlessNacked BacklogReplayedFirst AtMostThreeCopies
PROPERTIES EvictsExpired ImplementsQueue ChannelServed CancelEnds
CHECK_DEADLOCK FALSE
