SPECIFICATION FairSpec
CONSTANTS
  Fallbacks = {TRUE, FALSE}
  Cap = 2
  MaxInstr = 2
  None = None
INVARIANTS TypeOK Released
PROPERTIES IntervalsAdvance Promotes CancelEnds
CHECK_DEADLOCK FALSE
