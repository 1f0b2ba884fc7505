SPECIFICATION FairSpec
CONSTANTS
  Fallbacks = {TRUE, FALSE}
  Cap = 2
  MaxInstr = 2
  None = None
INVARIANTS HeldOffline
CHECK_DEADLOCK FALSE
