SPECIFICATION Spec
CONSTANTS
  MaxAge = 1
  ChanCap = 2
  Fallbacks = {TRUE}
  JSModes = {TRUE}
  MaxEvents = 2
  MaxTime = 1
PROPERTIES DrainReachesNATS
CHECK_DEADLOCK FALSE
