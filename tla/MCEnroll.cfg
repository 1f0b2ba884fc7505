SPECIFICATION FairSpec
CONSTANTS
  N = 2
  MaxMishaps = 1
INVARIANTS TypeOK OnlyAccepted SuccessHolds ResetCleans
PROPERTIES EnrollmentEnds
CHECK_DEADLOCK FALSE
