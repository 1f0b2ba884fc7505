SPECIFICATION Spec
CONSTANTS
  Nodes <- MCLeader
  MaxAborts = 0
  MaxReboots = 0
INVARIANTS CredsStored
