SPECIFICATION Spec
CONSTANTS
  N = 2
  Profiles = {"web", "db"}
  Files <- MCFiles
  Instructions <- MCInstructions
  Settings <- MCSame
  NoLink = NoLink
  Cap = 1
INVARIANTS OneVersion
CHECK_DEADLOCK FALSE
