SPECIFICATION FairSpec
CONSTANTS
  N = 2
  Profiles = {"web", "db"}
  Files <- MCFiles
  Instructions <- MCInstructions
  Settings <- MCSettings
  NoLink = NoLink
  Cap = 1
INVARIANTS TypeOK LinkKept StageGone WholeFiles Installed LastIsActive
PROPERTIES FetchedEnds
CHECK_DEADLOCK FALSE
