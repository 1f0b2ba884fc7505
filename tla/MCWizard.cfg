SPECIFICATION FairSpec
CONSTANTS
  Controllers = {"a", "b"}
  Profiles = {"edge", "web", "db"}
  ProfileLists <- MCLists
INVARIANTS TypeOK RequestFits
PROPERTIES ImplementsDialogue OperatorServed
CHECK_DEADLOCK FALSE
