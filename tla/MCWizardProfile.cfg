SPECIFICATION Spec
CONSTANTS
  Controllers = {"a", "b"}
  Profiles = {"edge", "web", "db"}
  ProfileLists <- MCLists
INVARIANTS ShownIsSent
CHECK_DEADLOCK FALSE
