SPECIFICATION FairSpec
CONSTANTS
  Nodes <- MCNodes
  MaxAborts = 2
  MaxReboots = 1
INVARIANTS TypeOK CredsMatchVault PKIConsistent Published
PROPERTIES VaultKept ImplementsStepList Settles
