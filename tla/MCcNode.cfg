CONSTANTS
  MaxW = 3
  MaxH = 3
  RootSizes <- MCRootSizes
  BoxSizes <- MCBoxSizes
SPECIFICATION FairSpec
INVARIANTS
  TypeOK
  LeavesTile
  InsideRoot
  NothingSkipped
  BigLeaf
PROPERTIES
  NullOnlyWhenFull
  NeverFailsWithRoom
  AtlasSpec
  InsertReturns
