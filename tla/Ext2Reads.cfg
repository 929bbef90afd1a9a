SPECIFICATION FairSpec
CONSTANTS
  Images <- MCImages
  Slots = 4
  InodesPerGroup = 4
  InodesPerBlock = 2
  GroupsPerBlock = 2
  FirstBgdt = 2
  Direct = 2
  W = 64
  Paths <- MCPaths
  MaxFailures = 1
  StackDepth = 3
INVARIANTS
  TypeOK
  LookupRight
  ListingRight
  HaltExplained
PROPERTIES
  GoesWrongByFailure
  CallsEnd
