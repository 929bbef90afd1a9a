SPECIFICATION FairSpec
CONSTANTS
  Starts <- MCStarts
  MaxTicks = 2
  MaxOthers = 1
INVARIANTS
  TypeOK
  OnlyClockInterrupted
  EpochRight
  FatTimeFollows
PROPERTIES
  GoesBackExplained
  RequestsServed
