SPECIFICATION Spec
CONSTANTS
  WordBits = 4
  CastBits = 2
  ScanRange = 3
  CopiedBits = 11
  BitmapPages = 1
  BasePage = 2
  AddrPages = 64
  Entries = 6
  TableSize = 3
  Numpts = 1
  HeapBase = 112
  Unit = 2
  Requests <- MCNestedRequests
  RamSizes <- MCNestedRam
  Contexts <- MCNested
CONSTRAINT UntilUnwound
INVARIANTS
  TypeOK
  Exclusive
  BitmapProtected
  HeapBacked
  BreakInLastPage
  NothingBeyondBreak
  NoFrameLost
