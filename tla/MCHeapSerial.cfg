SPECIFICATION FairSpec
CONSTANTS
  WordBits = 4
  CastBits = 2
  ScanRange = 3
  CopiedBits = 6
  BitmapPages = 1
  BasePage = 2
  AddrPages = 64
  Entries = 6
  TableSize = 3
  Numpts = 1
  HeapBase = 168
  Unit = 3
  Requests <- MCRequests
  RamSizes <- MCRamSizes
  Contexts <- MCSerial
PROPERTIES
  ImplementsBrk
  CallsReturn
