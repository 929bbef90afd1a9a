SPECIFICATION Spec
CONSTANTS
  DiskSize = 9
  LbaSpace = 16
  Lba28Space = 8
  LowSpace = 4
  SectMask = 4
  Spt = 3
  Heads = 2
  Requests <- MCSerial
  Drives <- MCDrives
  Contexts <- MCMain
INVARIANTS
  WriteReported
