SPECIFICATION Spec
CONSTANTS
  DiskSize = 9
  LbaSpace = 16
  Lba28Space = 8
  LowSpace = 4
  SectMask = 4
  Spt = 3
  Heads = 2
  Requests <- MCNested
  Drives <- MCDrives
  Contexts <- MCBoth
INVARIANTS
  TypeOK
  ReadTruthful
  WriteConfined
  WriteComplete
  DeviceQuiet
