SPECIFICATION FairSpec
CONSTANTS
  Room = 8
  Machines <- MCMachines
INVARIANTS
  TypeOK
  ModifierHeld
  CaseRight
  DevicesReal
  BootSound
PROPERTIES
  BootEnds
