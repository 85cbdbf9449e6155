SPECIFICATION Spec
CHECK_DEADLOCK FALSE
CONSTANTS
  Size = 6
  Wrap = 4
  Chunk = 3
  MaxErrors = 3
  MaxFaults = 4
INVARIANTS
  TypeOK
  FileIsSent
  AckedIsStored
PROPERTIES
  Arrives
