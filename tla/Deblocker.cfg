SPECIFICATION Spec
CONSTANTS
  Byte = {0, 1}
  BlockSize = 1
  BufSize = 3
  Capacity = 4
  MaxLen = 4
INVARIANTS
  CleanIsDevice
PROPERTIES
  ImplementsByteDevice
  Terminates
