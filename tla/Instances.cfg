SPECIFICATION InstancesSpec
CONSTANTS
  Ihandles = {i1, i2, i3, i4}
  None = None
  MaxCalls = 5
SYMMETRY IhandlesSymmetry
INVARIANTS
  NoDangling
  NothingLost
PROPERTIES
  ClosedFirst
