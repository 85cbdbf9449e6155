SPECIFICATION Spec
CONSTANTS
  Blocks = {b0, b1, b2, b3}
  Zero = b0
  Values = {0, 1}
  NBufs = 3
  MaxFlush = 1
SYMMETRY Symmetry
INVARIANTS
  OneCopy
  CleanIsDisk
  UpdateMarksAsked
PROPERTIES
  RecentKept
  ImplementsBlockStore
CHECK_DEADLOCK FALSE
