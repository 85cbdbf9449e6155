SPECIFICATION Spec
CONSTANTS
  Files = {f1, f2}
  Buffers = {b1, b2}
  Console = console
  Tib = tib
  Text = string
  Words = 2
  Lines = 2
  MaxNest = 3
INVARIANTS
  SourcesOwned
PROPERTY ImplementsInputStack
CHECK_DEADLOCK FALSE
