SPECIFICATION Spec
CONSTANTS
  DictSize = 5
  BufSize = 3
  MaxMarks = 2
  MaxRuns = 2
INVARIANTS
  ThreadSound
  HereInPlace
PROPERTIES
  NoTrace
  ImplementsVocabulary
CHECK_DEADLOCK FALSE
