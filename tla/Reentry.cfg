SPECIFICATION Spec
CONSTANTS
  Conns = {c1, c2}
  Pieces = 1
  Segs = 2
  SndBuf = 2
  Slots = 2
  Excess = 1
INVARIANTS
  ForegroundKept
  StacksLevel
  AnswersKept
PROPERTY Answered
CHECK_DEADLOCK FALSE
