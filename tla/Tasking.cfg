SPECIFICATION Spec
CONSTANTS
  Tasks = {main, t1, t2}
  Main = main
  Nil = nil
INVARIANTS
  RingClosed
  OwnStacks
PROPERTIES
  RingKept
  PauseReturns
  EveryTaskRuns
