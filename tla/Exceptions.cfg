SPECIFICATION Spec
CONSTANTS
  RSSize = 13
  DSSize = 2
  MaxLoc = 2
INVARIANTS
  TypeOK
  HandlerChain
  StackDiscipline
  LocalsCurrent
PROPERTY
  ImplementsTryCatch
CHECK_DEADLOCK FALSE
