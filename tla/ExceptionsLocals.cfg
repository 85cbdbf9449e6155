SPECIFICATION Spec
CONSTANTS
  RSSize = 13
  DSSize = 2
  MaxLoc = 2
INVARIANT LocalsSurviveThrow
CHECK_DEADLOCK FALSE
