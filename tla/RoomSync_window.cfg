SPECIFICATION Spec
CONSTANTS
  MaxMessages = 3
  PageSize = 1
  ContextSize = 1
  MaxGenerations = 2
  Requests = {r1, r2}
  MaxTurns = 2
SYMMETRY MCSymmetry
INVARIANTS  NeverLeftPaused
PROPERTIES NoSecondRow SendsAfterCatchUp MarkerForward
CHECK_DEADLOCK FALSE
