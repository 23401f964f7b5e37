SPECIFICATION Spec
CONSTANTS
  MaxMessages = 5
  PageSize = 2
  ContextSize = 1
  MaxGenerations = 0
  Requests = {}
  MaxTurns = 0
PROPERTY AppendsContiguous
CHECK_DEADLOCK FALSE
