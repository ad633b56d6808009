SPECIFICATION Spec
CONSTANTS
  Ids = {1, 2}
  Extras = 2
INVARIANT OwnResponses
CHECK_DEADLOCK FALSE
