SPECIFICATION FairSpec
CONSTANTS
  Opener = o
  Callers = {c1, c2}
  Kinds <- MCKinds
  MaxId = 8
  Rotates = TRUE
INVARIANTS TypeOK HasTransport NothingLeftOpen SessionKept
PROPERTIES IdsNeverReused OpenerEnds
CHECK_DEADLOCK FALSE
