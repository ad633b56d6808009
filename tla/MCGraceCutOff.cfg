SPECIFICATION Spec
CONSTANTS
  Calls = {c1}
  GraceDelay = 7
  CallTimeout = 6
  MaxRegs = 3
  MaxNow = 18
INVARIANTS NeverCutOff
CHECK_DEADLOCK FALSE
