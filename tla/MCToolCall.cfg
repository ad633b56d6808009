SPECIFICATION Spec
CONSTANTS
  Floats <- MCFloats
  Ints <- MCInts
  Bools <- MCBools
  NotFinite <- MCNotFinite
  Json <- MCJson
  Registries <- MCRegistries
  Requests <- MCRequests
INVARIANTS TypeOK ContextNeverLeaks HeadersByRank ContextArrives ToolNamesArrive IncludeFieldsValid IncludeFieldsKept
CHECK_DEADLOCK FALSE
