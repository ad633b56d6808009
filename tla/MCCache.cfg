SPECIFICATION Spec
CONSTANTS
  Savers = {b1, b2}
  Loaders = {l1}
  Servers <- MCServers
  Safe <- MCSafe
  Lists <- MCLists
  Of <- MCOf
  Size <- MCSize
INVARIANTS TypeOK FileIsOneSave OwnTools
PROPERTIES LoadsWhatWasSaved
CHECK_DEADLOCK FALSE
