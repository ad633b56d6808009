SPECIFICATION Spec
CONSTANTS
  Servers = {"alpha", "beta"}
  Nested <- MCNested
  MaxClients = 2
  Configs <- MCConfigs
  BootConfigs <- MCBootConfigs
  CacheDir = TRUE
  Rpcs = {p1}
  Calls = {e1}
  Main = main
  MaxRegs = 2
  Drops = FALSE
  HangingServers = {}
INVARIANTS OfflineMarked IndInv ServesConfigInTurn
PROPERTY ImplementsStore
CHECK_DEADLOCK FALSE
