SPECIFICATION FairSpec
CONSTANTS
  Servers = {"alpha"}
  Nested = {}
  MaxClients = 2
  Configs <- MCConfigs
  BootConfigs <- MCBootConfigs
  CacheDir = FALSE
  Rpcs = {p1, p2}
  Calls = {e1}
  Main = main
  MaxRegs = 3
  Drops = TRUE
  HangingServers = {}
INVARIANTS TypeOK OneOwner OneRefresh CallKeepsClient
PROPERTIES RefreshEnds NoneForgotten
CHECK_DEADLOCK FALSE
