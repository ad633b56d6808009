SPECIFICATION FairSpec
CONSTANTS
  Servers = {"alpha"}
  Nested = {}
  MaxClients = 2
  Configs <- MCConfigs
  BootConfigs <- MCBootConfigs
  CacheDir = FALSE
  Rpcs = {p1}
  Calls = {}
  Main = main
  MaxRegs = 2
  Drops = FALSE
  HangingServers = {"alpha"}
PROPERTY RefreshEnds
CHECK_DEADLOCK FALSE
