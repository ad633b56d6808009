SPECIFICATION Spec
CONSTANTS
  Servers = {"alpha", "beta"}
  Nested = {}
  MaxClients = 2
  Configs <- MCConfigs
  BootConfigs <- MCBootConfigs
  CacheDir = FALSE
  Rpcs = {p1, p2}
  Calls = {}
  Main = main
  MaxRegs = 3
  Drops = FALSE
  HangingServers = {}
INVARIANT ServesConfig
CHECK_DEADLOCK FALSE
