SPECIFICATION Spec
CONSTANTS
  Servers = {"alpha"}
  Nested = {}
  MaxClients = 3
  Configs <- MCConfigs
  BootConfigs <- MCBootConfigs
  CacheDir = TRUE
  Rpcs = {p1}
  Calls = {}
  Main = main
  MaxRegs = 2
  Drops = FALSE
  HangingServers = {}
INVARIANT ClosedStaysClosed
CHECK_DEADLOCK FALSE
