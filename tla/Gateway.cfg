SPECIFICATION FairSpec
CONSTANTS
  Requests = {r1, r2}
  Names = {"api", "web"}
  Addrs = {"a1", "a2"}
  Routes = {"/api", "/web"}
  Configs <- MCConfigs
  MaxServers = 2
  MaxContexts = 3
  MaxAttempts = 2
INVARIANTS ConnsAreHolders ChargedOnce OneSnapshot InFlightStaysVisible
PROPERTY RequestEnds
CHECK_DEADLOCK FALSE
