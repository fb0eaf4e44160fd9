SPECIFICATION Spec
CONSTANTS
  Requests = {"r1", "r2"}
  Worker <- MCWorker
  Upstreams = {"solo", "pair", "trio"}
  Servers <- MCServers
  Strategies <- MCStrategies
  HashIp <- MCHashIp
  MayFail = {"a", "b", "x"}
  TicketSpan = 4
  MaxAttempts = 2
INVARIANTS PicksByHealth FewestConnections
PROPERTY RoundRobinInTurn
