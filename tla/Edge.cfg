SPECIFICATION EdgeSpec
CONSTANTS
  MaxMillis = 100000000
  MaxWeight = 10
  Lower <- Same
  Threads = 4
  Files = {"c.pem", "k.pem"}
  EnvVars = {}
  Labels <- HostLabels
  RewriteOk <- Always
  Params = {"{id}"}
  CatchAll = "{*_}"
  ParamOf <- MCParamOf
  LowerLabel <- Same
  MAX_LABELS = 3
  RouteList <- MCRoutes
  Hosts <- MCHosts
  Methods = {"GET", "POST"}
  Paths <- MCPaths
  MaxRoutes = 3
  ReOk <- MCReOk
  ReMatches <- MCReMatches
  ReReplace <- MCReReplace
  MaxPrio = 100
  RewriteRules <- MCRules
  Strips <- MCStrips
  RewritePaths <- MCRewritePaths
  MaxRules = 4
  PathTokens = {"/", "a", "b", "r", "w", "x", "y", "z", "*", "^", "["}
  Code <- MCCode
  MAX_GROUP_OPTIONS = 3
  MAX_DEEP_WILDCARDS = 2
  MAX_STACK_DEPTH = 4
  PatternList <- MCPatterns
  GlobInputs <- MCInputs
  MaxPatterns = 2
  V4Bits = 2
  V6Bits = 3
  OctetBits = 1
  MappedBase = 4
  MAX_EH_HOPS = 2
  Ranges <- MCRanges
  Access <- MCAccess
  Peers <- MCPeers
  Chains <- MCChains
  MaxNets = 2
  Filters <- MCFilters
  FilterNets <- MCFilterNets
  FilterPorts = {1, 2}
  Frames <- MCFrames
  MaxCalls = 2
  IpHit <- NoIpHit
  TextHit <- NoTextHit
  QuitBytes = {"q"}
  Unbuildable <- MCUnbuildable
  WafConfigs <- MCWafConfigs
  WafRequests <- MCWafRequests
  WafStatuses = {200, 500}
  Bytes = {"a", "b", "q"}
  MaxBody = 5
  MaxChunk = 2
  CorsPolicies <- MCCorsPolicies
  CorsRequests <- MCCorsRequests
  PolicyBlocks <- MCPolicyBlocks
  PolicyMarks <- MCPolicyMarks
  Marks <- MCMarks
  Faults <- MCFaults
  MaxFaults = 2
  StaticPaths <- MCStaticPaths
  Disks <- MCDisks
  Sizes = {2}
  Mutable <- MCMutable
  Targets <- MCTargets
  Requests <- MCRequests
  Configs <- MCConfigs
  Escaped <- MCEscaped
  BadEscapes = {"%zz"}
  READ_CHUNK = 2
  MaxChanges = 2
  Clients = {c1, c2}
  Attempts <- MCAttempts
  AuthConfigs <- MCAuthConfigs
  TokenOf <- MCTokens
  MaxTime = 4
  Mixes <- MCMixes
  MAX_PROOF_AGE_SECS = 1
  REPLAY_SWEEP_INTERVAL_SECS = 2
  ReplayCapacity = 1
  KEY_REFETCH_COOLDOWN = 2
  MAX_CONCURRENT_REFRESHES = 1
  Installers = {i1, i2}
  Versions = {1, 2, 3}
  MaxInstalls = 3
INVARIANTS
  RoutingRefines FirstRuleWins GlobsMeanAsDocumented PeersJudgedAsWritten FilterKeepsContract
  ChunkingInvisible CachedAnswersFit
  PoliciesInherited EveryErrorReported ProofOnce FetchesBounded OneVersionServed
PROPERTY SwapIsSafe
SYMMETRY Symmetric
CHECK_DEADLOCK FALSE
