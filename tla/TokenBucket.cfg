CONSTANTS
  NanosPerMs = 2
  MsPerSec = 2
  U64Max = 200
  Threads = {t1, t2}
  Configs <- MCConfigs
  MaxMs = 3
SPECIFICATION FairSpec
INVARIANTS RateConformance RetryAfterExact
PROPERTIES ImplementsPromise CheckReturns
