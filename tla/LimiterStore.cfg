CONSTANTS
  NanosPerMs = 1
  MsPerSec = 1
  U64Max = 100
  Threads = {t1, t2}
  Clients = {a}
  Overflow = overflow
  Scopes = {s}
  Policy <- MCPolicy
  MaxTracked = 1
  MaxMs = 2
SPECIFICATION FairSpec
PROPERTIES EvictionInvisible LoadEnds
