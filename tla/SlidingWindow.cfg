CONSTANTS
  Threads = {t1, t2}
  MaxRequests = 2
  WindowSecs = 1
  MsPerSec = 2
  MaxMs = 5
SPECIFICATION Spec
PROPERTY SlidingPromise
