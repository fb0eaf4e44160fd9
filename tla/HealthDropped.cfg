SPECIFICATION FairSpec
CONSTANTS
  Backends = {b1}
  Settings <- MCQuickThenNone
  NoCheck <- MCNoCheck
  MaxContexts = 2
  CheckConcurrency = 1
  CounterSpan = 4
  MaxInterval = 2
PROPERTY RecoveredIsReadded
