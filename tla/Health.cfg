SPECIFICATION FairSpec
CONSTANTS
  Backends = {b1}
  Settings <- MCSettings
  NoCheck <- MCNoCheck
  MaxContexts = 2
  CheckConcurrency = 1
  CounterSpan = 4
  MaxInterval = 2
PROPERTIES FlagFollowsStreak ChecksSpaced DownIsExcluded RecoveredIsReadded
