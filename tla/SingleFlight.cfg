CONSTANTS
  Callers = {c1, c2, c3}
  MaxFlights = 3
  RemembersFailures = TRUE
SPECIFICATION FairSpec
INVARIANT OneFetchRuns
PROPERTIES CacheMovesForward CallerReturns
CHECK_DEADLOCK FALSE
