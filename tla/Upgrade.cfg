SPECIFICATION FairSpec
CONSTANTS
  MaxProcesses = 3
  Kinds <- MCKinds
CHECK_DEADLOCK FALSE
INVARIANTS OneServes ServerIsNamed
PROPERTY HandoverEnds
