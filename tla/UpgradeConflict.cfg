SPECIFICATION Spec
CONSTANTS
  MaxProcesses = 3
  Kinds <- MCKinds
CHECK_DEADLOCK FALSE
INVARIANT RejectedKeepsServing
