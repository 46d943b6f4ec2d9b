SPECIFICATION MCSpec
CONSTANTS
  NCalls = 2
  NHooks = 2
  Mode = "Parallel"
  SinkFails = TRUE
INVARIANTS
  BatchGate
  InvokedApproved
  DeniedNeverRuns
  AtMostOnce
  HooksOnceInOrder
  FollowerHasAll
PROPERTIES
  GateSpec
  TerminateReturns
  ParentIsTold
  RunsEnd
CHECK_DEADLOCK FALSE
