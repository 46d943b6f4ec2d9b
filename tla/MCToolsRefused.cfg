SPECIFICATION Spec
CONSTANTS
  NCalls = 1
  NHooks = 1
  Mode = "Parallel"
  SinkFails = TRUE
INVARIANTS
  RecordedDenyHonoured

CHECK_DEADLOCK FALSE
