SPECIFICATION Spec
CONSTANTS
  MaxTurns = 2
  NHooks = 1
  SteeringMode = "OneAtATime"
  FollowUpMode = "OneAtATime"
  Env = {"approval", "abortPaused"}
  MaxRuns = 1
  MaxQueued = 0
  MaxCalls = 1

PROPERTIES
  AbortedStays
CHECK_DEADLOCK FALSE
