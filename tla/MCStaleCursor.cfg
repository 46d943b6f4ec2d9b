SPECIFICATION Spec
CONSTANTS
  MaxTurns = 2
  NHooks = 1
  SteeringMode = "OneAtATime"
  FollowUpMode = "OneAtATime"
  Env = {"approval", "steer"}
  MaxRuns = 1
  MaxQueued = 1
  MaxCalls = 1
INVARIANTS
  TurnAsksModel

CHECK_DEADLOCK FALSE
