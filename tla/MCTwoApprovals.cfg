SPECIFICATION MCSpec
CONSTANTS
  MaxTurns = 3
  NHooks = 2
  SteeringMode = "OneAtATime"
  FollowUpMode = "OneAtATime"
  Env = {"approval", "cancel", "providerFail", "compact", "steerUser"}
  MaxRuns = 1
  MaxQueued = 2
  MaxCalls = 3
INVARIANTS
  AnsweredGoesOn
CHECK_DEADLOCK FALSE
