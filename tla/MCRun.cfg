SPECIFICATION MCSpec
CONSTANTS
  MaxTurns = 3
  NHooks = 2
  SteeringMode = "OneAtATime"
  FollowUpMode = "OneAtATime"
  Env = {"approval", "cancel", "providerFail", "compact", "steerUser"}
  MaxRuns = 1
  MaxQueued = 1
  MaxCalls = 3
INVARIANTS
  ResultsReachModel
  QueuedOnceInOrder
  LogIsTheState
  PauseCanBeResumed
  RunsAreCovered
CHECK_DEADLOCK FALSE
