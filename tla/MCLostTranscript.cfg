SPECIFICATION Spec
CONSTANTS
  MaxTurns = 2
  NHooks = 1
  SteeringMode = "OneAtATime"
  FollowUpMode = "OneAtATime"
  Env = {"approval"}
  MaxRuns = 2
  MaxQueued = 0
  MaxCalls = 1

PROPERTIES
  TranscriptGrows
CHECK_DEADLOCK FALSE
