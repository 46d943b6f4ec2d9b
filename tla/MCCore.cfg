SPECIFICATION MCSpec
CONSTANTS
  Runners = {r1, r2}
  Waiters = {w1, w2, w3}
  Preempted = {w1}
  r1 = r1
  r2 = r2
  w1 = w1
  w2 = w2
  w3 = w3
  MaxReconnects = 2
  InitialBackoff = 1
  MaxBackoff = 2
  HasAuth = TRUE
  Preemptible = TRUE
  BodyChunks = 2
  MaxFrames = 3
  Modes = {"persistent", "request_only"}
  Compactors = {"summary", "replacement"}
  Threshold = 4
  KeepRecent = 2
  InputLimit = 7
  ToolSizes = {1, 2}
  MaxMessages = 11
  MaxFaults = 1
  Stores = {"sqlite", "memory"}
  MaxRuns = 2
  MaxSeq = 6
  MaxCrashes = 2
  ExtensionKinds = {"none", "hook"}
  StreamedEvents = 2
  MaxInvalid = 1
  Room = 3
  PipeRoom = 2
  ChatIds = {"chat1", "chat2"}
  ResponsesIds = {"resp1", "resp2"}
  AnthropicIds = {"anth"}
  ToolNames = {"t1"}
  LocalFiles = {"f1"}
  AllowFileData = TRUE
  Stateless = TRUE
  MaxHistory = 3
INVARIANTS
  OneRun
  WaitSeesSettled
  OkIsComplete
  PausedCanResume
  NothingForgotten
  NoOrphan
  CallsExact
  AcceptedStaysAccepted
CHECK_DEADLOCK FALSE
