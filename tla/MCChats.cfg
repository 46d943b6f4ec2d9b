SPECIFICATION MCSpec
CONSTANTS
  MaxUpdates = 4
  Unsupported = {2}
  Page = 2
  SkipPending = TRUE
  MaxConflicts = 1
  MaxNetworks = 2
  MaxDeaths = 2
  Conns = {"c1"}
  AppConns = {}
  StdioConns = {}
  Reqs = {1, 2}
  Prompters = {"c1"}
  Watchers = {"c1"}
  Leavers = {"c1"}
  Stoppers = {"c1"}
  Events = 2
  Slots = 1
  MaxLinkFaults = 2
  Commands = {"abort", "manifest"}
  MaxEntries = 2
  MaxKeys = 3
  MaxPresses = 2
  MaxRestarts = 1
  MaxMessages = 4
  Unnamed = {1, 2}
  Silent = {4}
  Refused = {}
  MaxInPage = 2
  MaxStops = 1
  Base = "base"
  Derived = {"d1"}
  Child = "child"
  None = "none"
  MaxChatCommands = 4
  MaxChatFaults = 2
  MaxNotes = 2
INVARIANTS
  NoUpdateLost
  WeixinGetsThrough
  ReplyToTrigger
  FinalComplete
  DoneOnce
  AnswerMeansNumber
  EventsBeforeAnswer
  PromptsAreWhole
CHECK_DEADLOCK FALSE
