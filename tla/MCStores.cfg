SPECIFICATION MCSpec
CONSTANTS
  Tasks = {"t1", "t2", "t3"}
  MaxCalls = 3
  MaxEvents = 2
  MaxCrashes = 1
  Requests = {"r1", "r2"}
  OneProcess = TRUE
  WithKeyring = TRUE
  MaxTokens = 2
  MaxAuthFaults = 1
  Editors = {"e1", "e2"}
  LongEditors = {"e1"}
  PathOf <- TwoFiles
  Aliases = {"./a"}
  MaxEditFaults = 1
  Additions = {"a", "b"}
  McpPlugins = {"m"}
  ExtPlugins = {"e"}
  SkillPlugins = {"s"}
  ApplyCalls = {1, 2}
  HasInputLimit = TRUE
  MaxProposals = 2
INVARIANTS
  StoredIsListed
  OneAgent
  
  ProposalInOnePlace
  EditsKeepEachOther
  RefreshedOnce
PROPERTIES
  AuditsDoNotChain
CHECK_DEADLOCK FALSE
