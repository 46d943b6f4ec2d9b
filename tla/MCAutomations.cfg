SPECIFICATION FairSpec

CONSTANTS
  Ids = {a1, a2}
  Edited = {a1}
  Kinds = {"once", "interval"}
  Retry = 1
  Permits = 1
  MaxTime = 2
  MaxEdits = 1
  MaxFaults = 1
  a1 = a1
  a2 = a2

INVARIANTS
  OnceFiresOnce

PROPERTIES
  DueIsFired

CHECK_DEADLOCK FALSE
