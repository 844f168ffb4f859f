SPECIFICATION Spec
CONSTANTS
  Clients = {c1, c2}
  Ops = {"create", "drop", "put", "sql", "multi"}
  Protected = FALSE
  MaxDecisions = 4
  MaxFaults = 1
  MaxCrashes = 2
INVARIANTS CollectionRecovered RelationalRecovered ReadyIsProjected MemoryFollowsJournal
PROPERTIES ServesAudited ComesBack
CHECK_DEADLOCK FALSE
