SPECIFICATION Spec
CONSTANTS
  Clients = {c1, c2}
  Ops = {"create", "sql", "multi"}
  Protected = FALSE
  MaxDecisions = 3
  MaxFaults = 1
  MaxCrashes = 1
INVARIANTS CommitsSurvive
CHECK_DEADLOCK FALSE
