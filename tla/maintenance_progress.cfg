SPECIFICATION Spec
CONSTANTS
  Writers = {w1, w2}
  Collections = {c1}
  Kinds = {"collection", "sql"}
  MaxRequests = 1
  MaxRestores = 2
  Aborts = FALSE
  IoFails = TRUE
PROPERTIES PendingIsFlushed RestoreFinishes ShutdownCompletes
CHECK_DEADLOCK FALSE
