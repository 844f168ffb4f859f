SPECIFICATION Spec
CONSTANTS
  Points = {"p", "q"}
  MaxMutations = 3
  MaxCompactions = 1
  MaxFailures = 1
  MaxCrashes = 0
  MinFanIn = 2
  Deviations = {"missing"}
INVARIANT RewriteFailureKeeps
CHECK_DEADLOCK FALSE
