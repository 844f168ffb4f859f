SPECIFICATION Spec
CONSTANTS
  Points = {"p", "q"}
  MaxMutations = 3
  MaxCompactions = 1
  MaxFailures = 0
  MaxCrashes = 1
  MinFanIn = 2
  Deviations = {"order"}
INVARIANT ReadsLatest
CHECK_DEADLOCK FALSE
