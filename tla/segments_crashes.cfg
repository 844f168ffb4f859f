SPECIFICATION Spec
CONSTANTS
  Points = {"p", "q"}
  MaxMutations = 3
  MaxCompactions = 2
  MaxFailures = 1
  MaxCrashes = 1
  MinFanIn = 2
  Deviations = {}
INVARIANTS ReadsLatest LiveInOneSegment InstalledIsThere
PROPERTY BuildsEnd
CHECK_DEADLOCK FALSE
