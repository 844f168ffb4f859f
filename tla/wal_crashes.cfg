SPECIFICATION Spec
CONSTANTS
  SegmentBytes = 4
  Crashes = {"kill", "power"}
  IoErrors = {"write", "sync", "rotate", "reset", "prefix"}
  EmptyReset = FALSE
  MaxLsn = 10
  MaxSegment = 4
CHECK_DEADLOCK FALSE
INVARIANTS Recoverable HandleAgrees CleanIsDurable CutIsExact FrontierFencesMutations
PROPERTY ImplementsDurableLog
