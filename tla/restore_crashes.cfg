SPECIFICATION Spec
CONSTANTS
  Modes = {"legacy", "generation"}
  MaxRestores = 2
  MaxCrashes = 2
  MaxFaults = 2
  LoadFails = TRUE
INVARIANTS RollbackKept LiveRootStays InterruptedInstallOpens ServesWhatWasKept
