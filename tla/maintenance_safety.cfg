SPECIFICATION Spec
CONSTANTS
  Writers = {w1, w2}
  Collections = {c1}
  Kinds = {"collection"}
  MaxRequests = 2
  MaxRestores = 2
  Aborts = TRUE
  IoFails = TRUE
SYMMETRY WriterSymmetry
INVARIANTS QuiescedFlusher InstallDrained MaintenanceEndsBehindGate LatchedRefusesMutations
CHECK_DEADLOCK FALSE
