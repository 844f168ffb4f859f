SPECIFICATION Spec
CONSTANTS
  Txn = {t1, t2}
  Key = {}
  NoTxn = NoTxn
  NoKey = NoKey
  Crashes = {"kill", "power"}
  ClaimLimit = 1
  DecisionBatch = 1
  CheckpointMin = 1
  CheckpointInterval = 1
  MaxRevision = 0
CHECK_DEADLOCK FALSE
SYMMETRY Symmetry
INVARIANTS AnswersHold CheckpointTransparent FrontiersAreSettled
