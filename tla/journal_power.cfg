SPECIFICATION Spec
CONSTANTS
  Txn = {t1, t2}
  Key = {k1}
  NoTxn = NoTxn
  NoKey = NoKey
  Crashes = {"power"}
  ClaimLimit = 1
  DecisionBatch = 1
  CheckpointMin = 1
  CheckpointInterval = 1
  MaxRevision = 4
CHECK_DEADLOCK FALSE
INVARIANTS TypeOK Reopenable KeysConsumedOnce ScanFindsNoCorruption
PROPERTY ImplementsCommitAuthority
