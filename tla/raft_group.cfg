SPECIFICATION Spec
CONSTANTS
  n1 = n1
  n2 = n2
  n3 = n3
  Nodes = {n1, n2, n3}
  Peers <- MCPeers
  Commands = {"create"}
  MaxTerm = 3
  MaxLost = 1
  MaxRestarts = 1
INVARIANTS ElectionSafety LogMatching LeaderCompleteness AppliedIsCommitted
PROPERTY NeverRewritten
CHECK_DEADLOCK FALSE
