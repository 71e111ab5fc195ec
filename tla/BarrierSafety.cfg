\* Three clients on two nodes, two barriers; concurrent barrier operations.
SPECIFICATION Spec
CONSTANTS
  c1 = c1
  c2 = c2
  c3 = c3
  n1 = n1
  n2 = n2
  None = None
  Clients = {c1, c2, c3}
  Nodes = {n1, n2}
  NodeOf <- MCNodeOf
  OptNum <- MCOptNum
  Rounds = 2
  BarrierIdMax = 3
  MaxQueue = 2
  Sync = TRUE
INVARIANTS BarrierOpSeesEarlierOps NoCommitDuringBarrierOp OneLifter BarrierInv
