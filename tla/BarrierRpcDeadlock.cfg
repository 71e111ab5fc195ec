\* Two clients of one node call barrier operations without waiting in between.
SPECIFICATION FairSpec
CONSTANTS
  c1 = c1
  c2 = c2
  c3 = c3
  n1 = n1
  n2 = n2
  None = None
  Clients = {c1, c2}
  Nodes = {n1}
  NodeOf <- OneNodeOf
  OptNum <- Alternate
  Rounds = 2
  BarrierIdMax = 3
  MaxQueue = 2
  Sync = FALSE
PROPERTY CallsReturn
\* The local RPC thread blocks for ever.
CHECK_DEADLOCK FALSE
