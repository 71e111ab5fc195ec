\* Two nodes, two barriers, three operations behind the first.
SPECIFICATION FairSpec
CONSTANTS
  c1 = c1
  c2 = c2
  c3 = c3
  n1 = n1
  n2 = n2
  None = None
  Clients = {c1, c2}
  Nodes = {n1, n2}
  NodeOf <- TwoNodeOf
  OptNum <- TwoOptNum
  Rounds = 2
  BarrierIdMax = 3
  MaxQueue = 2
  Sync = TRUE
PROPERTIES SpinEnds CallsReturn
