\* Three rounds in which one or both clients evict, which runs past the list.
SPECIFICATION FairSpec
CONSTANTS
  c1 = c1
  c2 = c2
  n1 = n1
  n2 = n2
  d = d
  f = f
  g = g
  Null = Null
  Clients = {c1, c2}
  Nodes = {n1, n2}
  NodeOf <- MCNodeOf
  Files = {f, g}
  Dirs = {d}
  DirOf <- MCDirOf
  Order <- MCOrder
  MaxRounds = 3
  MaxQueue = 2
INVARIANT EvictInv
PROPERTIES RecordInStep  
\* The rounds are bounded, and an eviction that fails keeps the lock.
CHECK_DEADLOCK FALSE
