\* All calls race, names are used again, entries are evicted; and what one client
\* creates another one removes.
SPECIFICATION FairSpec
CONSTANTS
  c1 = c1
  c2 = c2
  c3 = c3
  n1 = n1
  n2 = n2
  root = root
  d = d
  f = f
  g = g
  h = h
  Null = Null
  Clients = {c1, c2, c3}
  Nodes = {n1, n2}
  NodeOf <- MCNodeOf
  Paths = {root, d, f, g, h}
  Root = root
  Parent <- MCParent
  Setups <- AnySetups
  MaxOps = 3
PROPERTIES FlagsSurvive CommitsEnd RemovalEnds
\* The programs are finite: the system stops when they are done.
CHECK_DEADLOCK FALSE
