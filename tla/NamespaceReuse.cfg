\* A removed name is created again while the RM is queued.
SPECIFICATION Spec
CONSTANTS
  c1 = c1
  c2 = c2
  c3 = c3
  n1 = n1
  n2 = n2
  root = root
  d = d
  f = f
  g = g
  h = h
  Null = Null
  Clients = {c1, c2}
  Nodes = {n1, n2}
  NodeOf <- MCNodeOf
  Paths = {root, d, f, g}
  Root = root
  Parent <- MCParent
  Setups <- ReuseSetups
  MaxOps = 3
PROPERTY RmDeletesRemoved
\* The programs are finite: the system stops when they are done.
CHECK_DEADLOCK FALSE
