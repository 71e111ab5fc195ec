\* Three clients on two nodes create and make the same names in an empty workspace;
\* two clients work in one that holds a directory and a file; one client removes what
\* another one creates and a third one looks up.
SPECIFICATION Spec
CONSTANTS
  c1 = c1
  c2 = c2
  c3 = c3
  n1 = n1
  n2 = n2
  root = root
  d = d
  f = f
  g = g
  h = h
  Null = Null
  Clients = {c1, c2, c3}
  Nodes = {n1, n2}
  NodeOf <- MCNodeOf
  Paths = {root, d, f, g}
  Root = root
  Parent <- MCParent
  Setups <- MCSetups
  MaxOps = 3
INVARIANTS CreatedOnce ParentsAhead TypeOK CheckedComplete QuiescentAgreement
PROPERTY Linearizable
\* The programs are finite: the system stops when they are done.
CHECK_DEADLOCK FALSE
