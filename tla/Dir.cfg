\* rmdir, rename and readdir on two nodes, with creations around them.
SPECIFICATION FairSpec
CONSTANTS
  c1 = c1
  c2 = c2
  c3 = c3
  n1 = n1
  n2 = n2
  Null = Null
  Clients = {c1, c2, c3}
  Nodes = {n1, n2}
  NodeOf <- MCNodeOf
  Paths <- MCPaths
  RootLen = 2
  Setups <- MCSetups
  MaxRemoving = 3
INVARIANTS TypeOK ServerAlive VisibleTree CommittedTree DirInv
PROPERTIES ReaddirComplete ProgramsEnd
\* The programs are finite: the system stops when they are done.
CHECK_DEADLOCK FALSE
