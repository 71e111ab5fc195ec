\* Two nodes, two clients: start, permissions, broadcasts, joint regions.
SPECIFICATION FairSpec
CONSTANTS
  c1 = c1
  c2 = c2
  n1 = n1
  n2 = n2
  n3 = n3
  Null = Null
  Wild = Wild
  NoAddr = NoAddr
  Comment = Comment
  Clients = {c1, c2}
  Nodes = {n1, n2}
  NodeOf <- MCNodeOf
  Ids = {0, 1}
  JointMax = 2
  CopyMax = 2
  NodeMax = 4
  Setups <- MCSetups
INVARIANTS CountsKept LockKept ServerFindsModes PermissionSound BroadcastComplete JointOwner
PROPERTY ProgramsEnd
\* The programs are finite: the system stops when they are done.
CHECK_DEADLOCK FALSE
