\* A file that grows past the limit while its write-back is queued.
SPECIFICATION Spec
CONSTANTS
    c1 = c1
    c2 = c2
    c3 = c3
    n1 = n1
    n2 = n2
    Clients = {c1, c2, c3}
    Nodes = {n1, n2}
    NodeOf <- MCNodeOf
    Limit = 4
    ServerMax = 3
    Letters = {"a", "b"}
    Setups <- MCGrowSetups
    NoFile = NoFile
    Null = Null
    Dead = Dead
    Junk = Junk
    Hole = Hole
INVARIANT WrittenBack
\* The program ends.
CHECK_DEADLOCK FALSE
