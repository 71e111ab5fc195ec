\* Inline files, files that are large from the start, files that were in the DFS
\* before, and a file that grows past the limit with no write-back queued, and inline
\* files that are too long for the server.
SPECIFICATION FairSpec
CONSTANTS
    c1 = c1
    c2 = c2
    c3 = c3
    n1 = n1
    n2 = n2
    Clients = {c1, c2, c3}
    Nodes = {n1, n2}
    NodeOf <- MCNodeOf
    Limit = 4
    ServerMax = 3
    Letters = {"a", "b"}
    Setups <- MCSetups
    NoFile = NoFile
    Null = Null
    Dead = Dead
    Junk = Junk
    Hole = Hole
INVARIANTS
    TypeOK
    WrittenBack
    CacheCurrent
    ReadsCurrent
PROPERTIES CallsEnd
\* The programs end.
CHECK_DEADLOCK FALSE
