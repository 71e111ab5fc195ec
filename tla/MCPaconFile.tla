----------------------------- MODULE MCPaconFile -----------------------------
(* The programs of the clients for PaconFile.                              *)
EXTENDS PaconFile, TLC

CONSTANTS c1, c2, c3, n1, n2

MCNodeOf == c1 :> n1 @@ c2 :> n1 @@ c3 :> n2

create == [op |-> "create"]
open == [op |-> "open"]
createWrite(b) == [op |-> "create_write", buf |-> b]
write(o, b) == [op |-> "write", off |-> o, buf |-> b]
read(o, n) == [op |-> "read", off |-> o, n |-> n]

Setup(d, e, p1, p2, p3) ==
    [dfs |-> d, evict |-> e, todo |-> c1 :> p1 @@ c2 :> p2 @@ c3 :> p3]

\* Inline files: c1 and c2 write on one node, c3 reads on another.
InlineSetups ==
    {Setup(NoFile, e, <<create, write(0, <<"a", "a">>), write(1, <<"a">>)>>,
           <<write(o, <<"b">>)>>, <<read(0, 2)>>) : e \in BOOLEAN, o \in {0, 1}}
    \cup
    {Setup(NoFile, FALSE, <<createWrite(<<"a", "a", "a", "a">>), createWrite(<<"a">>), write(1, <<"a">>)>>,
           <<createWrite(<<"b">>), open, write(0, <<"b">>)>>, <<open, read(0, 1)>>)}

\* Files that are large from their first write on.
LargeSetups ==
    {Setup(NoFile, FALSE, <<create, write(0, <<"a", "a", "a", "a">>), write(o, <<"a">>)>>,
           <<create, write(0, <<"b", "b", "b", "b">>), read(0, 3)>>, <<read(1, 2)>>) : o \in {1, 4}}

\* A file that was in the DFS before; every client opens it.
ExistingSetups ==
    {Setup(<<"a", "b">>, e, <<open, write(0, <<"b", "b", "b">>)>>,
           <<open, write(1, <<"a">>), read(0, 3)>>, <<open, read(0, 2)>>) : e \in BOOLEAN}

\* A file of pacon_create_write, of which no write-back is queued, grows past
\* the limit.
GrowingSetups ==
    {Setup(NoFile, FALSE, <<createWrite(<<"a", "a">>), write(o, <<"b", "b", "b">>), read(0, 4)>>,
           <<>>, <<>>) : o \in {1, 2}}

\* Files that are inline for the client and too long for the server.
LongSetups ==
    {Setup(NoFile, FALSE, <<create, write(0, <<"a", "a">>), write(o, <<"b", "b">>)>>,
           <<>>, <<read(0, 3)>>) : o \in {0, 1}}

MCSetups == LongSetups \cup InlineSetups \cup LargeSetups \cup ExistingSetups \cup GrowingSetups

\* The same while a write-back is queued.
MCGrowSetups ==
    {Setup(NoFile, FALSE, <<create, write(0, <<"a", "a">>), write(2, <<"b", "b", "b">>)>>,
           <<>>, <<>>)}
=============================================================================
