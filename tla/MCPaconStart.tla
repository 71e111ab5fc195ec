----------------------------- MODULE MCPaconStart ----------------------------
(* Instances of PaconStart for TLC.                                         *)
EXTENDS PaconStart

CONSTANTS c1, c2, n1, n2, n3

MCNodeOf == c1 :> n1 @@ c2 :> n2

\* /r is the workspace, /r/s a special directory, /rs another region whose
\* name has the first as prefix.
r == <<"r">>
s == <<"s">>
rs == <<"r", "s">>

setperm(d, f, sd, sf) == [op |-> "perm",
    perm |-> [nom |-> [dir |-> d, file |-> f],
              sp |-> <<[path |-> <<r, s>>, dir |-> sd, file |-> sf],
                       [path |-> <<r, s, s>>, dir |-> 7, file |-> 4]>>]]
op(o, p) == [op |-> "op", opt |-> o, path |-> p]
barrier(k, i) == [op |-> "barrier", opt |-> k, id |-> i]
call(o) == [op |-> o]
joint(k) == [op |-> "joint", num |-> k]
lookup(p) == [op |-> "lookup", path |-> p]

Setup(lines, ordered, p1, p2) ==
    [lines |-> lines, remote |-> <<n3>>, ordered |-> ordered, root |-> TRUE, log |-> TRUE, mount |-> <<r>>,
     crj |-> <<[root |-> <<rs>>, exists |-> TRUE], [root |-> <<s>>, exists |-> FALSE]>>,
     todo |-> c1 :> p1 @@ c2 :> p2]

Two == <<Comment, n1, n2>>

\* Barriers and an eviction around a late start.
BarrierSetups ==
    {Setup(Two, o, <<barrier(1, 0), call("lock"), call("unlock"), call("rpc"), barrier(2, 1)>>,
                   <<call("lock"), call("unlock"), barrier(1, 0), call("rpc")>>) : o \in BOOLEAN}

\* Every client sets permissions first: those of fs_test.c, and others.
Perms == {setperm(7, 6, 1, 9), setperm(7, 4, 7, 2), setperm(4, 2, 7, 7), setperm(4, 4, 7, 7)}
MCOpts == {"MKDIR", "READ", "WRITE", "RW", "RENAME"}
Paths == {<<r, s>>, <<r, rs>>, <<r, s, s>>, <<r, s, rs>>}
PermSetups ==
    {Setup(Two, TRUE, <<pm, op(o, p)>>, <<pm>>) : pm \in Perms, o \in MCOpts, p \in Paths}
    \cup {Setup(Two, FALSE, <<setperm(7, 6, 1, 9), op("MKDIR", <<r, s>>)>>,
                           <<setperm(7, 6, 1, 9), op("CREATE", <<r, s>>)>>)}
\* Not all of them do, or in vain.
MixedSetups ==
    {Setup(Two, FALSE, <<setperm(7, 6, 1, 9), op("MKDIR", <<r, s>>)>>, <<op("MKDIR", <<r, rs>>)>>),
     Setup(Two, FALSE, <<setperm(7, 6, 9, 9), op("MKDIR", <<r, s>>)>>, <<op("MKDIR", <<r, rs>>)>>)}

JointSetups ==
    {Setup(Two, TRUE, <<joint(1), lookup(p), call("split"), lookup(p)>>, <<joint(k), lookup(p)>>) :
        p \in {<<r, s>>, <<rs>>, <<rs, r>>, <<s>>, <<s, r>>}, k \in 0 .. 3}

\* Too many addresses for the copy, too many at all, none, no root, no log.
FailSetups ==
    {Setup(<<n1, n2, n3>>, FALSE, <<call("rpc")>>, <<>>),
     Setup(<<n1, n2, n3, n1>>, FALSE, <<>>, <<>>),
     Setup(<<Comment>>, TRUE, <<call("rpc")>>, <<>>),
     [Setup(Two, TRUE, <<joint(1)>>, <<>>) EXCEPT !.remote = <<Comment>>],
     [Setup(Two, FALSE, <<call("rpc")>>, <<>>) EXCEPT !.root = FALSE],
     [Setup(Two, FALSE, <<call("rpc")>>, <<>>) EXCEPT !.log = FALSE]}

MCSetups == BarrierSetups \cup PermSetups \cup MixedSetups \cup JointSetups \cup FailSetups
=============================================================================
