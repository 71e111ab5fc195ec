-------------------------- MODULE MCPaconNamespace --------------------------
(* Instances of PaconNamespace for TLC.                                     *)
EXTENDS PaconNamespace, TLC

CONSTANTS c1, c2, c3, n1, n2, root, d, f, g, h

\* /root, /root/d, /root/d/f, /root/g and /root/g/h; c2 is alone on n2.
MCParent == [p \in Paths \ {root} |-> CASE p = f -> d [] p = h -> g [] OTHER -> root]
MCNodeOf == [c \in Clients |-> IF c = c2 THEN n2 ELSE n1]

Dfs(dirs, files) ==
    [p \in Paths |-> CASE p \in dirs -> "dir" [] p \in files -> "file" [] OTHER -> "none"]
EmptyDfs == Dfs({root}, {})
FullDfs == Dfs({root, d}, {f})
DirDfs == Dfs({root, d}, {g})

Setup(fs, e, programs) == {[dfs |-> fs, empty |-> e, prog |-> q] : q \in programs}

Do(o, p) == [op |-> o, path |-> p]
UpTo(S, n) == UNION {[1 .. k -> S] : k \in 0 .. n}
Perms(S) == {q \in [1 .. Cardinality(S) -> S] :
                \A i, j \in DOMAIN q : q[i] = q[j] => i = j}

\* Every program of up to two calls that create, make or look up, with d
\* wanted both as a directory and as a file; c3 makes one call at most.
CreatePrograms ==
    {q \in [Clients -> UpTo({Do("mkdir", d), Do("create", d), Do("create", f),
                             Do("getattr", f)}, 2)] : Len(q[c3]) <= 1}

\* Every program of up to two calls over names that exist and names that do not.
ExistingPrograms ==
    {q \in [Clients -> UpTo({Do("mkdir", d), Do("create", f), Do("create", g)}, 2)] : q[c3] = <<>>}

\* c1 makes d, d/f and g in any order, c2 removes the files, c3 looks d up.
RmPrograms ==
    {(c1 :> q) @@ (c2 :> r) @@ (c3 :> <<Do("getattr", d)>>) :
        q \in Perms({Do("mkdir", d), Do("create", f), Do("create", g)}),
        r \in Perms({Do("rm", f), Do("rm", g)})}

\* Everything at once over a workspace with an empty directory d and a file g:
\* two calls of c1 against one of c2.
AnyPrograms ==
    {(c1 :> q) @@ (c2 :> <<k>>) @@ (c3 :> <<>>) :
        q \in [1 .. 2 -> {Do("create_write", g), Do("mkdir", g), Do("create", f),
                          Do("create", h), Do("rm", d), Do("rm", g), Do("evict", d),
                          Do("evict", g), Do("getattr", d)}],
        k \in {Do("create", f), Do("rm", g), Do("evict", d)}}

\* One client uses a name twice.
ReusePrograms ==
    {(c1 :> <<Do("create", g), Do("rm", g), Do("create", g)>>) @@ (c2 :> <<>>)}

RmSetups == Setup(EmptyDfs, TRUE, RmPrograms)
MCSetups ==
    Setup(EmptyDfs, TRUE, CreatePrograms) \cup Setup(FullDfs, FALSE, ExistingPrograms) \cup RmSetups
AnySetups == Setup(DirDfs, FALSE, AnyPrograms) \cup RmSetups
ReuseSetups == Setup(EmptyDfs, TRUE, ReusePrograms)
=============================================================================
