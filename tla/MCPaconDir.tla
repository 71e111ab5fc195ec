------------------------------ MODULE MCPaconDir -----------------------------
(* Instances of PaconDir for TLC.                                           *)
EXTENDS PaconDirInv

CONSTANTS c1, c2, c3, n1, n2

\* c2 is alone on n2.
MCNodeOf == c1 :> n1 @@ c2 :> n2 @@ c3 :> n1

d == <<"d">>
e == <<"e">>
g == <<"g">>
df == <<"d", "f">>
ef == <<"e", "f">>
de == <<"d", "e">>
ee == <<"e", "e">>
def == <<"d", "e", "f">>
eef == <<"e", "e", "f">>

MCPaths == {Root, d, e, g, df, ef, de, ee, def, eef}

Dfs(dirs, files) ==
    [p \in MCPaths |-> IF p \in dirs THEN "dir" ELSE IF p \in files THEN "file" ELSE "none"]

make(o, p) == [op |-> o, path |-> p]
barrier(k) == [op |-> "barrier", opt |-> k]
rename(p, q) == [op |-> "rename", path |-> p, new |-> q]
sync == [op |-> "sync"]
clean == [op |-> "clean"]

Setup(fs, p1, p2, p3) == [dfs |-> fs, todo |-> c1 :> p1 @@ c2 :> p2 @@ c3 :> p3]

\* A directory that c1 makes is removed by c2 and made again; c3 works elsewhere until
\* it announces, also when the others have.
RmdirSetup ==
    Setup(Dfs({Root}, {}),
          <<make("mkdir", d), make("create", df), sync, barrier(0), clean, sync,
            make("mkdir", d), sync>>,
          <<make("create", df), make("mkdir", de), sync, barrier(1), make("rmdir", d), sync,
            sync, make("create", df)>>,
          <<sync, make("create", g), barrier(0), sync, sync>>)

\* Two directories of the DFS, not cached, are removed at once on two nodes.
TwoSetup ==
    Setup(Dfs({Root, d, e, de}, {df, ef, def}),
          <<barrier(1), make("rmdir", d), sync, make("mkdir", d), make("create", df)>>,
          <<barrier(1), make("rmdir", e), sync, make("create", g)>>,
          <<barrier(0), sync>>)

\* A directory with a subdirectory is renamed while another client lists the
\* root; then both names of the tree are used.
RenameSetup ==
    Setup(Dfs({Root}, {}),
          <<make("mkdir", d), make("create", df), make("mkdir", de), make("create", def),
            barrier(1), rename(d, e), sync, make("create", ef)>>,
          <<make("create", g), barrier(1), make("readdir", Root), sync, make("create", eef)>>,
          <<barrier(0), sync>>)

\* The root is listed while a directory in it is removed, and a file is created
\* before the last announcement.
ListSetup ==
    Setup(Dfs({Root, e, ee}, {ef}),
          <<make("mkdir", d), barrier(1), make("readdir", Root), sync, make("create", df)>>,
          <<barrier(1), make("rmdir", e), sync, make("mkdir", e)>>,
          <<make("create", g), barrier(0), sync>>)

\* Two directories are listed while files are created in them, before and after
\* the announcements.
WorkSetup ==
    Setup(Dfs({Root, e}, {}),
          <<make("create", df), barrier(1), make("readdir", e), make("create", ef), sync>>,
          <<make("mkdir", d), barrier(1), make("readdir", Root), sync>>,
          <<barrier(0), make("create", g), make("create", ef), sync>>)

MCSetups == {RmdirSetup, TwoSetup, RenameSetup, ListSetup, WorkSetup}

\* c2 removes e; c1 creates a file next to it, after its announcement.
BesideSetup ==
    Setup(Dfs({Root, e}, {}),
          <<barrier(0), make("create", g)>>,
          <<barrier(1), make("rmdir", e)>>,
          <<barrier(0)>>)

BesideSetups == {BesideSetup}
=============================================================================
