------------------------------ MODULE PaconPerm ------------------------------
(***************************************************************************)
(* The pure functions of start and access: comparing paths, reading the    *)
(* configuration, batch permissions.  A path is a sequence of names and a  *)
(* name a sequence of letters; the code compares texts, Text(p).  A mode   *)
(* is its first decimal digit (mask_compare looks at no other); 9 is the   *)
(* 999 of pacon_init_perm_info, "no mode".                                 *)
(***************************************************************************)
EXTENDS Integers, Sequences, SequencesExt, FiniteSetsExt

CONSTANTS
    CopyMax,  \* 16: the addresses that the readers of the configuration copy
    NodeMax,  \* NODE_MAX: they refuse this many
    Comment,  \* a line that starts with '#'
    NoAddr,   \* an empty address
    Null,     \* no value
    Wild      \* an uninitialised pointer

Text(p) == FlattenSeq([i \in DOMAIN p |-> <<"/">> \o p[i]])

\* Mutant of child_cmp_new: a common prefix of the names is enough.
child_cmp_prefix(t, q) == IF ~ IsPrefix(q, t) THEN 0 ELSE IF Len(q) = Len(t) THEN 2 ELSE 1

\* 2: the same path, 1: t is below q, 0: neither.
child_cmp_new(t, q) ==
    IF ~ IsPrefix(q, t) THEN 0
    ELSE IF Len(q) = Len(t) THEN 2
    ELSE IF t[Len(q) + 1] = "/" THEN 1 ELSE 0

\* Whether the copy of a root path ends where the path ends: the terminator
\* is compared (==) where it should be assigned, in memory from malloc.
set_root_path == {TRUE, FALSE}

\* What is before the last '/'.
Parent(t) == SubSeq(t, 1, Max({i \in DOMAIN t : t[i] = "/"}) - 1)

-----------------------------------------------------------------------------
(* The configuration file: one address or comment per line.                *)

Addresses(lines) == SelectSeq(lines, LAMBDA l : l # Comment)

\* Mutant of Copied: one address less is copied.
CopiedLess(list) == [i \in DOMAIN list |-> IF i < CopyMax THEN list[i] ELSE NoAddr]

\* The loop that copies an address tests i < 16, the index of the entry and
\* not of the character: later entries stay empty.
Copied(list) == [i \in DOMAIN list |-> IF i <= CopyMax THEN list[i] ELSE NoAddr]

\* <<>> stands for -1.
get_cluster_info(lines) ==
    LET list == Addresses(lines) IN IF Len(list) >= NodeMax THEN <<>> ELSE Copied(list)

\* Two copies of the function, for a joined region and for the servers.
get_remote_cluster_info(lines) == get_cluster_info(lines)
get_cluster_info_comm(lines) == get_cluster_info(lines)

\* Whether the KV store can be opened.
dmkv_init(lines) == get_cluster_info(lines) # <<>>
dmkv_remote_init(lines) == get_remote_cluster_info(lines) # <<>>

is_loacl_addr(l, t) == l = t

\* setup_servers_comm: nothing for the own address, a connection for each
\* other one; connecting to an empty address fails and ends the loop.
Connections(list, self) ==
    LET ended(i) == \E j \in 1 .. i : list[j] = NoAddr IN
    [i \in DOMAIN list |-> IF ended(i) THEN Wild
                           ELSE IF is_loacl_addr(self, list[i]) THEN Null ELSE list[i]]

-----------------------------------------------------------------------------
(* Batch permissions: perm is [nom |-> [dir, file], sp |-> <<[path, dir,   *)
(* file], ...>>].                                                          *)

Creations == {"CREATE", "CREATEW", "MKDIR"}
Opts == Creations \cup {"READDIR", "RM", "RMDIR", "READ", "WRITE", "RW", "RENAME"}

\* The operations that mask_compare names for a mode.
Named == 7 :> {} @@ 6 :> {"READDIR", "READ", "WRITE", "RW"} @@ 5 :> {"READDIR", "READ"}
         @@ 4 :> {"READ"} @@ 2 :> {"WRITE"}
         @@ 3 :> {"MKDIR", "CREATE", "RM", "RMDIR", "WRITE", "CREATEW", "RENAME"}

\* The possible results.  The tests are opt != A || opt != B || ...: with two
\* names or more they always hold.  For 8 and 9 no case applies and the
\* function ends without a value.
mask_compare(mode, opt) ==
    IF mode \notin 0 .. 7 THEN {0, -1}
    ELSE IF mode \in {0, 1} \/ \E o \in Named[mode] : opt # o THEN {-1} ELSE {0}

CheckPath(t, opt) == IF opt \in Creations THEN Parent(t) ELSE t

\* The type that the callers of check_permission pass for an operation.
CallerType(opt) == IF opt \in {"MKDIR", "RMDIR", "READDIR", "RENAME"} THEN "dir" ELSE "file"

\* type_tmp is "dir" if the operation creates, and else assigned to itself, not
\* the type that was passed: both branches are possible.
Kinds(opt) == IF opt \in Creations THEN {"dir"} ELSE {"dir", "file"}

\* Mutant of Applicable: the special paths come without the normal mode.
ApplicableSpecial(perm, t, kind) ==
    {perm.sp[i][kind] : i \in {j \in DOMAIN perm.sp : child_cmp_new(t, Text(perm.sp[j].path)) > 0}}

\* The modes that check_permission compares: the normal one and that of every
\* special path at or above the checked one.
Applicable(perm, t, kind) ==
    {perm.nom[kind]} \cup
    {perm.sp[i][kind] : i \in {j \in DOMAIN perm.sp : child_cmp_new(t, Text(perm.sp[j].path)) > 0}}

\* The index of the last special path that is the checked path, counted from
\* 0; 0 also for "normal".
Special(perm, t) ==
    Max({0} \cup {i - 1 : i \in {j \in DOMAIN perm.sp : child_cmp_new(t, Text(perm.sp[j].path)) = 2}})

\* The possible results: -1, or the index whose mode a new file gets.
check_permission(perm, t, opt) ==
    LET q == CheckPath(t, opt) IN
    UNION {LET modes == Applicable(perm, q, k) IN
           (IF \A m \in modes : 0 \in mask_compare(m, opt) THEN {Special(perm, q)} ELSE {}) \cup
           (IF \E m \in modes : -1 \in mask_compare(m, opt) THEN {-1} ELSE {}) : k \in Kinds(opt)}

\* pacon_set_permission gives up when a special path has no mode.
Serialisable(perm) == \A i \in DOMAIN perm.sp : perm.sp[i].dir # 9 \/ perm.sp[i].file # 9

-----------------------------------------------------------------------------
(* Joint regions: who answers for a path.                                  *)

\* The own region, the first joined one whose root is at or above the path,
\* or nobody, <<>>.  A joined region that was never connected is called
\* through an uninitialised pointer.
Resolve(t, root, roots, linked) ==
    LET hit == {i \in DOMAIN roots : child_cmp_new(t, Text(roots[i])) > 0} IN
    IF child_cmp_new(t, Text(root)) > 0 THEN root
    ELSE IF hit = {} THEN <<>>
    ELSE IF Min(hit) <= linked THEN roots[Min(hit)] ELSE Wild
=============================================================================
