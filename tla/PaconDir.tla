------------------------------ MODULE PaconDir -------------------------------
(***************************************************************************)
(* rmdir, rename and readdir.  They bypass the commit queues: the client   *)
(* calls the server of its node, which waits at the cluster barrier until  *)
(* the queues are committed, deletes the cached entries below the          *)
(* directory, changes the DFS and lifts the barrier.  This module composes *)
(* the two that stand for its parts: the barrier is reduced to what        *)
(* PaconBarrier proves of it (a node stops when all its clients have       *)
(* announced); files are neither written nor removed one by one.           *)
(*                                                                         *)
(* A step of a client is one call to the KV store, the DFS, the queue or   *)
(* the server, that of a commit thread one message, that of a walk one     *)
(* directory entry.  The application uses the barrier as the notes in      *)
(* pacon.h say and waits (MPI_Barrier) after the operations of a round.    *)
(* Configuration as in PaconNamespace.                                     *)
(***************************************************************************)
EXTENDS Integers, Sequences, SequencesExt, FiniteSets

CONSTANTS
    Clients, Nodes, NodeOf,
    Paths,       \* sequences of names below the workspace, closed under Front
    RootLen,     \* characters in the path of the workspace
    Setups,      \* records [dfs, todo]: the DFS at the start, calls of the clients
    MaxRemoving, \* bound: slots of removing_dirs that are used
    Null

Root == <<>>
Kind == {"none", "dir", "file"}

\* What a program may call.
CallType ==
    [op : {"mkdir", "create"}, path : Paths \ {Root}]
        \cup [op : {"rmdir", "readdir"}, path : Paths]
        \cup [op : {"rename"}, path : Paths, new : Paths \ {Root}]
        \cup [op : {"barrier"}, opt : Nat] \cup [op : {"clean", "sync"}]

ASSUME ConstantsAssumption ==
    /\ IsFiniteSet(Clients) /\ NodeOf \in [Clients -> Nodes]
    /\ Paths \subseteq Seq(STRING) /\ Root \in Paths
    /\ \A p \in Paths : \A k \in 0 .. Len(p) : SubSeq(p, 1, k) \in Paths
    /\ RootLen \in Nat \ {0} /\ MaxRemoving \in Nat \ {0}
    /\ Null \notin Clients /\ Null \notin [from : Nodes, slot : Nat]

\* The programs are well formed and the DFS is a tree.
ASSUME SetupsAssumption ==
    \A s \in Setups :
        /\ s.todo \in [Clients -> Seq(CallType)]
        /\ s.dfs \in [Paths -> Kind] /\ s.dfs[Root] = "dir"
        /\ \A p, q \in Paths :
              s.dfs[p] # "none" /\ IsStrictPrefix(q, p) => s.dfs[q] = "dir"

VARIABLES
    kv,       \* cached type of each path; "ldir" is a directory that was
              \* loaded and whose children are not known to be cached
    dfs,      \* the DFS
    mq,       \* per client: its commit queue
    cur,      \* per node: the client whose first message is being committed
    dirtab,   \* per client: dir_check_table
    current_barrier_id,  \* per client: barriers announced
    todo,     \* per client: the calls it still makes
    pc,       \* per client: "idle", "request" (waits for the server), "reply"
    load,     \* per client that is idle: where its call is, the path it loads,
              \* what the stat returned and the children that are left
    passed,   \* clients whose announcement of this round was counted
    ops,      \* KV: operations of this round that have not ended
    rpc,      \* per node: the local RPC thread
    removing, \* per node: removing_dirs, [count, list]
    adding,   \* per node: the cluster thread within CL_ADD_REMOVING_DIR
    tree,     \* history: the namespace the calls that took effect make
    stale     \* history: names that were renamed

clientVars == <<dirtab, current_barrier_id, todo, pc, load>>
serverVars == <<cur, passed, ops, rpc, removing, adding>>
vars == <<kv, dfs, mq, clientVars, serverVars, tree, stale>>

Below(p, q) == IsStrictPrefix(q, p)
Within(p, q) == IsPrefix(q, p)
Children(p, fs) == {q \in Paths \ {Root} : Front(q) = p /\ fs[q] # "none"}
CharLen(p) == RootLen + 2 * Len(p)   \* one character per name
Type(k) == IF k = "ldir" THEN "dir" ELSE k
Loaded(k) == IF k = "dir" THEN "ldir" ELSE k

Blank == <<"">>                      \* the empty string in a slot of the list
NoLoad == [at |-> "start", path |-> Root, got |-> "none", left |-> {}]
NoRpc == [step |-> "recv", client |-> Null, stack |-> <<>>, peers |-> {}, slot |-> 0]

Init ==
    \E s \in Setups :
        /\ dfs = s.dfs /\ tree = s.dfs /\ todo = s.todo
        /\ kv = [p \in Paths |-> IF p = Root THEN "ldir" ELSE "none"]
        /\ mq = [c \in Clients |-> <<>>]
        /\ dirtab = [c \in Clients |-> {}]
        /\ current_barrier_id = [c \in Clients |-> 0]
        /\ pc = [c \in Clients |-> "idle"] /\ load = [c \in Clients |-> NoLoad]
        /\ cur = [n \in Nodes |-> Null]
        /\ passed = {} /\ ops = 0
        /\ rpc = [n \in Nodes |-> NoRpc]
        /\ removing = [n \in Nodes |-> [count |-> 0, list |-> [i \in 0 .. MaxRemoving |-> Blank]]]
        /\ adding = [n \in Nodes |-> Null]
        /\ stale = {}

-----------------------------------------------------------------------------
(* The client.                                                             *)

Call(c) == Head(todo[c])
Calls(c, S) == pc[c] = "idle" /\ todo[c] # <<>> /\ Call(c).op \in S
Begins(c, S) == Calls(c, S) /\ load[c] = NoLoad
Doing(c, at) == load[c].at = at
Goto(c, at) == load' = [load EXCEPT ![c] = [NoLoad EXCEPT !.at = at, !.left = load[c].left]]

\* The call returns, or waits for the server.
Done(c) ==
    /\ todo' = [todo EXCEPT ![c] = Tail(@)] /\ pc' = [pc EXCEPT ![c] = "idle"]
    /\ load' = [load EXCEPT ![c] = NoLoad]
Request(c) ==
    /\ pc' = [pc EXCEPT ![c] = "request"] /\ load' = [load EXCEPT ![c] = NoLoad]
    /\ UNCHANGED todo

dir_check_local(c, p) == p \in dirtab[c]
add_to_dir_check_table(c, p) == dirtab' = [dirtab EXCEPT ![c] = @ \cup {p}]

ParentOf(c) == Front(Call(c).path)
NewType(c) == IF Call(c).op = "mkdir" THEN "dir" ELSE "file"
Making(c) == Call(c).op \in {"mkdir", "create"}

(* load_to_pacon: a stat of the DFS, then dmkv_add of what it returned.    *)

\* The entry of p was not there: it is looked up in the DFS.
Load(c, p) == load' = [load EXCEPT ![c] = [NoLoad EXCEPT !.at = "stat", !.path = p]]

\* A stat that found p; left are the children that are still to be loaded.
Holds(c, p, left) ==
    load' = [load EXCEPT ![c] = [at |-> "store", path |-> p, got |-> dfs[p], left |-> left]]

\* No such file or directory: the call fails, but a rename wants its new name
\* to be unused.
LoadStat(c) ==
    LET p == load[c].path
        free == Call(c).op = "rename" /\ p = Call(c).new
    IN /\ Doing(c, "stat")
       /\ \/ dfs[p] # "none" /\ Holds(c, p, {}) /\ UNCHANGED <<todo, pc>>
          \/ dfs[p] = "none" /\ free /\ Request(c)
          \/ dfs[p] = "none" /\ ~free /\ Done(c)
       /\ UNCHANGED <<kv, dfs, mq, dirtab, current_barrier_id, serverVars, tree, stale>>

\* What the call does once p is cached.
LoadNext(c, p) ==
    \/ Making(c) /\ Goto(c, IF p = ParentOf(c) THEN "get" ELSE "child") /\ UNCHANGED <<todo, pc>>
    \/ Call(c).op \in {"rmdir", "readdir"} /\ Request(c)
    \/ Call(c).op = "rename" /\ p = Call(c).path /\ Goto(c, "new") /\ UNCHANGED <<todo, pc>>
    \/ Call(c).op = "rename" /\ p # Call(c).path /\ Done(c)

\* dmkv_add leaves an entry that is there alone.
LoadAdd(c) ==
    LET p == load[c].path
    IN /\ Doing(c, "store")
       /\ kv' = [kv EXCEPT ![p] = IF @ = "none" THEN Loaded(load[c].got) ELSE @]
       /\ LoadNext(c, p)
       /\ UNCHANGED <<dfs, mq, dirtab, current_barrier_id, serverVars, tree, stale>>

(* pacon_mkdir and pacon_create: check_parent_dir, dmkv_add, add_to_mq.    *)

\* The entry k of the parent was found.
ParentFound(c, k) ==
    \/ k = "file" /\ Done(c) /\ UNCHANGED dirtab
    \/ k = "dir" /\ Goto(c, "add") /\ add_to_dir_check_table(c, ParentOf(c)) /\ UNCHANGED <<todo, pc>>
    \/ k = "ldir" /\ Goto(c, "open") /\ UNCHANGED <<dirtab, todo, pc>>

ParentCheck(c) ==
    LET p == ParentOf(c)
    IN /\ Begins(c, {"mkdir", "create"})
       /\ \/ dir_check_local(c, p) /\ Goto(c, "add") /\ UNCHANGED <<dirtab, todo, pc>>
          \/ ~dir_check_local(c, p) /\ kv[p] = "none" /\ Load(c, p) /\ UNCHANGED <<dirtab, todo, pc>>
          \/ ~dir_check_local(c, p) /\ ParentFound(c, kv[p])
       /\ UNCHANGED <<kv, dfs, mq, current_barrier_id, serverVars, tree, stale>>

\* The second dmkv_get_cas: NULL is dereferenced.
ParentGet(c) ==
    /\ Doing(c, "get")
    /\ \/ kv[ParentOf(c)] = "none" /\ Goto(c, "crashed") /\ UNCHANGED <<dirtab, todo, pc>>
       \/ ParentFound(c, kv[ParentOf(c)])
    /\ UNCHANGED <<kv, dfs, mq, current_barrier_id, serverVars, tree, stale>>

\* opendir and readdir of a parent whose children are not known to be cached;
\* readdir(NULL) kills the client.
ParentOpen(c) ==
    /\ Doing(c, "open")
    /\ \/ /\ dfs[ParentOf(c)] = "dir"
          /\ load' = [load EXCEPT ![c].at = "child", ![c].left = Children(ParentOf(c), dfs)]
       \/ dfs[ParentOf(c)] # "dir" /\ Goto(c, "crashed")
    /\ UNCHANGED <<kv, dfs, mq, dirtab, current_barrier_id, todo, pc, serverVars, tree, stale>>

\* load_to_pacon of a child, without a look into the cache.
ChildStat(c, q) ==
    /\ Doing(c, "child") /\ q \in load[c].left
    /\ \/ dfs[q] # "none" /\ Holds(c, q, load[c].left \ {q}) /\ UNCHANGED <<todo, pc>>
       \/ dfs[q] = "none" /\ Done(c)
    /\ UNCHANGED <<kv, dfs, mq, dirtab, current_barrier_id, serverVars, tree, stale>>

\* The cas that sets STAT_child_check, with its retries, unless the entry is gone.
ParentCas(c) ==
    LET p == ParentOf(c)
    IN /\ Doing(c, "child") /\ load[c].left = {}
       /\ \/ /\ kv[p] # "none"
             /\ kv' = [kv EXCEPT ![p] = IF @ = "ldir" THEN "dir" ELSE @]
             /\ add_to_dir_check_table(c, p) /\ Goto(c, "add") /\ UNCHANGED <<todo, pc>>
          \/ kv[p] = "none" /\ Done(c) /\ UNCHANGED <<kv, dirtab>>
       /\ UNCHANGED <<dfs, mq, current_barrier_id, serverVars, tree, stale>>

\* dmkv_add of the new entry: the call takes effect.
Add(c) ==
    LET p == Call(c).path
    IN /\ Doing(c, "add")
       /\ \/ /\ kv[p] = "none"
             /\ kv' = [kv EXCEPT ![p] = NewType(c)] /\ tree' = [tree EXCEPT ![p] = NewType(c)]
             /\ Goto(c, "send") /\ UNCHANGED <<todo, pc>>
          \/ kv[p] # "none" /\ Done(c) /\ UNCHANGED <<kv, tree>>
       /\ UNCHANGED <<dfs, mq, dirtab, current_barrier_id, serverVars, stale>>

\* add_to_mq.
Send(c) ==
    /\ Doing(c, "send") /\ Done(c)
    /\ mq' = [mq EXCEPT ![c] = Append(@, [op |-> NewType(c), path |-> Call(c).path,
                                           id |-> current_barrier_id[c]])]
    /\ UNCHANGED <<kv, dfs, dirtab, current_barrier_id, serverVars, tree, stale>>

\* pacon_barrier(opt_num).
Announce(c) ==
    /\ Calls(c, {"barrier"}) /\ Done(c)
    /\ current_barrier_id' = [current_barrier_id EXCEPT ![c] = @ + 1]
    /\ mq' = [mq EXCEPT ![c] = Append(@, [op |-> "barrier", opt |-> Call(c).opt,
                                          id |-> current_barrier_id[c] + 1])]
    /\ UNCHANGED <<kv, dfs, dirtab, serverVars, tree, stale>>

(* pacon_rmdir, pacon_opendir, pacon_rename: the path is loaded unless it   *)
(* is cached, then the server is asked.                                    *)

pacon_rmdir(c) ==
    LET p == Call(c).path
    IN /\ Begins(c, {"rmdir"})
       /\ \/ kv[p] # "none" /\ Request(c)
          \/ kv[p] = "none" /\ Load(c, p) /\ UNCHANGED <<todo, pc>>
       /\ UNCHANGED <<kv, dfs, mq, dirtab, current_barrier_id, serverVars, tree, stale>>

pacon_opendir(c) ==
    LET p == Call(c).path
    IN /\ Begins(c, {"readdir"})
       /\ \/ kv[p] # "none" /\ Request(c)
          \/ kv[p] = "none" /\ Load(c, p) /\ UNCHANGED <<todo, pc>>
       /\ UNCHANGED <<kv, dfs, mq, dirtab, current_barrier_id, serverVars, tree, stale>>

pacon_rename(c) ==
    LET p == Call(c).path
    IN /\ Begins(c, {"rename"})
       /\ IF kv[p] = "none" THEN Load(c, p) ELSE Goto(c, "new")
       /\ UNCHANGED <<kv, dfs, mq, dirtab, current_barrier_id, todo, pc, serverVars, tree, stale>>

\* The new name must be neither cached nor in the DFS.
RenameNew(c) ==
    LET q == Call(c).new
    IN /\ Doing(c, "new")
       /\ \/ kv[q] # "none" /\ Done(c)
          \/ kv[q] = "none" /\ Load(c, q) /\ UNCHANGED <<todo, pc>>
       /\ UNCHANGED <<kv, dfs, mq, dirtab, current_barrier_id, serverVars, tree, stale>>

Answered(c, op) == pc[c] = "reply" /\ Call(c).op = op /\ Done(c)

dmkv_del(p) == kv' = [kv EXCEPT ![p] = "none"]

\* The entry of the directory goes; fd_table is cleared, not dir_check_table.
RmdirDel(c) ==
    /\ Answered(c, "rmdir")
    /\ dmkv_del(Call(c).path)
    /\ UNCHANGED <<dfs, mq, dirtab, current_barrier_id, serverVars, tree, stale>>

\* opendir and the readdir of the application list the DFS.
Listed(c) ==
    /\ Answered(c, "readdir")
    /\ UNCHANGED <<kv, dfs, mq, dirtab, current_barrier_id, serverVars, tree, stale>>

Renamed(c) ==
    /\ Answered(c, "rename")
    /\ UNCHANGED <<kv, dfs, mq, dirtab, current_barrier_id, serverVars, tree, stale>>

\* pacon_rmdir_clean of the other clients: fdht_clean, which is not
\* dir_check_table.
Clean(c) ==
    /\ Calls(c, {"clean"}) /\ Done(c)
    /\ UNCHANGED <<kv, dfs, mq, dirtab, current_barrier_id, serverVars, tree, stale>>

\* MPI_Barrier of all clients (external).
MpiBarrier ==
    /\ \A c \in Clients : Calls(c, {"sync"})
    /\ todo' = [c \in Clients |-> Tail(todo[c])]
    /\ UNCHANGED <<kv, dfs, mq, dirtab, current_barrier_id, pc, load, serverVars, tree, stale>>

-----------------------------------------------------------------------------
(* The commit thread.                                                      *)

ClientsOn(n) == {c \in Clients : NodeOf[c] = n}
Stopped(n) == ClientsOn(n) \subseteq passed

Take(n, c) ==
    /\ cur[n] = Null /\ ~Stopped(n) /\ NodeOf[c] = n /\ mq[c] # <<>>
    /\ cur' = [cur EXCEPT ![n] = c]
    /\ UNCHANGED <<kv, dfs, mq, clientVars, passed, ops, rpc, removing, adding, tree, stale>>

Msg(n) == Head(mq[cur[n]])

\* Mutant of Filtered: the loop runs over the list, as was meant.
FilteredList(n, p) ==
    \E i \in 0 .. removing[n].count - 1 :
        removing[n].list[i] = Blank \/ Below(p, removing[n].list[i])

\* The search in removing_dirs counts i, which is the length of the path
\* here, and looks at the first slot only.
Filtered(n, p) ==
    LET first == removing[n].list[0]
    IN CharLen(p) < removing[n].count - 1 /\ (first = Blank \/ Below(p, first))

\* mkdir or creat, repeated until it succeeds, unless the path is filtered.
Apply(n) ==
    /\ cur[n] # Null /\ Msg(n).op # "barrier"
    /\ LET p == Msg(n).path IN
         IF Filtered(n, p) THEN UNCHANGED dfs
         ELSE /\ dfs[Front(p)] = "dir" /\ dfs[p] # "dir"
              /\ Msg(n).op = "dir" => dfs[p] = "none"
              /\ dfs' = [dfs EXCEPT ![p] = Msg(n).op]
    /\ mq' = [mq EXCEPT ![cur[n]] = Tail(@)]
    /\ cur' = [cur EXCEPT ![n] = Null]
    /\ UNCHANGED <<kv, clientVars, passed, ops, rpc, removing, adding, tree, stale>>

\* Mutant of Count: the operations are not counted.
CountNot(n) ==
    /\ cur[n] # Null /\ Msg(n).op = "barrier"
    /\ passed' = passed \cup {cur[n]}
    /\ mq' = [mq EXCEPT ![cur[n]] = Tail(@)]
    /\ cur' = [cur EXCEPT ![n] = Null]
    /\ UNCHANGED <<kv, dfs, clientVars, ops, rpc, removing, adding, tree, stale>>

\* An announcement: the operations are counted, the last client stops the node.
Count(n) ==
    /\ cur[n] # Null /\ Msg(n).op = "barrier"
    /\ ops' = ops + Msg(n).opt
    /\ passed' = passed \cup {cur[n]}
    /\ mq' = [mq EXCEPT ![cur[n]] = Tail(@)]
    /\ cur' = [cur EXCEPT ![n] = Null]
    /\ UNCHANGED <<kv, dfs, clientVars, rpc, removing, adding, tree, stale>>

-----------------------------------------------------------------------------
(* The local RPC thread: commit_to_fs_barrier.                             *)

At(n, step) == rpc[n].step = step
Served(n) == Call(rpc[n].client)
Peers(n) == Nodes \ {n}
Go(n, step) == rpc' = [rpc EXCEPT ![n].step = step]

RpcRecv(n, c) ==
    /\ At(n, "recv") /\ NodeOf[c] = n /\ pc[c] = "request"
    /\ rpc' = [rpc EXCEPT ![n].client = c,
                          ![n].step = IF Call(c).op = "rmdir" THEN "list" ELSE "hold"]
    /\ UNCHANGED <<kv, dfs, mq, clientVars, cur, passed, ops, removing, adding, tree, stale>>

\* sprintf into the slot at count, then count++; the cluster thread of the
\* node may do the same in between, without a lock.
ListSlot(n) ==
    /\ At(n, "list")
    /\ removing' = [removing EXCEPT ![n].list[removing[n].count] = Served(n).path]
    /\ rpc' = [rpc EXCEPT ![n].slot = removing[n].count, ![n].step = "listed"]
    /\ UNCHANGED <<kv, dfs, mq, clientVars, cur, passed, ops, adding, tree, stale>>

\* count++ adds to what is there now, or to what was there before the other
\* thread stored.
Incremented(n, slot) ==
    \E k \in {slot, removing[n].count} : removing' = [removing EXCEPT ![n].count = k + 1]

ListCount(n) ==
    /\ At(n, "listed")
    /\ Incremented(n, rpc[n].slot)
    /\ rpc' = [rpc EXCEPT ![n].peers = Peers(n), ![n].step = "tell"]
    /\ UNCHANGED <<kv, dfs, mq, clientVars, cur, passed, ops, adding, tree, stale>>

\* server_broadcast of CL_ADD_REMOVING_DIR, one answer after the other; the
\* cluster thread of the peer does the same two steps.
AddSlot(n, m) ==
    /\ At(n, "tell") /\ m \in rpc[n].peers /\ adding[m] = Null
    /\ removing' = [removing EXCEPT ![m].list[removing[m].count] = Served(n).path]
    /\ adding' = [adding EXCEPT ![m] = [from |-> n, slot |-> removing[m].count]]
    /\ UNCHANGED <<kv, dfs, mq, clientVars, cur, passed, ops, rpc, tree, stale>>

AddCount(m) ==
    /\ adding[m] # Null
    /\ Incremented(m, adding[m].slot)
    /\ LET n == adding[m].from IN rpc' = [rpc EXCEPT ![n].peers = @ \ {m}]
    /\ adding' = [adding EXCEPT ![m] = Null]
    /\ UNCHANGED <<kv, dfs, mq, clientVars, cur, passed, ops, tree, stale>>

ListTold(n) ==
    /\ At(n, "tell") /\ rpc[n].peers = {}
    /\ Go(n, "hold")
    /\ UNCHANGED <<kv, dfs, mq, clientVars, cur, passed, ops, removing, adding, tree, stale>>

Frame(p) == [dir |-> p, left |-> Children(p, dfs)]

\* Mutant of Hold: the server of this node is the only one that is waited for.
HoldLocal(n) ==
    /\ At(n, "hold") /\ Stopped(n)
    /\ rpc' = [rpc EXCEPT
         ![n].step = IF Served(n).op = "readdir" THEN "end"
                     ELSE IF dfs[Served(n).path] # "dir" THEN "crashed" ELSE "walk",
         ![n].stack = IF Served(n).op = "readdir" THEN <<>> ELSE <<Frame(Served(n).path)>>]
    /\ UNCHANGED <<kv, dfs, mq, clientVars, cur, passed, ops, removing, adding, tree, stale>>

\* broadcast_barrier_begin_new, then opendir: readdir of NULL kills the
\* server.  READDIR has nothing to do.
Hold(n) ==
    /\ At(n, "hold") /\ \A m \in Nodes : Stopped(m)
    /\ rpc' = [rpc EXCEPT
         ![n].step = IF Served(n).op = "readdir" THEN "end"
                     ELSE IF dfs[Served(n).path] # "dir" THEN "crashed" ELSE "walk",
         ![n].stack = IF Served(n).op = "readdir" THEN <<>> ELSE <<Frame(Served(n).path)>>]
    /\ UNCHANGED <<kv, dfs, mq, clientVars, cur, passed, ops, removing, adding, tree, stale>>

Top(n) == Last(rpc[n].stack)

\* The rest of the stack after an entry p of the directory on top is done.
Visited(n, p, more) ==
    Append(Front(rpc[n].stack), [Top(n) EXCEPT !.left = @ \ {p}]) \o more

\* Mutant of WalkDel: the entries of the children stay in the cache.
WalkDelDfs(n, p) ==
    /\ At(n, "walk") /\ Served(n).op = "rmdir" /\ p \in Top(n).left
    /\ dfs' = IF dfs[p] = "file" THEN [dfs EXCEPT ![p] = "none"] ELSE dfs
    /\ rpc' = [rpc EXCEPT ![n].stack =
                 Visited(n, p, IF dfs[p] = "dir" THEN <<Frame(p)>> ELSE <<>>)]
    /\ UNCHANGED <<kv, mq, clientVars, cur, passed, ops, removing, adding, tree, stale>>

\* traversedir_dmkv_del, the next entry: its cached entry goes, then the
\* file, or the walk goes down.
WalkDel(n, p) ==
    /\ At(n, "walk") /\ Served(n).op = "rmdir" /\ p \in Top(n).left
    /\ dmkv_del(p)
    /\ dfs' = IF dfs[p] = "file" THEN [dfs EXCEPT ![p] = "none"] ELSE dfs
    /\ rpc' = [rpc EXCEPT ![n].stack =
                 Visited(n, p, IF dfs[p] = "dir" THEN <<Frame(p)>> ELSE <<>>)]
    /\ UNCHANGED <<mq, clientVars, cur, passed, ops, removing, adding, tree, stale>>

\* ... after the last entry: closedir and rmdir, which fails if the directory
\* is not empty.
WalkRmdir(n) ==
    /\ At(n, "walk") /\ Served(n).op = "rmdir" /\ Top(n).left = {}
    /\ dfs' = IF Children(Top(n).dir, dfs) = {} THEN [dfs EXCEPT ![Top(n).dir] = "none"] ELSE dfs
    /\ LET rest == Front(rpc[n].stack)
       IN rpc' = [rpc EXCEPT ![n].stack = rest,
                             ![n].step = IF rest = <<>> THEN "unlist" ELSE "walk"]
    /\ UNCHANGED <<kv, mq, clientVars, cur, passed, ops, removing, adding, tree, stale>>

\* traversedir_dmkv_rename: a child that is not cached ends the visit of its
\* directory.
WalkRename(n, p) ==
    /\ At(n, "walk") /\ Served(n).op = "rename" /\ p \in Top(n).left
    /\ dmkv_del(p)
    /\ rpc' = [rpc EXCEPT ![n].stack =
                 IF kv[p] = "none" THEN Front(@)
                 ELSE Visited(n, p, IF dfs[p] = "dir" THEN <<Frame(p)>> ELSE <<>>)]
    /\ UNCHANGED <<dfs, mq, clientVars, cur, passed, ops, removing, adding, tree, stale>>

WalkBack(n) ==
    /\ At(n, "walk") /\ Served(n).op = "rename"
    /\ Len(rpc[n].stack) > 1 /\ Top(n).left = {}
    /\ rpc' = [rpc EXCEPT ![n].stack = Front(@)]
    /\ UNCHANGED <<kv, dfs, mq, clientVars, cur, passed, ops, removing, adding, tree, stale>>

\* The tree fs with what is within p moved to q.
Move(fs, p, q) ==
    [r \in Paths |->
        IF Within(r, q) /\ p \o SubSeq(r, Len(q) + 1, Len(r)) \in Paths
          THEN fs[p \o SubSeq(r, Len(q) + 1, Len(r))]
        ELSE IF Within(r, p) THEN "none" ELSE fs[r]]

\* rename(2): fails if the parent of the new name is not there.
Rename(n) ==
    LET p == Served(n).path
        q == Served(n).new
    IN /\ At(n, "walk") /\ Served(n).op = "rename"
       /\ \/ rpc[n].stack = <<>>
          \/ Len(rpc[n].stack) = 1 /\ Top(n).left = {}
       /\ IF dfs[Front(q)] = "dir" THEN dfs' = Move(dfs, p, q) ELSE UNCHANGED dfs
       /\ rpc' = [rpc EXCEPT ![n].stack = <<>>, ![n].step = "end"]
       /\ UNCHANGED <<kv, mq, clientVars, cur, passed, ops, removing, adding, tree, stale>>

\* The last slot that holds the path is overwritten by the last one of the
\* list, which is what was meant, and then made blank.
Unlisted(r, p) ==
    LET held == {i \in 0 .. r.count - 1 : r.list[i] = p}
    IN IF held = {} THEN r
       ELSE [count |-> r.count - 1,
             list |-> [r.list EXCEPT ![CHOOSE i \in held : \A j \in held : j <= i] = Blank]]

\* The path leaves removing_dirs of m.  Where the other thread of m does the
\* same, a decrement may be lost.
Forget(m, p) ==
    LET new == Unlisted(removing[m], p)
        others == {k \in Nodes : At(k, "unlist") \/ At(k, "untell")}
    IN \/ removing' = [removing EXCEPT ![m] = new]
       \/ /\ Cardinality(others) > 1
          /\ removing' = [removing EXCEPT ![m].list = new.list]

\* It does so here and, by CL_DEL_REMOVING_DIR, at the peers.
Unlist(n) ==
    /\ At(n, "unlist")
    /\ Forget(n, Served(n).path)
    /\ rpc' = [rpc EXCEPT ![n].peers = Peers(n),
                          ![n].step = IF Peers(n) = {} THEN "end" ELSE "untell"]
    /\ UNCHANGED <<kv, dfs, mq, clientVars, cur, passed, ops, adding, tree, stale>>

DelRemoving(n, m) ==
    /\ At(n, "untell") /\ m \in rpc[n].peers /\ adding[m] = Null
    /\ Forget(m, Served(n).path)
    /\ rpc' = [rpc EXCEPT ![n].peers = @ \ {m},
                          ![n].step = IF rpc[n].peers = {m} THEN "end" ELSE "untell"]
    /\ UNCHANGED <<kv, dfs, mq, clientVars, cur, passed, ops, adding, tree, stale>>

\* What operation o makes of the namespace.
TreeAfter(o) ==
    CASE o.op = "rmdir" -> [p \in Paths |-> IF Within(p, o.path) THEN "none" ELSE tree[p]]
      [] o.op = "rename" -> Move(tree, o.path, o.new)
      [] OTHER -> tree
StaleAfter(o) == IF o.op = "rename" THEN stale \cup {o.path} ELSE stale

\* Mutant of End: the barrier stays when the last operation has ended.
EndStay(n) ==
    LET o == Served(n)
    IN /\ At(n, "end")
       /\ ops' = ops - 1
       /\ rpc' = [rpc EXCEPT ![n] = NoRpc]
       /\ pc' = [pc EXCEPT ![rpc[n].client] = "reply"]
       /\ tree' = TreeAfter(o) /\ stale' = StaleAfter(o)
       /\ UNCHANGED <<kv, dfs, mq, dirtab, current_barrier_id, todo, load, cur, passed, removing, adding>>

\* Mutant of End: the first operation lifts the barrier.
EndFirst(n) ==
    LET o == Served(n)
    IN /\ At(n, "end")
       /\ ops' = ops - 1 /\ passed' = {}
       /\ rpc' = [rpc EXCEPT ![n] = NoRpc]
       /\ pc' = [pc EXCEPT ![rpc[n].client] = "reply"]
       /\ tree' = TreeAfter(o) /\ stale' = StaleAfter(o)
       /\ UNCHANGED <<kv, dfs, mq, dirtab, current_barrier_id, todo, load, cur, removing, adding>>

\* broadcast_barrier_end_new and the answer: the last operation lifts the barrier.
End(n) ==
    LET o == Served(n)
    IN /\ At(n, "end")
       /\ ops' = ops - 1
       /\ passed' = IF ops = 1 THEN {} ELSE passed
       /\ rpc' = [rpc EXCEPT ![n] = NoRpc]
       /\ pc' = [pc EXCEPT ![rpc[n].client] = "reply"]
       /\ tree' = TreeAfter(o) /\ stale' = StaleAfter(o)
       /\ UNCHANGED <<kv, dfs, mq, dirtab, current_barrier_id, todo, load, cur, removing, adding>>

-----------------------------------------------------------------------------
Client(c) ==
    \/ ParentCheck(c) \/ ParentGet(c) \/ ParentOpen(c) \/ ParentCas(c) \/ Add(c) \/ Send(c)
    \/ LoadStat(c) \/ LoadAdd(c) \/ \E q \in Paths : ChildStat(c, q)
    \/ Announce(c) \/ Clean(c)
    \/ pacon_rmdir(c) \/ pacon_opendir(c) \/ pacon_rename(c) \/ RenameNew(c)
    \/ RmdirDel(c) \/ Listed(c) \/ Renamed(c)

Commit(n) == Apply(n) \/ Count(n)

Rpc(n) ==
    \/ ListSlot(n) \/ ListCount(n) \/ ListTold(n) \/ Hold(n)
    \/ \E p \in Paths : WalkDel(n, p) \/ WalkRename(n, p)
    \/ WalkRmdir(n) \/ WalkBack(n) \/ Rename(n) \/ Unlist(n) \/ End(n)

Cluster(m) == AddCount(m) \/ \E n \in Nodes : AddSlot(n, m) \/ DelRemoving(n, m)

Next ==
    \/ MpiBarrier
    \/ \E c \in Clients : Client(c)
    \/ \E n \in Nodes : Commit(n) \/ Rpc(n) \/ Cluster(n)
    \/ \E n \in Nodes, c \in Clients : Take(n, c) \/ RpcRecv(n, c)

Spec == Init /\ [][Next]_vars

\* The application makes its calls, threads run, zmq_recv serves its peers in turn.
Fairness ==
    /\ WF_vars(MpiBarrier)
    /\ \A c \in Clients : /\ WF_vars(Client(c))
                          /\ SF_vars(Take(NodeOf[c], c)) /\ SF_vars(RpcRecv(NodeOf[c], c))
    /\ \A n \in Nodes : WF_vars(Commit(n)) /\ WF_vars(Rpc(n)) /\ WF_vars(Cluster(n))

FairSpec == Spec /\ Fairness

-----------------------------------------------------------------------------
(* Properties.                                                             *)

LoadType ==
    [at : {"start", "stat", "store", "get", "open", "child", "add", "send", "new", "crashed"},
     path : Paths, got : Kind, left : SUBSET Paths]

\* The variables have their types; the count of operations and the length of
\* removing_dirs never fall below zero, and the list stays in its array.
TypeOK ==
    /\ kv \in [Paths -> Kind \cup {"ldir"}] /\ dfs \in [Paths -> Kind]
    /\ cur \in [Nodes -> Clients \cup {Null}]
    /\ dirtab \in [Clients -> SUBSET Paths]
    /\ pc \in [Clients -> {"idle", "request", "reply"}] /\ load \in [Clients -> LoadType]
    /\ passed \in SUBSET Clients /\ ops \in Nat
    /\ \A n \in Nodes : /\ removing[n].count \in 0 .. MaxRemoving
                        /\ rpc[n].client \in Clients \cup {Null}
                        /\ rpc[n].peers \subseteq Peers(n)

\* The walk of an rmdir or rename finds the directory in the DFS: everything
\* that was queued before it, on every node, is committed when it starts.
\* Otherwise readdir(NULL) kills the server.
ServerAlive == \A n \in Nodes : rpc[n].step # "crashed"

Visible(p) == IF kv[p] = "none" THEN dfs[p] ELSE Type(kv[p])

\* A directory operation on the path, or on what it lies within, is under way.
InTransit(p) ==
    \E c \in Clients : /\ pc[c] # "idle" /\ Call(c).op # "readdir"
                       /\ \/ Within(p, Call(c).path)
                          \/ Call(c).op = "rename" /\ Within(p, Call(c).new)

\* Clients see one namespace at all times, through the cache and the DFS: a
\* removed directory is gone with all that was in it, whether committed, cached
\* or only queued, a renamed one is where it should be, and nothing else
\* changes.  Excepted are paths under way, and the old name of a renamed
\* directory, whose entry the code never deletes.
VisibleTree == \A p \in Paths \ stale : InTransit(p) \/ Visible(p) = tree[p]

Quiescent ==
    /\ \A c \in Clients : mq[c] = <<>> /\ pc[c] = "idle" /\ load[c] = NoLoad
    /\ \A n \in Nodes : rpc[n].step = "recv"

\* When the queues are empty the DFS is that namespace: no commit was dropped
\* by the search in removing_dirs and none came after a removal.
CommittedTree == Quiescent => dfs = tree

\* The listing that a client gets holds every child that is visible, but for
\* those that were created by calls after the announcement of its barrier, be
\* they queued or about to be.
ReaddirComplete ==
    [][\A c \in Clients : Listed(c) =>
          \A p \in Paths \ {Root} :
             Front(p) = Call(c).path /\ kv[p] # "none" /\ p \notin stale /\ ~InTransit(p) =>
               \/ dfs[p] # "none"
               \/ \E d \in Clients : \E i \in DOMAIN mq[d] :
                    /\ mq[d][i].op # "barrier" /\ mq[d][i].path = p
                    /\ mq[d][i].id >= current_barrier_id[c]
               \/ \E d \in Clients : /\ Doing(d, "send") /\ Call(d).path = p
                                     /\ current_barrier_id[d] >= current_barrier_id[c]]_vars

\* Every call returns, every barrier is lifted and every queue is committed.
ProgramsEnd == <>[](Quiescent /\ \A c \in Clients : todo[c] = <<>>)
=============================================================================
