------------------------------ MODULE PaconStart -----------------------------
(***************************************************************************)
(* How the system comes up: servers start on their nodes (start_pacon_     *)
(* server, main) while clients initialise (init_pacon), set permissions    *)
(* and make their first calls.  All of them meet in the KV store, where    *)
(* servers reset the barrier counts and clients add locks and modes.       *)
(*                                                                         *)
(* One action is one call on the KV store, a socket or the DFS; steps of   *)
(* one process that touch nothing shared are one action.  External: the    *)
(* KV store (set overwrites, add fails if the key is there), ZeroMQ        *)
(* (PUB/SUB loses what is published before the two sides have joined,      *)
(* REQ/REP waits for a peer that is not up yet) and the DFS.  A barrier    *)
(* message is counted by one atomic step: the code repeats get and cas     *)
(* until no other store came between.                                      *)
(***************************************************************************)
EXTENDS PaconPerm

CONSTANTS
    Clients, Nodes,
    NodeOf,   \* the node of each client
    Ids,      \* barrier ids, 0 .. BARRIER_ID_MAX - 1
    JointMax, \* CR_JOINT_MAX: regions that can be joined
    Setups    \* [lines, remote, ordered, root, log, mount, crj, todo]

\* The calls of an application that lock and unlock take turns, beginning
\* with first: they are the two ends of evict_metadata_explicit.
LockCalls(s) == {i \in DOMAIN s : s[i].op \in {"lock", "unlock"}}
TakeTurns(s, first) ==
    /\ \A i \in LockCalls(s) : s[i].op = first \/ \E j \in LockCalls(s) : j < i
    /\ \A i, j \in LockCalls(s) :
         i < j => s[i].op # s[j].op \/ \E k \in LockCalls(s) : i < k /\ k < j

AllCalls == UNION {ToSet(s.todo[c]) : s \in Setups, c \in Clients}

\* A line of the configuration that is not a comment is the address of a node;
\* pacon_set_permission is given permissions.
ASSUME StartAssumption ==
    /\ CopyMax \in Nat /\ Null \notin {0, 1, Wild}
    /\ \A call \in AllCalls : call.op = "perm" => call.perm # Null
    /\ \A s \in Setups :
         /\ s.ordered \in BOOLEAN
         /\ LET list == Addresses(s.lines) IN
              list \in Seq(ToSet(list)) /\ {Null, Wild, NoAddr} \cap ToSet(list) = {}
         /\ DOMAIN s.todo = Clients
         /\ \A c \in Clients : s.todo[c] \in Seq(AllCalls) /\ TakeTurns(s.todo[c], "lock")

VARIABLES
    setup,    \* the configuration files, the DFS and the order of the start
    kv,       \* the KV store: a value or Null for each of Keys
    server,   \* per node: the next step of start_pacon_server, or "run", "failed", "dead"
    reset,    \* per node: the next count that it resets
    conn,     \* per node: server_mq, by index
    sp,       \* per node: sp_permission: "unknown" (-1), "default" (0) or "special"
              \* (1), or "found" between two gets
    rpc,      \* per node: the index its local RPC thread broadcasts to, 0 or Refused
    told,     \* per node: history, who has handled the broadcast
    pc,       \* per client: the next step of init_pacon or of its first call
    todo,     \* per client: the calls it still makes
    joined,   \* clients whose publisher is connected to the subscriber
    mq,       \* per client: messages its server has not taken yet
    perm,     \* per client: perm_info
    cr_num,   \* per client: the number of regions it has joined
    linked,   \* per client: the number of these that are connected
    verdict,  \* per client: its last check, [perm, path, opt, ret], or Null
    answered, \* per client: the path of its last lookup and the region that answered
    holder,   \* history: clients that hold the evict lock
    counted   \* history, per id: the operations that servers counted

vars == <<setup, kv, server, reset, conn, sp, rpc, told, pc, todo, joined, mq, perm, cr_num, linked,
          verdict, answered, holder, counted>>
clientVars == <<pc, todo, joined, mq, perm, cr_num, linked, verdict, answered, holder>>
serverVars == <<server, reset, conn, sp, rpc, told, counted>>

CountKey(id) == <<"barrier_opt_count", id>>
FlagKey(n, id) == <<n, id>>
Modes == {<<"nom_dir_mode">>, <<"nom_f_mode">>, <<"sp_path">>}
Lock == <<"evict_lock">>
Record == <<"evict_record">>
Keys == {CountKey(id) : id \in Ids} \cup {FlagKey(n, id) : n \in Nodes, id \in Ids}
        \cup Modes \cup {Lock, Record}

dmkv_set(k, v) == kv' = [kv EXCEPT ![k] = v]
dmkv_add(k, v) == kv' = [kv EXCEPT ![k] = IF @ = Null THEN v ELSE @]
dmkv_get(k) == kv[k]

Init ==
    \E s \in Setups :
        /\ setup = s
        /\ kv = [k \in Keys |-> Null]
        /\ server = [n \in Nodes |-> "kv"]
        /\ reset = [n \in Nodes |-> Min(Ids)]
        /\ conn = [n \in Nodes |-> <<>>]
        /\ sp = [n \in Nodes |-> "unknown"]
        /\ rpc = [n \in Nodes |-> 0]
        /\ told = [n \in Nodes |-> {}]
        /\ pc = [c \in Clients |-> "kv"]
        /\ todo = s.todo
        /\ joined = {}
        /\ mq = [c \in Clients |-> <<>>]
        /\ perm = [c \in Clients |-> Null]
        /\ cr_num = [c \in Clients |-> 0]
        /\ linked = [c \in Clients |-> 0]
        /\ verdict = [c \in Clients |-> Null]
        /\ answered = [c \in Clients |-> Null]
        /\ holder = {}
        /\ counted = [id \in Ids |-> 0]

-----------------------------------------------------------------------------
(* start_pacon_server                                                      *)

Step(n, to) == server' = [server EXCEPT ![n] = to]

\* The two handles of the KV store read ../config.
StartKv(n) ==
    /\ server[n] = "kv"
    /\ Step(n, IF dmkv_init(setup.lines) THEN "bind" ELSE "failed")
    /\ UNCHANGED <<setup, reset, kv, conn, sp, rpc, told, counted, clientVars>>

\* The subscriber and the two REP sockets; from here on a publisher can join.
StartBind(n) ==
    /\ server[n] = "bind"
    /\ Step(n, "comm")
    /\ UNCHANGED <<setup, reset, kv, conn, sp, rpc, told, counted, clientVars>>

\* setup_servers_comm; its result is not looked at.
StartComm(n) ==
    /\ server[n] = "comm"
    /\ conn' = [conn EXCEPT ![n] = Connections(get_cluster_info_comm(setup.lines), n)]
    /\ Step(n, "counts")
    /\ UNCHANGED <<setup, reset, kv, sp, rpc, told, counted, clientVars>>

\* The counts of the whole cluster, one key at a time, in order.
StartCounts(n) ==
    /\ server[n] = "counts"
    /\ dmkv_set(CountKey(reset[n]), 0)
    /\ reset' = [reset EXCEPT ![n] = @ + 1]
    /\ Step(n, IF reset[n] = Max(Ids) THEN "flags" ELSE "counts")
    /\ UNCHANGED <<setup, conn, sp, rpc, told, counted, clientVars>>

\* The flags of the node, which nobody else sets, and the tables in memory;
\* then main creates the three threads.
StartFlags(n) ==
    /\ server[n] = "flags"
    /\ kv' = [k \in Keys |-> IF \E id \in Ids : k = FlagKey(n, id) THEN 0 ELSE kv[k]]
    /\ Step(n, "run")
    /\ UNCHANGED <<setup, reset, conn, sp, rpc, told, counted, clientVars>>

\* Mutant of Running: the threads are created before the counts are reset.
RunningEarly(n) == server[n] \in {"counts", "flags", "run"}

\* The threads of main are there.
Running(n) == server[n] = "run"

-----------------------------------------------------------------------------
(* The commit thread: batch permissions at the first message, and barrier  *)
(* messages.  What it commits to the DFS is the subject of PaconNamespace. *)

Serve(n) == server[n] # "dead" /\ Running(n)
Waiting(n, c) == NodeOf[c] = n /\ mq[c] # <<>>

\* No nom_dir_mode: the default setting, for good.
GetMode(n) ==
    /\ Serve(n) /\ sp[n] = "unknown"
    /\ \E c \in Clients : Waiting(n, c)
    /\ sp' = [sp EXCEPT ![n] = IF dmkv_get(<<"nom_dir_mode">>) = Null THEN "default" ELSE "found"]
    /\ UNCHANGED <<setup, reset, kv, server, conn, rpc, told, counted, clientVars>>

\* strlen of NULL if sp_path is not there.
GetSpPath(n) ==
    /\ Serve(n) /\ sp[n] = "found"
    /\ IF dmkv_get(<<"sp_path">>) = Null
         THEN Step(n, "dead") /\ UNCHANGED sp
         ELSE sp' = [sp EXCEPT ![n] = "special"] /\ UNCHANGED server
    /\ UNCHANGED <<setup, reset, kv, conn, rpc, told, counted, clientVars>>

\* A barrier message waits until its key is there.
Commit(n) ==
    /\ Serve(n) /\ sp[n] \in {"default", "special"}
    /\ \E c \in Clients :
         /\ Waiting(n, c)
         /\ mq' = [mq EXCEPT ![c] = Tail(@)]
         /\ LET m == Head(mq[c]) IN
            IF m.op = "commit"
              THEN UNCHANGED <<kv, counted>>
              ELSE /\ dmkv_get(CountKey(m.id)) # Null
                   /\ dmkv_set(CountKey(m.id), dmkv_get(CountKey(m.id)) + m.opt)
                   /\ counted' = [counted EXCEPT ![m.id] = @ + m.opt]
    /\ UNCHANGED <<setup, reset, server, conn, sp, rpc, told, pc, todo, joined, perm, cr_num, linked, verdict,
                   answered, holder>>

-----------------------------------------------------------------------------
(* The local RPC thread: server_broadcast asks one connection after the    *)
(* other and waits for the answer of the peer's cluster thread.            *)

\* The client waits in add_to_local_rpc.
RpcStart(n) ==
    /\ Serve(n) /\ rpc[n] = 0
    /\ \E c \in Clients : NodeOf[c] = n /\ pc[c] = "rpc"
    /\ rpc' = [rpc EXCEPT ![n] = 1]
    /\ told' = [told EXCEPT ![n] = {n}]
    /\ UNCHANGED <<setup, reset, kv, server, conn, sp, counted, clientVars>>

\* Mutant of Answers: one thread serves clients and peers.
AnswersOneThread(n) == Serve(n) /\ rpc[n] = 0

\* The cluster thread of the peer answers.
Answers(n) == Serve(n)

Refused == -1

\* An uninitialised entry is NULL by chance, or the server dies.  An answer
\* other than '0', or a zmq_recv that fails, ends the loop with -1.
Broadcast(n) ==
    /\ Serve(n) /\ rpc[n] \in DOMAIN conn[n]
    /\ LET peer == conn[n][rpc[n]] IN
       \/ /\ peer \in {Null, Wild}
          /\ rpc' = [rpc EXCEPT ![n] = @ + 1]
          /\ UNCHANGED <<server, told>>
       \/ /\ peer = Wild
          /\ Step(n, "dead")
          /\ UNCHANGED <<rpc, told>>
       \/ /\ peer \in Nodes /\ Answers(peer)
          /\ rpc' = [rpc EXCEPT ![n] = @ + 1]
          /\ told' = [told EXCEPT ![n] = @ \cup {peer}]
          /\ UNCHANGED server
       \/ /\ peer \in Nodes /\ Answers(peer)
          /\ rpc' = [rpc EXCEPT ![n] = Refused]
          /\ UNCHANGED <<server, told>>
    /\ UNCHANGED <<setup, reset, kv, conn, sp, counted, clientVars>>

-----------------------------------------------------------------------------
(* init_pacon                                                              *)

Goto(c, step) == pc' = [pc EXCEPT ![c] = step] /\ UNCHANGED todo
Return(c) == pc' = [pc EXCEPT ![c] = "idle"] /\ todo' = [todo EXCEPT ![c] = Tail(@)]
\* The application gives up.
Fail(c) == pc' = [pc EXCEPT ![c] = "failed"] /\ todo' = [todo EXCEPT ![c] = <<>>]

\* An application that is started by the scripts finds every server up.
InitKv(c) ==
    /\ pc[c] = "kv"
    /\ setup.ordered => \A n \in Nodes : Running(n) \/ server[n] = "failed"
    /\ IF dmkv_init(setup.lines) THEN Goto(c, "root") ELSE Fail(c)
    /\ UNCHANGED <<setup, kv, joined, mq, perm, cr_num, linked, verdict, answered, holder, serverVars>>

\* The sockets connect whether or not the server is up.  The root must be in
\* the DFS, under the name that was copied, and the directory of the fsync
\* log there, or possible to make.
InitRoot(c) ==
    /\ pc[c] = "root"
    /\ \E ended \in set_root_path :
         IF ended /\ setup.root /\ setup.log THEN Goto(c, "lock") ELSE Fail(c)
    /\ UNCHANGED <<setup, kv, joined, mq, perm, cr_num, linked, verdict, answered, holder, serverVars>>

\* Mutant of InitLock: the lock is set, not added.
InitLockSet(c) ==
    /\ pc[c] = "lock"
    /\ dmkv_set(Lock, 0)
    /\ Goto(c, "record")
    /\ UNCHANGED <<setup, joined, mq, perm, cr_num, linked, verdict, answered, holder, serverVars>>

InitLock(c) ==
    /\ pc[c] = "lock"
    /\ dmkv_add(Lock, 0)
    /\ Goto(c, "record")
    /\ UNCHANGED <<setup, joined, mq, perm, cr_num, linked, verdict, answered, holder, serverVars>>

\* The last step: the sleep of SLEEP_AFTER_INIT_SEC comes after the return.
InitRecord(c) ==
    /\ pc[c] = "record"
    /\ dmkv_add(Record, {})
    /\ Goto(c, "idle")
    /\ UNCHANGED <<setup, joined, mq, perm, cr_num, linked, verdict, answered, holder, serverVars>>

\* ZeroMQ connects publisher and subscriber in the background.
Join(c) ==
    /\ pc[c] \notin {"kv", "failed", "freed"} /\ c \notin joined
    /\ server[NodeOf[c]] \notin {"kv", "bind", "failed", "dead"}
    /\ joined' = joined \cup {c}
    /\ UNCHANGED <<setup, kv, pc, todo, mq, perm, cr_num, linked, verdict, answered, holder, serverVars>>

-----------------------------------------------------------------------------
(* The first calls of a client.                                            *)

Call(c) == Head(todo[c])
Calls(c, op) == pc[c] = "idle" /\ todo[c] # <<>> /\ Call(c).op = op
Publish(c, m) == mq' = [mq EXCEPT ![c] = IF c \in joined THEN Append(@, m) ELSE @]

\* pacon_set_permission: perm_info is assigned before anything can fail.
SetPermission(c) ==
    /\ Calls(c, "perm")
    /\ perm' = [perm EXCEPT ![c] = Call(c).perm]
    /\ IF Serialisable(Call(c).perm) THEN Goto(c, "nom_dir_mode") ELSE Fail(c)
    /\ UNCHANGED <<setup, kv, joined, mq, cr_num, linked, verdict, answered, holder, serverVars>>

\* Mutant of AddModes: returns when the first key is there already.
AddModesOnce(c) ==
    /\ <<pc[c]>> \in Modes
    /\ dmkv_add(<<pc[c]>>, Call(c).perm)
    /\ IF pc[c] = "nom_dir_mode" /\ kv[<<pc[c]>>] = Null THEN Goto(c, "nom_f_mode")
       ELSE IF pc[c] = "nom_f_mode" THEN Goto(c, "sp_path") ELSE Return(c)
    /\ UNCHANGED <<setup, joined, mq, perm, cr_num, linked, verdict, answered, holder, serverVars>>

\* Its three dmkv_add, whose results are ignored.
AddModes(c) ==
    /\ <<pc[c]>> \in Modes
    /\ dmkv_add(<<pc[c]>>, Call(c).perm)
    /\ IF pc[c] = "nom_dir_mode" THEN Goto(c, "nom_f_mode")
       ELSE IF pc[c] = "nom_f_mode" THEN Goto(c, "sp_path") ELSE Return(c)
    /\ UNCHANGED <<setup, joined, mq, perm, cr_num, linked, verdict, answered, holder, serverVars>>

\* A metadata operation: checked if this client has set permissions, then
\* published.
Operate(c) ==
    /\ Calls(c, "op")
    /\ \E ret \in IF perm[c] = Null THEN {0} ELSE check_permission(perm[c], Text(Call(c).path), Call(c).opt) :
         /\ verdict' = [verdict EXCEPT ![c] =
                          [perm |-> perm[c], path |-> Call(c).path, opt |-> Call(c).opt, ret |-> ret]]
         /\ IF ret < 0 THEN UNCHANGED mq ELSE Publish(c, [op |-> "commit"])
    /\ Return(c)
    /\ UNCHANGED <<setup, kv, joined, perm, cr_num, linked, answered, holder, serverVars>>

\* send_barrier_mesg
Announce(c) ==
    /\ Calls(c, "barrier")
    /\ Publish(c, Call(c))
    /\ Return(c)
    /\ UNCHANGED <<setup, kv, joined, perm, cr_num, linked, verdict, answered, holder, serverVars>>

\* add_to_local_rpc: the request waits for the server; then its reply, which
\* does not depend on the result of server_broadcast.
Request(c) ==
    /\ Calls(c, "rpc") /\ \A d \in Clients : NodeOf[d] = NodeOf[c] => pc[d] # "rpc"
    /\ Goto(c, "rpc")
    /\ UNCHANGED <<setup, kv, joined, mq, perm, cr_num, linked, verdict, answered, holder, serverVars>>
Reply(c) ==
    /\ pc[c] = "rpc"
    /\ LET n == NodeOf[c] IN
         /\ Serve(n) /\ (rpc[n] > Len(conn[n]) \/ rpc[n] = Refused)
         /\ rpc' = [rpc EXCEPT ![n] = 0]
    /\ Return(c)
    /\ UNCHANGED <<setup, kv, server, reset, conn, sp, told, counted, joined, mq, perm, cr_num, linked,
                   verdict, answered, holder>>

\* The evict lock: cas from 0 to 1, and set to 0 at the end.
Acquire(c) ==
    /\ Calls(c, "lock")
    /\ dmkv_get(Lock) = 0
    /\ dmkv_set(Lock, 1)
    /\ holder' = holder \cup {c}
    /\ Return(c)
    /\ UNCHANGED <<setup, joined, mq, perm, cr_num, linked, verdict, answered, serverVars>>
Release(c) ==
    /\ Calls(c, "unlock")
    /\ dmkv_set(Lock, 0)
    /\ holder' = holder \ {c}
    /\ Return(c)
    /\ UNCHANGED <<setup, joined, mq, perm, cr_num, linked, verdict, answered, serverVars>>

\* All remote regions use the KV store of ./cr_joint_config; each must be in
\* the DFS, under the name that was copied.
init_remote_pacon(i) ==
    dmkv_remote_init(setup.remote) /\ i \in DOMAIN setup.crj /\ setup.crj[i].exists

\* cregion_joint connects one remote region after the other, up to the first
\* that fails or whose root was not copied whole (set_root_path); cr_num is
\* assigned before.
JointRegion(c) ==
    /\ Calls(c, "joint")
    /\ \/ /\ Call(c).num \in 1 .. JointMax
          /\ cr_num' = [cr_num EXCEPT ![c] = Call(c).num]
          /\ \E k \in 0 .. Call(c).num :
               /\ \A i \in 1 .. k : init_remote_pacon(i)
               /\ k < Call(c).num => ~ init_remote_pacon(k + 1) \/ FALSE \in set_root_path
               /\ linked' = [linked EXCEPT ![c] = IF k > @ THEN k ELSE @]
       \/ /\ Call(c).num \notin 1 .. JointMax
          /\ UNCHANGED <<cr_num, linked>>
    /\ Return(c)
    /\ UNCHANGED <<setup, kv, joined, mq, perm, verdict, answered, holder, serverVars>>

SplitRegion(c) ==
    /\ Calls(c, "split")
    /\ cr_num' = [cr_num EXCEPT ![c] = 0]
    /\ Return(c)
    /\ UNCHANGED <<setup, kv, joined, mq, perm, linked, verdict, answered, holder, serverVars>>

\* remote_cr_root: what lines of the file there are; another root is not
\* initialised, it may be empty, which is above every path, or match none.
Roots(c, junk) ==
    [i \in 1 .. cr_num[c] |-> IF i \in DOMAIN setup.crj THEN setup.crj[i].root ELSE junk]

\* pacon_getattr and pacon_open of a path that is not cached; a region that is
\* not connected kills the client.
Lookup(c) ==
    /\ Calls(c, "lookup")
    /\ \E junk \in {<<>>, <<<<"?">>>>} :
         LET by == Resolve(Text(Call(c).path), setup.mount, Roots(c, junk), linked[c]) IN
         /\ answered' = [answered EXCEPT ![c] =
              [path |-> Call(c).path, joined |-> cr_num[c], linked |-> linked[c], by |-> by]]
         /\ IF by = Wild THEN Fail(c) ELSE Return(c)
    /\ UNCHANGED <<setup, kv, joined, mq, perm, cr_num, linked, verdict, holder, serverVars>>

\* free_pacon, when the application is done; what was published is still sent.
Free(c) ==
    /\ pc[c] = "idle" /\ todo[c] = <<>>
    /\ Goto(c, "freed")
    /\ UNCHANGED <<setup, kv, joined, mq, perm, cr_num, linked, verdict, answered, holder, serverVars>>

-----------------------------------------------------------------------------
Server(n) ==
    \/ StartKv(n) \/ StartBind(n) \/ StartComm(n) \/ StartCounts(n) \/ StartFlags(n)
    \/ GetMode(n) \/ GetSpPath(n) \/ Commit(n)
    \/ RpcStart(n) \/ Broadcast(n)

Client(c) ==
    \/ InitKv(c) \/ InitRoot(c) \/ InitLock(c) \/ InitRecord(c)
    \/ SetPermission(c) \/ AddModes(c) \/ Operate(c) \/ Announce(c) \/ Request(c) \/ Reply(c)
    \/ Acquire(c) \/ Release(c) \/ JointRegion(c) \/ SplitRegion(c) \/ Lookup(c) \/ Free(c)

Next ==
    \/ \E n \in Nodes : Server(n)
    \/ \E c \in Clients : Client(c) \/ Join(c)

Spec == Init /\ [][Next]_vars

\* Every process runs (the threads of a server are its own): each step that
\* stays possible is taken.
FairSpec ==
    /\ Spec
    /\ \A n \in Nodes :
         /\ WF_vars(StartKv(n) \/ StartBind(n) \/ StartComm(n) \/ StartCounts(n) \/ StartFlags(n))
         /\ WF_vars(GetMode(n) \/ GetSpPath(n) \/ Commit(n))
         /\ WF_vars(RpcStart(n) \/ Broadcast(n))
    /\ \A c \in Clients : WF_vars(Client(c))

-----------------------------------------------------------------------------
(* Properties.                                                             *)

List == Addresses(setup.lines)
\* The configurations whose addresses are all copied.
Small == Len(List) <= CopyMax
\* Every client calls pacon_set_permission, as README.md asks, before all else.
AllSet == \A c \in Clients : setup.todo[c] # <<>> /\ Head(setup.todo[c]).op = "perm"

\* Once every server is up before the first client starts, no barrier
\* operation that a commit thread has counted is wiped out by the reset in
\* start_pacon_server.
CountsKept ==
    setup.ordered => \A id \in Ids : kv[CountKey(id)] \in {Null, counted[id]}

\* A client that initialises late (init_pacon adds evict_lock) never takes
\* the lock from an eviction that holds it, and two never hold it.
LockKept ==
    /\ holder # {} => kv[Lock] = 1
    /\ Cardinality(holder) <= 1

\* If every client sets its permissions before it does anything else, no commit
\* thread finds the modes half stored (strlen of NULL in commit_to_fs), nor
\* settles on the default setting.
ServerFindsModes ==
    AllSet /\ Small => \A n \in Nodes : server[n] # "dead" /\ sp[n] # "default"

\* A mode grants the operations that mask_compare names for it; 8 and 9 do
\* not restrict.
Grants(mode, opt) == mode \in {7, 8, 9} \/ (mode \in 2 .. 6 /\ opt \in Named[mode])
\* What applies to a path, name by name.
Above(pm, p, kind) ==
    {pm.nom[kind]} \cup {pm.sp[i][kind] : i \in {j \in DOMAIN pm.sp : IsPrefix(pm.sp[j].path, p)}}

\* The path and the kind of modes a verdict is about.
Checked(v) == IF v.opt \in Creations THEN Front(v.path) ELSE v.path
Kind(v) == IF v.opt \in Creations THEN "dir" ELSE CallerType(v.opt)

\* An operation is let through only if the normal mode and that of every
\* special directory at or above the path grant it, and is let through if all
\* of them are 7; the special index returned is of that path.
Agrees(v) ==
    LET modes == Above(v.perm, Checked(v), Kind(v)) IN
    /\ v.ret >= 0 => \A m \in modes : Grants(m, v.opt)
    /\ modes = {7} => v.ret >= 0
    /\ v.ret > 0 => v.perm.sp[v.ret + 1].path = Checked(v)

\* check_permission agrees with the modes that were set, over text comparison
\* of paths, parents and several special directories, for creations and where
\* the modes of directories and files do not differ.
PermissionSound ==
    \A c \in Clients : LET v == verdict[c] IN
        /\ v # Null /\ v.perm # Null
        /\ \/ v.opt \in Creations
           \/ Above(v.perm, v.path, "dir") = Above(v.perm, v.path, "file")
        => Agrees(v)

\* When server_broadcast returns 0, every server of the configuration has
\* handled the message, also those that started later.
BroadcastComplete ==
    Small => \A n \in Nodes : Serve(n) /\ rpc[n] > Len(conn[n]) => ToSet(List) \subseteq told[n]

\* A lookup is answered by the region whose root is at or above the path: the
\* own one always, a remote one only between a cregion_joint that connected
\* all of its regions and cregion_split.
JointOwner ==
    \A c \in Clients : LET a == answered[c] IN
        a # Null =>
            LET all == {setup.mount} \cup {setup.crj[i].root : i \in 1 .. a.joined \cap DOMAIN setup.crj}
                owners == {r \in all : IsPrefix(r, a.path)}
            IN  /\ setup.mount \in owners => a.by = setup.mount
                /\ a.joined <= a.linked => IF owners = {} THEN a.by = <<>> ELSE a.by \in owners

\* Every application comes to its end: nobody waits for ever for a server
\* that starts later, nor for one that waits itself.
ProgramsEnd == Small => <>(\A c \in Clients : pc[c] \in {"freed", "failed"})
=============================================================================
