---------------------------- MODULE PaconDirInv ------------------------------
(***************************************************************************)
(* What the application promises when it uses rmdir and readdir, and the   *)
(* inductive invariant that PaconDir keeps if it does.  A round is what a  *)
(* client calls between two MPI barriers; all clients are in the same one. *)
(***************************************************************************)
EXTENDS PaconDir

BarrierOps == {"rmdir", "readdir", "rename"}

\* The calls that c still makes in this round.
InRound(c) == {i \in DOMAIN todo[c] : \A j \in 1 .. i : todo[c][j].op # "sync"}

\* The barrier that c announces in this round is still to come, or in the queue.
BarrierAhead(c) == \E i \in InRound(c) : todo[c][i].op = "barrier"
BarrierQueued(c) == \E i \in DOMAIN mq[c] : mq[c][i].op = "barrier"

\* The operations behind the barrier that the server has not ended for c, each
\* by its distance from the end of the program.
Owed(c) ==
    {k \in 1 .. Len(todo[c]) :
        LET i == Len(todo[c]) + 1 - k
        IN /\ i \in InRound(c) /\ todo[c][i].op \in BarrierOps
           /\ ~ (i = 1 /\ pc[c] = "reply")}

Pending(c) == BarrierAhead(c) \/ BarrierQueued(c) \/ c \in passed

-----------------------------------------------------------------------------
(* The promise.                                                            *)

\* A client announces at most one barrier in a round, before its operations,
\* and says how many they are.
AnnouncedFirst ==
    \A c \in Clients : \A i \in InRound(c) : todo[c][i].op = "barrier" =>
        /\ todo[c][i].opt = Cardinality(Owed(c))
        /\ \A j \in InRound(c) : /\ j < i => todo[c][j].op \notin BarrierOps
                                 /\ todo[c][j].op = "barrier" => j = i

\* If one client announces a barrier in a round then all do, and one of them
\* has an operation for it.
AnnouncedByAll ==
    passed = {} /\ (\A c \in Clients : ~BarrierQueued(c)) =>
        \/ \A c \in Clients : ~BarrierAhead(c) /\ Owed(c) = {}
        \/ (\A c \in Clients : BarrierAhead(c)) /\ \E c \in Clients : Owed(c) # {}

\* What is removed or listed is a directory.
OnDirectories ==
    \A c \in Clients : Calls(c, BarrierOps) => tree[Call(c).path] = "dir"

\* As in the example of the notes, a client that has announced the barrier of a
\* round in which a directory is removed creates nothing, anywhere, until the
\* round is over (its parent check would load the directory again); the other
\* clients have no operation within the directory.
KeptOut ==
    \A c, d \in Clients : \A j \in InRound(d) : todo[d][j].op = "rmdir" =>
        /\ Calls(c, {"mkdir", "create"}) => BarrierAhead(c)
        /\ c # d => \A i \in InRound(c) : todo[c][i].op \in BarrierOps =>
                        ~Within(todo[c][i].path, todo[d][j].path)

\* Nothing was renamed and nothing will be.
NoRenames ==
    stale = {} /\ \A c \in Clients : \A i \in DOMAIN todo[c] : todo[c][i].op # "rename"

\* removing_dirs is too short for the search in it to find anything: a path
\* has more characters.
ListShort == \A n \in Nodes : removing[n].count <= RootLen + 3

\* The clients remove directories one at a time.
InRmdir(c) == pc[c] = "request" /\ Call(c).op = "rmdir"
OneRemover == \A c, d \in Clients : InRmdir(c) /\ InRmdir(d) => c = d

NotesFollowed == AnnouncedFirst /\ AnnouncedByAll /\ OnDirectories /\ KeptOut /\ NoRenames

-----------------------------------------------------------------------------
(* The invariant.                                                          *)

Steps == {"recv", "list", "listed", "tell", "hold", "walk", "unlist", "untell", "end", "crashed"}
Past == {"walk", "unlist", "untell", "end"}    \* behind the barrier
FrameType == [dir : Paths, left : SUBSET Paths]
MsgType ==
    [op : {"dir", "file"}, path : Paths \ {Root}, id : Nat]
        \cup [op : {"barrier"}, opt : Nat, id : Nat]

DirTypes ==
    /\ kv \in [Paths -> Kind \cup {"ldir"}]
    /\ dfs \in [Paths -> Kind] /\ tree \in [Paths -> Kind]
    /\ mq \in [Clients -> Seq(MsgType)] /\ todo \in [Clients -> Seq(CallType)]
    /\ cur \in [Nodes -> Clients \cup {Null}]
    /\ dirtab \in [Clients -> SUBSET Paths]
    /\ current_barrier_id \in [Clients -> Nat]
    /\ pc \in [Clients -> {"idle", "request", "reply"}] /\ load \in [Clients -> LoadType]
    /\ passed \in SUBSET Clients
    /\ rpc \in [Nodes -> [step : Steps, client : Clients \cup {Null}, stack : Seq(FrameType),
                          peers : SUBSET Nodes, slot : Nat]]
    /\ removing \in [Nodes -> [count : Nat, list : [0 .. MaxRemoving -> Paths \cup {Blank}]]]
    /\ adding \in [Nodes -> [from : Nodes, slot : Nat] \cup {Null}]

\* A request waits for one RPC thread, and the steps of the thread fit the call.
RpcInv ==
    /\ \A c \in Clients : pc[c] # "idle" => todo[c] # <<>> /\ Call(c).op \in BarrierOps
    /\ \A n \in Nodes :
          /\ IF rpc[n].step = "recv" THEN rpc[n] = NoRpc
             ELSE /\ rpc[n].client \in Clients /\ NodeOf[rpc[n].client] = n
                  /\ pc[rpc[n].client] = "request"
          /\ rpc[n].step \notin {"recv", "hold", "end"} => Served(n).op = "rmdir"
          /\ rpc[n].step # "crashed"
          /\ rpc[n].peers \subseteq Peers(n)
          /\ (rpc[n].stack = <<>>) = (rpc[n].step # "walk")
    /\ \A m \in Nodes : adding[m] # Null =>
          At(adding[m].from, "tell") /\ m \in rpc[adding[m].from].peers

\* Where the round stands.
RoundInv ==
    /\ \A c \in Clients :
          /\ pc[c] # "idle" => ~BarrierAhead(c)
          /\ pc[c] = "reply" => \A d \in Clients : ~BarrierAhead(d) /\ ~BarrierQueued(d)
          /\ BarrierAhead(c) => ~BarrierQueued(c) /\ c \notin passed
          /\ BarrierQueued(c) => c \notin passed
          /\ \A i, j \in DOMAIN mq[c] : mq[c][i].op = "barrier" /\ mq[c][j].op = "barrier" => i = j
    /\ \/ \A c \in Clients : ~Pending(c) /\ Owed(c) = {}
       \/ (\A c \in Clients : Pending(c)) /\ \E c \in Clients : Owed(c) # {}
    /\ \A n \in Nodes :
          /\ rpc[n].step \in Past => passed = Clients
          /\ cur[n] # Null => NodeOf[cur[n]] = n /\ mq[cur[n]] # <<>> /\ ~Stopped(n)

\* The count of operations is the number of operations that are owed to the
\* clients whose announcements were counted.
Ledger == UNION {{c} \X Owed(c) : c \in passed}
LedgerInv ==
    /\ IsFiniteSet(Ledger) /\ ops = Cardinality(Ledger)
    /\ \A c \in Clients : \A i \in DOMAIN mq[c] :
          mq[c][i].op = "barrier" => mq[c][i].opt = Cardinality(Owed(c))

\* The i-th message of c was queued after its announcement in this round.
Fresh(c, i) ==
    ~BarrierAhead(c) /\ \A j \in DOMAIN mq[c] : j >= i => mq[c][j].op # "barrier"

\* What is queued is cached, and what was queued after the announcement lies
\* outside the directories that are removed.
MsgInv(c, i) ==
    mq[c][i].op # "barrier" =>
        /\ Type(kv[mq[c][i].path]) = mq[c][i].op
        /\ Fresh(c, i) =>
              /\ mq[c][i].id = current_barrier_id[c]
              /\ \A d \in Clients : \A j \in InRound(d) :
                    todo[d][j].op = "rmdir" => ~Within(mq[c][i].path, todo[d][j].path)

\* The clients have announced the same number of barriers, but for those that
\* have still to announce the one of this round.
IdsInv ==
    \A c, d \in Clients :
        /\ (BarrierAhead(c) <=> BarrierAhead(d)) => current_barrier_id[c] = current_barrier_id[d]
        /\ BarrierAhead(c) /\ ~BarrierAhead(d) =>
              current_barrier_id[d] = current_barrier_id[c] + 1

QueueInv == (\A c \in Clients : \A i \in DOMAIN mq[c] : MsgInv(c, i)) /\ IdsInv

\* The rmdir of c is behind the barrier.
Removes(c) ==
    /\ pc[c] # "idle" /\ Call(c).op = "rmdir"
    /\ pc[c] = "reply" \/ (rpc[NodeOf[c]].client = c /\ rpc[NodeOf[c]].step \in Past)
Leaving(p) == \E c \in Clients : Removes(c) /\ Within(p, Call(c).path)
InQueue(p) ==
    \E c \in Clients : \E i \in DOMAIN mq[c] : mq[c][i].op # "barrier" /\ mq[c][i].path = p
Sending(p) == \E c \in Clients : Doing(c, "send") /\ Call(c).path = p
Queued(p) == InQueue(p) \/ Sending(p)

\* The DFS is a tree; the cache hides it, and what differs is queued, or about
\* to be.
DfsTree == \A p, q \in Paths : dfs[p] # "none" /\ Within(p, q) /\ p # q => dfs[q] = "dir"
PathInv(p) ==
    IF kv[p] = "none" THEN dfs[p] = tree[p]
    ELSE Type(kv[p]) = tree[p] /\ (dfs[p] = tree[p] \/ Queued(p))

\* The directory of a request is cached; of a removed one only its entry is left.
AskedInv(c) ==
    /\ pc[c] = "request" => Type(kv[Call(c).path]) = "dir"
    /\ pc[c] = "reply" /\ Call(c).op = "rmdir" =>
          \A p \in Paths : Within(p, Call(c).path) =>
             dfs[p] = "none" /\ tree[p] = "none" /\ (kv[p] = "none" \/ p = Call(c).path)

\* The steps of a call fit it.  A directory that is loaded to be removed or listed
\* is in the DFS.  What a client has got from the DFS and not yet stored is right,
\* unless the entry is there by now; what it has stored and not yet queued is
\* still there.
LoadInv(c) ==
    /\ load[c].at # "start" =>
          /\ Calls(c, {"mkdir", "create", "rmdir", "readdir"})
          /\ load[c].at # "new" /\ (load[c].at \notin {"stat", "store"} => Making(c))
          /\ ~Making(c) => load[c].path = Call(c).path
    /\ Doing(c, "stat") /\ ~Making(c) => dfs[load[c].path] = "dir"
    /\ Doing(c, "store") /\ kv[load[c].path] = "none" => load[c].got = tree[load[c].path]
    /\ Doing(c, "send") => Type(kv[Call(c).path]) = NewType(c)
LoadsInv == \A c \in Clients : LoadInv(c)

StoreInv ==
    /\ DfsTree
    /\ \A p \in Paths : ~Leaving(p) => PathInv(p)
    /\ \A c \in Clients : AskedInv(c)

\* The frames of the walk are a path down from the directory; what is left of
\* it in the DFS is a frame or lies within an entry that is still to be
\* visited, and what is left in the cache lies within such an entry.
InLeft(n, p) ==
    \E i \in DOMAIN rpc[n].stack : \E q \in rpc[n].stack[i].left : Within(p, q)
Chain(n) ==
    LET s == rpc[n].stack
    IN /\ s # <<>> => s[1].dir = Served(n).path
       /\ \A i \in DOMAIN s : \A q \in s[i].left : q # Root /\ Front(q) = s[i].dir
       /\ \A i, j \in DOMAIN s : i <= j => Within(s[j].dir, s[i].dir)
       /\ \A i, j \in DOMAIN s : j = i + 1 =>
             s[j].dir # Root /\ Front(s[j].dir) = s[i].dir /\ s[j].dir \notin s[i].left
Cover(n) ==
    \A p \in Paths : Within(p, Served(n).path) =>
        /\ dfs[p] # "none" => InLeft(n, p) \/ \E i \in DOMAIN rpc[n].stack : p = rpc[n].stack[i].dir
        /\ kv[p] # "none" /\ p # Served(n).path => dfs[p] # "none" /\ InLeft(n, p)
WalkInv ==
    \A n \in Nodes : rpc[n].step \in Past /\ Served(n).op = "rmdir" => Chain(n) /\ Cover(n)

IndInv ==
    /\ DirTypes /\ RpcInv /\ RoundInv /\ LedgerInv /\ QueueInv /\ StoreInv /\ WalkInv
    /\ LoadsInv

\* Programs without renames that follow the notes keep it: the order of the
\* rounds, the count of owed operations, the freshness of what is queued behind
\* an announcement, and that a walk leaves nothing behind it.
DirInv == NoRenames => NotesFollowed /\ IndInv

\* The directory that n removes is in removing_dirs of m.
Lists(n, m) ==
    /\ rpc[n].step # "recv" /\ Served(n).op = "rmdir"
    /\ \/ rpc[n].step \in {"hold", "walk", "unlist"}
       \/ rpc[n].step = "tell" /\ m \notin rpc[n].peers
       \/ rpc[n].step = "untell" /\ m \in rpc[n].peers

\* If directories are removed one at a time, removing_dirs has the one that is
\* being removed, in its first slot.
ListInv ==
    \A m \in Nodes :
        /\ removing[m].count = IF \E n \in Nodes : Lists(n, m) THEN 1 ELSE 0
        /\ \A n \in Nodes : Lists(n, m) => removing[m].list[0] = Served(n).path
        /\ At(m, "listed") => rpc[m].slot = 0 /\ removing[m].list[0] = Served(m).path
        /\ adding[m] # Null =>
              adding[m].slot = 0 /\ removing[m].list[0] = Served(adding[m].from).path
=============================================================================
