--------------------------- MODULE PaconNamespace ---------------------------
(***************************************************************************)
(* The namespace of one consistent region.  Clients read and write the     *)
(* metadata entries of a shared KV store (memcached) and queue every       *)
(* change for the server of their node; the server's commit thread applies *)
(* the queue to the distributed file system (DFS) later.                   *)
(*                                                                         *)
(* One action is one call on the KV store, on the DFS or on the queue, so  *)
(* the calls of all clients and servers interleave as they do in the code. *)
(* Of an entry's flags the model keeps STAT_type, STAT_rm,                 *)
(* STAT_existedin_dfs and STAT_child_check; sizes, times, modes and inline *)
(* data are left out.  Configuration: PARENT_CHECK 1, ASYNC_RPC 0,         *)
(* SERI_TYPE 0, no batch permission, no joint region, and KV memory is     *)
(* never short (dmkv_add does not return -2).  Barrier operations (rmdir,  *)
(* rename, readdir) are not part of this module.                           *)
(***************************************************************************)
EXTENDS Integers, Sequences, FiniteSets

CONSTANTS
    Clients, Nodes, NodeOf,  \* clients, nodes, and the node a client runs on
    Paths, Root, Parent,     \* the paths of the workspace and their parents
    Null,                    \* no entry, no path, no client
    Setups,                  \* what the DFS holds before Pacon starts, ROOT_EMPTY
                             \* and the calls of each client: [dfs, empty, prog]
    MaxOps                   \* bound: calls per client

OpNames == {"mkdir", "create", "create_write", "rm", "getattr", "evict"}
Call == [op : OpNames, path : Paths \ {Root}]

Kind == {"dir", "file"}
Entry == [type : Kind, rm : BOOLEAN, existed : BOOLEAN, checked : BOOLEAN]

ASSUME ConstantsAssumption ==
    /\ NodeOf \in [Clients -> Nodes]
    /\ Root \in Paths /\ Null \notin Paths \cup Entry
    /\ Parent \in [Paths \ {Root} -> Paths]
    /\ MaxOps \in Nat
    /\ \A s \in Setups :
         /\ s.dfs \in [Paths -> {"none", "dir", "file"}] /\ s.dfs[Root] = "dir"
         /\ \A p \in Paths \ {Root} : s.dfs[p] # "none" => s.dfs[Parent[p]] = "dir"
         /\ s.empty => \A p \in Paths \ {Root} : s.dfs[p] = "none"
         /\ s.prog \in [Clients -> Seq(Call)]
         /\ \A c \in Clients : Len(s.prog[c]) <= MaxOps

VARIABLES
    kv,       \* the KV store: path -> entry or Null
    token,    \* per client: the path whose cas value it holds is still current
    dfs,      \* the DFS: path -> "none", "dir" or "file"
    mq,       \* per client: its commit queue; the message being committed
              \* stays at the head until it is done
    dirtab,   \* per client: dir_check_table, the parents found present
    pc,       \* per client: the next step of its call
    call,     \* per client: the call in progress
    ent,      \* per client: the entry read last
    kids,     \* per client: children of the parent still to load
    load,     \* per client: the path load_to_pacon works on, what stat said
              \* and the step to go on with
    prog,     \* per client: the calls the application has still to make
    cpc, cur  \* per node: step of the commit thread and the client it serves

clientVars == <<dirtab, pc, call, ent, kids, load, prog>>
vars == <<kv, token, dfs, mq, clientVars, cpc, cur>>

\* The entry pacon_create and pacon_mkdir write, the one load_to_pacon makes
\* from stat, and the one pacon_getattr makes: flags = 0 whatever stat said.
NewEntry(t) == [type |-> t, rm |-> FALSE, existed |-> FALSE, checked |-> FALSE]
\* Mutant of LoadedEntry: the type that stat reports is not stored.
LoadedDir(t) == [type |-> "dir", rm |-> FALSE, existed |-> TRUE, checked |-> FALSE]

LoadedEntry(t) == [type |-> t, rm |-> FALSE, existed |-> TRUE, checked |-> FALSE]
AttrEntry == NewEntry("dir")

\* A cached entry that is not marked as removed.
Live(p) == IF kv[p] = Null THEN FALSE ELSE ~kv[p].rm

NoCall == [op |-> "none", path |-> Root]
NoLoad == [path |-> Root, type |-> "none", next |-> "idle"]

Message == [op : {"MKDIR", "CREATE", "RM"}, path : Paths]

Steps == {"idle", "crashed", "parent", "lstat", "ladd", "pget", "popen", "kids", "pcas",
          "preget", "add", "exists", "reset", "send", "rget", "rget2", "rcas", "rsend",
          "get", "gstat", "gadd", "estat", "eget", "edel"}

\* init_pacon of every client has loaded the root directory.
Init ==
    /\ kv = [p \in Paths |-> IF p = Root THEN LoadedEntry("dir") ELSE Null]
    /\ token = [c \in Clients |-> Null]
    /\ mq = [c \in Clients |-> <<>>]
    /\ pc = [c \in Clients |-> "idle"]
    /\ call = [c \in Clients |-> NoCall]
    /\ ent = [c \in Clients |-> Null]
    /\ kids = [c \in Clients |-> {}]
    /\ load = [c \in Clients |-> NoLoad]
    /\ \E s \in Setups :
         /\ dfs = s.dfs /\ prog = s.prog
         /\ dirtab = [c \in Clients |-> IF s.empty THEN {Root} ELSE {}]
    /\ cpc = [n \in Nodes |-> "recv"]
    /\ cur = [n \in Nodes |-> Null]

-----------------------------------------------------------------------------
(* The KV store (external).  A write to a path outdates every cas value    *)
(* read from it before.                                                    *)

Write(p, e) ==
    /\ kv' = [kv EXCEPT ![p] = e]
    /\ token' = [c \in Clients |-> IF token[c] = p THEN Null ELSE token[c]]

\* dmkv_add: no effect when the key is there.
AddIfAbsent(p, e) ==
    IF kv[p] = Null THEN Write(p, e) ELSE UNCHANGED <<kv, token>>

\* dmkv_get_cas into the client's entry and cas value.
GetCas(c, p) ==
    /\ ent' = [ent EXCEPT ![c] = kv[p]]
    /\ token' = [token EXCEPT ![c] = p]

-----------------------------------------------------------------------------
(* The client.                                                             *)

Path(c) == call[c].path
ParentOf(c) == Parent[Path(c)]

Go(c, step) == pc' = [pc EXCEPT ![c] = step]

\* The call returns; its local variables are gone.
Return(c) ==
    /\ Go(c, "idle")
    /\ call' = [call EXCEPT ![c] = NoCall]
    /\ ent' = [ent EXCEPT ![c] = Null]
    /\ kids' = [kids EXCEPT ![c] = {}]
    /\ load' = [load EXCEPT ![c] = NoLoad]

\* deseri_val or readdir on a NULL pointer: the application process dies.
Crash(c) ==
    /\ Go(c, "crashed")
    /\ UNCHANGED <<call, ent, kids, load>>

local == <<call, ent, kids, load>>

FirstStep(op) ==
    CASE op = "rm" -> "rget"
      [] op = "getattr" -> "get"
      [] op = "evict" -> "estat"
      [] OTHER -> "parent"

\* The application makes its next call.
Start(c) ==
    /\ pc[c] = "idle" /\ prog[c] # <<>>
    /\ call' = [call EXCEPT ![c] = Head(prog[c])]
    /\ prog' = [prog EXCEPT ![c] = Tail(@)]
    /\ Go(c, FirstStep(Head(prog[c]).op))
    /\ UNCHANGED <<kv, token, dfs, mq, dirtab, ent, kids, load, cpc, cur>>

(* load_to_pacon of path p, then step s.                                   *)
Load(c, p, s) ==
    /\ load' = [load EXCEPT ![c] = [path |-> p, type |-> "none", next |-> s]]
    /\ Go(c, "lstat")

\* Mutant of LoadStat: what stat said about the type is not kept.
LoadStatUntyped(c) ==
    /\ pc[c] = "lstat"
    /\ \/ dfs[load[c].path] = "none" /\ Return(c)
       \/ dfs[load[c].path] # "none" /\ Go(c, "ladd") /\ UNCHANGED local
    /\ UNCHANGED <<kv, token, dfs, mq, dirtab, prog, cpc, cur>>

\* stat: an absent path makes the caller return -1.
LoadStat(c) ==
    /\ pc[c] = "lstat"
    /\ \/ /\ dfs[load[c].path] = "none"
          /\ Return(c)
       \/ /\ dfs[load[c].path] # "none"
          /\ load' = [load EXCEPT ![c].type = dfs[load[c].path]]
          /\ Go(c, "ladd")
          /\ UNCHANGED <<call, ent, kids>>
    /\ UNCHANGED <<kv, token, dfs, mq, dirtab, prog, cpc, cur>>

LoadAdd(c) ==
    /\ pc[c] = "ladd"
    /\ AddIfAbsent(load[c].path, LoadedEntry(load[c].type))
    /\ Go(c, load[c].next)
    /\ load' = [load EXCEPT ![c] = NoLoad]
    /\ UNCHANGED <<dfs, mq, dirtab, call, ent, kids, prog, cpc, cur>>

(* check_parent_dir.                                                       *)

\* What check_parent_dir does with the entry e of the parent.  A missing
\* parent check leads to the step that lists its children.
ParentFound(c, e) ==
    \/ /\ e.type = "file"
       /\ Go(c, "idle") /\ call' = [call EXCEPT ![c] = NoCall]
       /\ UNCHANGED <<dirtab, ent, token>>
    \/ /\ e.type = "dir" /\ e.existed /\ ~e.checked
       /\ GetCas(c, ParentOf(c))
       /\ Go(c, "popen")
       /\ UNCHANGED <<dirtab, call>>
    \/ /\ e.type = "dir" /\ ~(e.existed /\ ~e.checked)
       /\ dirtab' = [dirtab EXCEPT ![c] = @ \cup {ParentOf(c)}]
       /\ Go(c, "add")
       /\ UNCHANGED <<call, ent, token>>

\* Mutants of ParentCheck: no check at all; no load of a parent that is not cached.
ParentCheckSkip(c) ==
    /\ pc[c] = "parent"
    /\ Go(c, "add")
    /\ UNCHANGED <<kv, token, dfs, mq, dirtab, local, prog, cpc, cur>>

\* Hit in dir_check_table, or dmkv_get_cas of the parent.
ParentCheck(c) ==
    /\ pc[c] = "parent"
    /\ \/ /\ ParentOf(c) \in dirtab[c]
          /\ Go(c, "add")
          /\ UNCHANGED <<dirtab, call, ent, token, load>>
       \/ /\ ParentOf(c) \notin dirtab[c] /\ kv[ParentOf(c)] = Null
          /\ Load(c, ParentOf(c), "pget")
          /\ UNCHANGED <<dirtab, call, ent, token>>
       \/ /\ ParentOf(c) \notin dirtab[c] /\ kv[ParentOf(c)] # Null
          /\ ParentFound(c, kv[ParentOf(c)])
          /\ UNCHANGED load
    /\ UNCHANGED <<kv, dfs, mq, kids, prog, cpc, cur>>

\* The second dmkv_get_cas, after the load; its result is not checked for NULL.
ParentGet(c) ==
    /\ pc[c] = "pget"
    /\ \/ /\ kv[ParentOf(c)] = Null
          /\ Crash(c)
          /\ UNCHANGED <<dirtab, token>>
       \/ /\ kv[ParentOf(c)] # Null
          /\ ParentFound(c, kv[ParentOf(c)])
          /\ UNCHANGED <<kids, load>>
    /\ UNCHANGED <<kv, dfs, mq, prog, cpc, cur>>

\* Mutant of ParentOpen: the children are not listed.
ParentOpenOnly(c) ==
    /\ pc[c] = "popen"
    /\ Go(c, "kids")
    /\ UNCHANGED <<kv, token, dfs, mq, dirtab, local, prog, cpc, cur>>

\* opendir and readdir of the parent.
ParentOpen(c) ==
    /\ pc[c] = "popen"
    /\ \/ /\ dfs[ParentOf(c)] # "dir"
          /\ Crash(c)
       \/ /\ dfs[ParentOf(c)] = "dir"
          /\ kids' = [kids EXCEPT ![c] = {p \in Paths \ {Root} :
                                             Parent[p] = ParentOf(c) /\ dfs[p] # "none"}]
          /\ Go(c, "kids")
          /\ UNCHANGED <<call, ent, load>>
    /\ UNCHANGED <<kv, token, dfs, mq, dirtab, prog, cpc, cur>>

\* load_to_pacon of the next child; after the last one the parent is updated.
ParentKids(c) ==
    /\ pc[c] = "kids"
    /\ \/ \E p \in kids[c] :
             /\ kids' = [kids EXCEPT ![c] = @ \ {p}]
             /\ Load(c, p, "kids")
       \/ /\ kids[c] = {}
          /\ Go(c, "pcas")
          /\ UNCHANGED <<kids, load>>
    /\ UNCHANGED <<kv, token, dfs, mq, dirtab, call, ent, prog, cpc, cur>>

\* Mutant of ParentCas: a set instead of a cas.
ParentCasBlind(c) ==
    /\ pc[c] = "pcas"
    /\ \/ /\ kv[ParentOf(c)] # Null
          /\ Write(ParentOf(c), [ent[c] EXCEPT !.checked = TRUE])
          /\ dirtab' = [dirtab EXCEPT ![c] = @ \cup {ParentOf(c)}]
          /\ Go(c, "add")
          /\ UNCHANGED local
       \/ /\ kv[ParentOf(c)] = Null
          /\ Return(c)
          /\ UNCHANGED <<kv, token, dirtab>>
    /\ UNCHANGED <<dfs, mq, prog, cpc, cur>>

\* dmkv_cas of the parent with STAT_child_check set: done, outdated (retry),
\* or the key is gone (-1).
ParentCas(c) ==
    /\ pc[c] = "pcas"
    /\ \/ /\ kv[ParentOf(c)] # Null /\ token[c] = ParentOf(c)
          /\ Write(ParentOf(c), [ent[c] EXCEPT !.checked = TRUE])
          /\ dirtab' = [dirtab EXCEPT ![c] = @ \cup {ParentOf(c)}]
          /\ ent' = [ent EXCEPT ![c] = Null]
          /\ Go(c, "add")
          /\ UNCHANGED <<call, kids, load>>
       \/ /\ kv[ParentOf(c)] # Null /\ token[c] # ParentOf(c)
          /\ Go(c, "preget")
          /\ UNCHANGED <<kv, token, dirtab, local>>
       \/ /\ kv[ParentOf(c)] = Null
          /\ Return(c)
          /\ UNCHANGED <<kv, token, dirtab>>
    /\ UNCHANGED <<dfs, mq, prog, cpc, cur>>

ParentReget(c) ==
    /\ pc[c] = "preget"
    /\ \/ /\ kv[ParentOf(c)] = Null
          /\ Crash(c)
          /\ UNCHANGED token
       \/ /\ kv[ParentOf(c)] # Null
          /\ GetCas(c, ParentOf(c))
          /\ Go(c, "pcas")
          /\ UNCHANGED <<call, kids, load>>
    /\ UNCHANGED <<kv, dfs, mq, dirtab, prog, cpc, cur>>

(* pacon_mkdir, pacon_create, pacon_create_write after the parent check.   *)

NewType(c) == IF call[c].op = "mkdir" THEN "dir" ELSE "file"

\* Mutant of Add: a set instead of an add.
AddAsSet(c) ==
    /\ pc[c] = "add"
    /\ Write(Path(c), NewEntry(NewType(c)))
    /\ Go(c, "send")
    /\ UNCHANGED <<dfs, mq, dirtab, local, prog, cpc, cur>>

\* dmkv_add of the new entry.
Add(c) ==
    /\ pc[c] = "add"
    /\ AddIfAbsent(Path(c), NewEntry(NewType(c)))
    /\ Go(c, IF kv[Path(c)] = Null THEN "send" ELSE "exists")
    /\ UNCHANGED <<dfs, mq, dirtab, local, prog, cpc, cur>>

\* The key was there: dmkv_get, and a removed entry may be reused.
\* pacon_create_write reports a live entry and goes on to queue the creation.
Exists(c) ==
    /\ pc[c] = "exists"
    /\ \/ /\ kv[Path(c)] = Null
          /\ Return(c)
       \/ /\ kv[Path(c)] # Null /\ ~Live(Path(c))
          /\ Go(c, "reset")
          /\ UNCHANGED local
       \/ /\ Live(Path(c))
          /\ call[c].op = "create_write"
          /\ Go(c, "send")
          /\ UNCHANGED local
       \/ /\ Live(Path(c))
          /\ call[c].op # "create_write"
          /\ Return(c)
    /\ UNCHANGED <<kv, token, dfs, mq, dirtab, prog, cpc, cur>>

\* dmkv_set over the removed entry; pacon_mkdir returns without queueing.
Reset(c) ==
    /\ pc[c] = "reset"
    /\ Write(Path(c), NewEntry(NewType(c)))
    /\ \/ /\ call[c].op = "mkdir"
          /\ Return(c)
       \/ /\ call[c].op # "mkdir"
          /\ Go(c, "send")
          /\ UNCHANGED local
    /\ UNCHANGED <<dfs, mq, dirtab, prog, cpc, cur>>

\* add_to_mq, the last step of the three calls and of pacon_rm.
Queue(c, o) ==
    /\ mq' = [mq EXCEPT ![c] = Append(@, [op |-> o, path |-> Path(c)])]
    /\ Return(c)

Send(c) ==
    /\ pc[c] = "send"
    /\ Queue(c, IF call[c].op = "mkdir" THEN "MKDIR" ELSE "CREATE")
    /\ UNCHANGED <<kv, token, dfs, dirtab, prog, cpc, cur>>

(* pacon_rm.                                                               *)

RmGet(c) ==
    /\ pc[c] = "rget"
    /\ \/ /\ kv[Path(c)] = Null
          /\ Load(c, Path(c), "rget2")
          /\ UNCHANGED <<ent, token>>
       \/ /\ kv[Path(c)] # Null
          /\ GetCas(c, Path(c))
          /\ Go(c, "rcas")
          /\ UNCHANGED load
    /\ UNCHANGED <<kv, dfs, mq, dirtab, call, kids, prog, cpc, cur>>

\* dmkv_get_cas after a load or after an outdated cas; NULL is not checked.
RmReget(c) ==
    /\ pc[c] = "rget2"
    /\ \/ /\ kv[Path(c)] = Null
          /\ Crash(c)
          /\ UNCHANGED token
       \/ /\ kv[Path(c)] # Null
          /\ GetCas(c, Path(c))
          /\ Go(c, "rcas")
          /\ UNCHANGED <<call, kids, load>>
    /\ UNCHANGED <<kv, dfs, mq, dirtab, prog, cpc, cur>>

\* dmkv_cas with STAT_rm set; only "outdated" is retried, a missing key is not.
RmCas(c) ==
    /\ pc[c] = "rcas"
    /\ \/ /\ kv[Path(c)] # Null /\ token[c] = Path(c)
          /\ Write(Path(c), [ent[c] EXCEPT !.rm = TRUE])
          /\ Go(c, "rsend")
       \/ /\ kv[Path(c)] # Null /\ token[c] # Path(c)
          /\ Go(c, "rget2")
          /\ UNCHANGED <<kv, token>>
       \/ /\ kv[Path(c)] = Null
          /\ Go(c, "rsend")
          /\ UNCHANGED <<kv, token>>
    /\ UNCHANGED <<dfs, mq, dirtab, local, prog, cpc, cur>>

\* Mutant of RmSend: the call returns without queueing.
RmSendNot(c) ==
    /\ pc[c] = "rsend"
    /\ Return(c)
    /\ UNCHANGED <<kv, token, dfs, mq, dirtab, prog, cpc, cur>>

RmSend(c) ==
    /\ pc[c] = "rsend"
    /\ Queue(c, "RM")
    /\ UNCHANGED <<kv, token, dfs, dirtab, prog, cpc, cur>>

(* pacon_getattr.                                                          *)

\* A cached entry answers the call; otherwise the DFS is asked.
Getattr(c) ==
    /\ pc[c] = "get"
    /\ \/ /\ kv[Path(c)] # Null
          /\ Return(c)
       \/ /\ kv[Path(c)] = Null
          /\ Go(c, "gstat")
          /\ UNCHANGED local
    /\ UNCHANGED <<kv, token, dfs, mq, dirtab, prog, cpc, cur>>

GetattrStat(c) ==
    /\ pc[c] = "gstat"
    /\ \/ /\ dfs[Path(c)] = "none"
          /\ Return(c)
       \/ /\ dfs[Path(c)] # "none"
          /\ Go(c, "gadd")
          /\ UNCHANGED local
    /\ UNCHANGED <<kv, token, dfs, mq, dirtab, prog, cpc, cur>>

GetattrAdd(c) ==
    /\ pc[c] = "gadd"
    /\ AddIfAbsent(Path(c), AttrEntry)
    /\ Return(c)
    /\ UNCHANGED <<dfs, mq, dirtab, prog, cpc, cur>>

(* flush_file_new, the step of an eviction that drops one entry.           *)

EvictStat(c) ==
    /\ pc[c] = "estat"
    /\ \/ /\ dfs[Path(c)] = "none"
          /\ Return(c)
       \/ /\ dfs[Path(c)] # "none"
          /\ Go(c, "eget")
          /\ UNCHANGED local
    /\ UNCHANGED <<kv, token, dfs, mq, dirtab, prog, cpc, cur>>

\* test_entry_exist: a missing or removed entry is left alone.
EvictGet(c) ==
    /\ pc[c] = "eget"
    /\ \/ /\ ~Live(Path(c))
          /\ Return(c)
       \/ /\ Live(Path(c))
          /\ Go(c, "edel")
          /\ UNCHANGED local
    /\ UNCHANGED <<kv, token, dfs, mq, dirtab, prog, cpc, cur>>

EvictDel(c) ==
    /\ pc[c] = "edel"
    /\ Write(Path(c), Null)
    /\ Return(c)
    /\ UNCHANGED <<dfs, mq, dirtab, prog, cpc, cur>>

-----------------------------------------------------------------------------
(* The commit thread of a node: listen_commit_mq and commit_to_fs.         *)

Msg(n) == Head(mq[cur[n]])

CommitRecv(n, c) ==
    /\ cpc[n] = "recv" /\ NodeOf[c] = n /\ mq[c] # <<>>
    /\ cur' = [cur EXCEPT ![n] = c]
    /\ cpc' = [cpc EXCEPT ![n] = IF Head(mq[c]).op = "RM" THEN "get" ELSE "try"]
    /\ UNCHANGED <<kv, token, dfs, mq, clientVars>>

CommitDone(n) ==
    /\ mq' = [mq EXCEPT ![cur[n]] = Tail(@)]
    /\ cur' = [cur EXCEPT ![n] = Null]
    /\ cpc' = [cpc EXCEPT ![n] = "recv"]

\* mkdir(2) and creat(2) on the DFS (external): creat truncates a file.
CanMkdir(p) == p # Root /\ dfs[Parent[p]] = "dir" /\ dfs[p] = "none"
CanCreat(p) == p # Root /\ dfs[Parent[p]] = "dir" /\ dfs[p] # "dir"
CanRemove(p) == /\ dfs[p] # "none"
                /\ \A q \in Paths \ {Root} : Parent[q] = p => dfs[q] = "none"

\* The attempt that succeeds; retry_commit repeats the others without end.
CommitMkdir(n) ==
    /\ cpc[n] = "try" /\ Msg(n).op = "MKDIR" /\ CanMkdir(Msg(n).path)
    /\ dfs' = [dfs EXCEPT ![Msg(n).path] = "dir"]
    /\ CommitDone(n)
    /\ UNCHANGED <<kv, token, clientVars>>

CommitCreate(n) ==
    /\ cpc[n] = "try" /\ Msg(n).op = "CREATE" /\ CanCreat(Msg(n).path)
    /\ dfs' = [dfs EXCEPT ![Msg(n).path] = "file"]
    /\ CommitDone(n)
    /\ UNCHANGED <<kv, token, clientVars>>

\* Mutant of CommitRmGet: the entry goes before the file.
CommitRmGetDel(n) ==
    /\ cpc[n] = "get"
    /\ \/ /\ kv[Msg(n).path] = Null
          /\ CommitDone(n)
          /\ UNCHANGED <<kv, token>>
       \/ /\ kv[Msg(n).path] # Null
          /\ Write(Msg(n).path, Null)
          /\ cpc' = [cpc EXCEPT ![n] = "remove"]
          /\ UNCHANGED <<mq, cur>>
    /\ UNCHANGED <<dfs, clientVars>>

\* RM: no entry in the KV store, nothing to do.
CommitRmGet(n) ==
    /\ cpc[n] = "get"
    /\ \/ /\ kv[Msg(n).path] = Null
          /\ CommitDone(n)
       \/ /\ kv[Msg(n).path] # Null
          /\ cpc' = [cpc EXCEPT ![n] = "remove"]
          /\ UNCHANGED <<mq, cur>>
    /\ UNCHANGED <<kv, token, dfs, clientVars>>

CommitRemove(n) ==
    /\ cpc[n] = "remove" /\ CanRemove(Msg(n).path)
    /\ dfs' = [dfs EXCEPT ![Msg(n).path] = "none"]
    /\ cpc' = [cpc EXCEPT ![n] = "del"]
    /\ UNCHANGED <<kv, token, mq, clientVars, cur>>

\* dmkv_del of the entry.
CommitRmDel(n) ==
    /\ cpc[n] = "del"
    /\ Write(Msg(n).path, Null)
    /\ CommitDone(n)
    /\ UNCHANGED <<dfs, clientVars>>

-----------------------------------------------------------------------------
ParentStep(c) ==
    \/ ParentCheck(c) \/ ParentGet(c) \/ ParentOpen(c) \/ ParentKids(c)
    \/ ParentCas(c) \/ ParentReget(c)

ClientStep(c) ==
    \/ LoadStat(c) \/ LoadAdd(c) \/ ParentStep(c)
    \/ Add(c) \/ Exists(c) \/ Reset(c) \/ Send(c)
    \/ RmGet(c) \/ RmReget(c) \/ RmCas(c) \/ RmSend(c)
    \/ Getattr(c) \/ GetattrStat(c) \/ GetattrAdd(c)
    \/ EvictStat(c) \/ EvictGet(c) \/ EvictDel(c)

CommitStep(n) ==
    \/ CommitMkdir(n) \/ CommitCreate(n)
    \/ CommitRmGet(n) \/ CommitRemove(n) \/ CommitRmDel(n)

Next ==
    \/ \E c \in Clients : Start(c) \/ ClientStep(c)
    \/ \E n \in Nodes : CommitStep(n) \/ \E c \in Clients : CommitRecv(n, c)

Spec == Init /\ [][Next]_vars

(***************************************************************************)
(* Fairness.  A call that has begun goes on, a commit thread runs and      *)
(* zmq_recv serves the connected clients fairly.  Nobody has to start a    *)
(* call.                                                                   *)
(***************************************************************************)
Fairness ==
    /\ \A c \in Clients : WF_vars(ClientStep(c)) /\ SF_vars(CommitRecv(NodeOf[c], c))
    /\ \A n \in Nodes : WF_vars(CommitStep(n))

FairSpec == Spec /\ Fairness

-----------------------------------------------------------------------------
(* Properties.                                                             *)

\* The variables have their types.
TypeOK ==
    /\ kv \in [Paths -> Entry \cup {Null}]
    /\ token \in [Clients -> Paths \cup {Null}]
    /\ dfs \in [Paths -> Kind \cup {"none"}]
    /\ mq \in [Clients -> Seq(Message)]
    /\ dirtab \in [Clients -> SUBSET Paths]
    /\ pc \in [Clients -> Steps]
    /\ call \in [Clients -> Call \cup {NoCall}]
    /\ ent \in [Clients -> Entry \cup {Null}]
    /\ kids \in [Clients -> SUBSET Paths]
    /\ load \in [Clients -> [path : Paths, type : Kind \cup {"none"}, next : Steps]]
    /\ prog \in [Clients -> Seq(Call)]
    /\ cpc \in [Nodes -> {"recv", "try", "get", "remove", "del"}]
    /\ cur \in [Nodes -> Clients \cup {Null}]

\* A slot of a queue: the last one stands for the message a client that has
\* written the entry is about to queue.
Slots == Clients \X (1 .. MaxOps + 1)

Creation(s, p) ==
    LET c == s[1]
        i == s[2]
    IN \/ i \in DOMAIN mq[c] /\ mq[c][i].path = p /\ mq[c][i].op # "RM"
       \/ i = Len(mq[c]) + 1 /\ pc[c] = "send" /\ Path(c) = p

\* Of all clients that create or make the same path, one wins: its message is
\* the only one for the path, and the path is not in the DFS before it is
\* committed (or retry_commit would repeat mkdir for ever and creat would
\* truncate a file that exists).  About Add, Exists and the commit thread.
CreatedOnce ==
    \A p \in Paths : \A s \in Slots :
        Creation(s, p) => /\ dfs[p] = "none"
                          /\ \A t \in Slots : Creation(t, p) => s = t

\* What a live entry shows is in the DFS with the same type or is about to
\* be: its creation is queued, and can be committed, because its parent is a
\* directory of the DFS or is queued itself.  About add_to_mq,
\* check_parent_dir and its local table.
ParentsAhead ==
    /\ \A p \in Paths : Live(p) => \/ dfs[p] = kv[p].type
                                   \/ \E s \in Slots : Creation(s, p)
    /\ \A p \in Paths \ {Root} : \A s \in Slots :
          Creation(s, p) => \/ dfs[Parent[p]] = "dir"
                            \/ \E t \in Slots : Creation(t, Parent[p])

\* The table of parents a client has checked is safe to rely on: the children
\* those directories have in the DFS are all cached, so dmkv_add finds them.
\* The same holds of STAT_child_check, and no check dereferences the NULL of
\* a key that vanished.  About check_parent_dir.
CheckedComplete ==
    /\ \A c \in Clients : pc[c] # "crashed"
    /\ \A p \in Paths \ {Root} : dfs[p] # "none" /\ kv[p] = Null =>
          /\ \A c \in Clients : Parent[p] \notin dirtab[c]
          /\ kv[Parent[p]] # Null => ~kv[Parent[p]].checked

\* While an entry stays in the store its type is fixed and a flag once set
\* stays set, whatever cas loops, loads and lookups run at once; only the
\* dmkv_set of a creation over a removed entry starts afresh.
FlagsSurvive ==
    [][\A p \in Paths :
          kv[p] # Null /\ kv'[p] # Null /\ kv'[p] # kv[p] =>
            \/ /\ kv'[p].type = kv[p].type /\ kv'[p].existed = kv[p].existed
               /\ kv[p].rm => kv'[p].rm
               /\ kv[p].checked => kv'[p].checked
            \/ \E c \in Clients : pc[c] = "reset" /\ Path(c) = p]_vars

Quiescent ==
    /\ \A c \in Clients : pc[c] \in {"idle", "crashed"} /\ mq[c] = <<>>
    /\ \A n \in Nodes : cpc[n] = "recv"

\* What pacon_getattr would find: the entry if there is one, else the DFS.
Visible(p) ==
    CASE kv[p] = Null -> dfs[p]
      [] kv[p] # Null /\ kv[p].rm -> "none"
      [] OTHER -> kv[p].type

\* Partial consistency: once every queue is committed, the DFS holds the
\* namespace that the clients see.
QuiescentAgreement == Quiescent => \A p \in Paths : dfs[p] = Visible(p)

\* Strong consistency inside the region: what clients see is one namespace
\* that only their mkdir, create and rm calls change, each at most once and in
\* one step (the KV write); queueing, commits, loads and evictions are
\* invisible.  It is about effects: what a call returns is not in it.
LN == INSTANCE LinearNamespace
        WITH ns <- [p \in Paths |-> Visible(p)],
             took <- [c \in Clients |-> pc[c] \in {"send", "rsend"}],
             InitNs <- {s.dfs : s \in Setups}

Linearizable == LN!Spec

\* The commit of an RM deletes the entry that was removed, never one that a
\* client has created since.
RmDeletesRemoved ==
    [][\A n \in Nodes : CommitRmDel(n) => ~Live(Msg(n).path)]_vars

\* What the application has still to call gives every name one life: it is
\* created at most once, and only if it is not there; removed at most once, and
\* only as a file; and no entry is evicted or queued twice.
OneLife ==
    LET Life(op) == IF op \in {"create", "mkdir"} THEN "made" ELSE op
    IN  \A c \in Clients : \A i \in DOMAIN prog[c] :
          LET k == prog[c][i] IN
          /\ k.op \notin {"evict", "create_write"}
          /\ Life(k.op) = "made" => dfs[k.path] = "none"
          /\ k.op = "rm" => dfs[k.path] # "dir"
          /\ Life(k.op) \in {"made", "rm"} =>
                \A d \in Clients : \A j \in DOMAIN prog[d] :
                    prog[d][j].path = k.path /\ Life(prog[d][j].op) = Life(k.op) => c = d /\ i = j

\* If names have one life, every commit thread finishes the message it has
\* taken, although retry_commit repeats until the parent is there.
CommitsEnd == OneLife => \A n \in Nodes : cpc[n] # "recv" ~> cpc[n] = "recv"

\* If names have one life, a removed entry leaves the cache, and then the file
\* is not in the DFS.
RemovalEnds ==
    OneLife => \A p \in Paths :
        (kv[p] # Null /\ ~Live(p)) ~> (kv[p] = Null /\ dfs[p] = "none")
=============================================================================
