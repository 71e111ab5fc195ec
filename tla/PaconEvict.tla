----------------------------- MODULE PaconEvict -----------------------------
(***************************************************************************)
(* Eviction of cached metadata: evict_metadata_explicit of the client      *)
(* library, called in rounds as the notes of pacon.h show: all clients     *)
(* come to the barrier for eviction, each announces a cluster barrier, and *)
(* the ones over their threshold evict.  An evicting client takes a lock   *)
(* kept in the KV store, reads how far the evictions before it came        *)
(* (evict_record), lists the workspace with pacon_opendir, which its       *)
(* server answers when all nodes have stopped at the barrier, drops the    *)
(* cached entries of the next file or directory in the list, stores the    *)
(* new record and frees the lock.                                          *)
(*                                                                         *)
(* Clients also remove files (pacon_rm marks the entry, the commit thread  *)
(* removes the file and then the entry) and read entries back from the     *)
(* DFS.  One action is one call on the KV store, the DFS, the queue or the *)
(* server; the barrier is reduced to what PaconBarrier proves of it (a     *)
(* node stops when all its clients have announced).  External: memcached,  *)
(* whose calls fail only where the key is missing, the DFS and the order   *)
(* in which readdir lists it.                                              *)
(***************************************************************************)
EXTENDS Integers, Sequences, FiniteSets

CONSTANTS
    Clients, Nodes, NodeOf,
    Files,      \* the files of the workspace
    Dirs,       \* the directories under its root
    DirOf,      \* the directory a file is in, or Null for the root
    Order,      \* the order in which readdir lists the root
    Null,       \* no entry, no client
    MaxRounds,  \* bound: rounds of evictions
    MaxQueue    \* bound: messages a client queues before it waits

Retry == "retry"

Top == {f \in Files : DirOf[f] = Null} \cup Dirs

ASSUME EvictAssumption ==
    /\ NodeOf \in [Clients -> Nodes]
    /\ DirOf \in [Files -> Dirs \cup {Null}]
    /\ Null \notin Files \cup Dirs \cup {Retry} /\ Retry \notin Files /\ Files \cap Dirs = {}
    /\ Order \in Seq(Top)
    /\ MaxRounds \in Nat /\ MaxQueue \in Nat

VARIABLES
    evict_lock,    \* KV: "0" free, "1" taken
    token,         \* clients whose cas value of evict_lock is current
    evict_record,  \* KV: the number stored last, or Unset, the string "?"
    kv,            \* KV: per file "none", "live" or "rm"
    dfs,           \* the files of the DFS
    mq,            \* per client: its commit queue
    gone,          \* per node: the file whose RM is half done (the DFS removed
                   \* it, the entry is next), Retry (retry_commit), or Null
    passed,        \* clients whose announcement of this round was counted
    ops,           \* KV: barrier operations of this round that have not ended
    round,         \* rounds of evictions begun
    who,           \* the clients that evict in this round
    pc,            \* per client: the next step of its call
    rr,            \* per client: its copy of the record
    sel,           \* per client: the file it looks at, or Null
    rest,          \* per client: files of the directory still to visit
    synced         \* TRUE: the application waits (MPI_Barrier) and does
                   \* nothing else while a client evicts

Unset == -1

cacheVars == <<kv, dfs>>
serverVars == <<mq, gone, passed, ops>>
appVars == <<round, who, synced>>
vars == <<evict_lock, token, evict_record, cacheVars, serverVars, appVars, pc, rr, sel, rest>>

Message == [op : {"rm"}, file : Files] \cup [op : {"barrier"}, opt : {0, 1}]

\* The steps of an eviction that holds the lock.
Critical == {"record", "opendir", "request", "list", "stat", "test", "del", "visit", "dtest", "ddel", "put", "free"}

\* init_pacon stores "0" and "?"; the files are cached, or only in the DFS.
Init ==
    /\ evict_lock = "0" /\ token = {}
    /\ evict_record = Unset
    /\ kv \in [Files -> {"none", "live"}]
    /\ dfs = Files
    /\ mq = [c \in Clients |-> <<>>] /\ gone = [n \in Nodes |-> Null]
    /\ passed = {} /\ ops = 0
    /\ round = 0 /\ who = {}
    /\ pc = [c \in Clients |-> "idle"]
    /\ rr = [c \in Clients |-> 0]
    /\ sel = [c \in Clients |-> Null]
    /\ rest = [c \in Clients |-> {}]
    /\ synced \in BOOLEAN

\* The record as a number: atoi of "?" is 0.
Atoi(s) == IF s = Unset THEN 0 ELSE s
Go(c, step) == pc' = [pc EXCEPT ![c] = step]

-----------------------------------------------------------------------------
(* The application, by the example in pacon.h.                             *)

\* "barrier for eviction": all clients are there, and some rank exceeds its
\* threshold (external).
NextRound ==
    /\ round < MaxRounds /\ \A c \in Clients : pc[c] = "idle"
    /\ round' = round + 1
    /\ who' \in SUBSET Clients \ {{}}
    /\ pc' = [c \in Clients |-> "announce"]
    /\ UNCHANGED <<evict_lock, token, evict_record, cacheVars, serverVars, rr, sel, rest, synced>>

Send(c, m) == mq' = [mq EXCEPT ![c] = Append(@, m)]

\* pacon_barrier(1) and the call of an evicting client, pacon_barrier(0) of
\* the others.
Announce(c) ==
    /\ pc[c] = "announce"
    /\ Send(c, [op |-> "barrier", opt |-> IF c \in who THEN 1 ELSE 0])
    /\ Go(c, IF c \in who THEN "get" ELSE "idle")
    /\ UNCHANGED <<evict_lock, token, evict_record, cacheVars, gone, passed, ops, appVars, rr, sel,
                   rest>>

\* The application may do something else.
MayAct(c) == pc[c] = "idle" /\ (synced => \A d \in Clients : pc[d] = "idle")

\* pacon_rm: the entry is marked and RM queued.
MarkRemoved(c, f) ==
    /\ MayAct(c) /\ Len(mq[c]) < MaxQueue
    /\ kv[f] = "live"
    /\ kv' = [kv EXCEPT ![f] = "rm"]
    /\ Send(c, [op |-> "rm", file |-> f])
    /\ UNCHANGED <<evict_lock, token, evict_record, dfs, gone, passed, ops, appVars, pc, rr, sel,
                   rest>>

\* load_to_pacon, as one step.
Reload(c, f) ==
    /\ MayAct(c)
    /\ kv[f] = "none" /\ f \in dfs
    /\ kv' = [kv EXCEPT ![f] = "live"]
    /\ UNCHANGED <<evict_lock, token, evict_record, dfs, serverVars, appVars, pc, rr, sel, rest>>

-----------------------------------------------------------------------------
(* evict_metadata_explicit.                                                *)

\* retry: dmkv_get_cas until the lock is free.
GetLock(c) ==
    /\ pc[c] = "get" /\ evict_lock = "0"
    /\ token' = token \cup {c}
    /\ Go(c, "cas")
    /\ UNCHANGED <<evict_lock, evict_record, cacheVars, serverVars, appVars, rr, sel, rest>>

\* Mutant of CasLock: a set instead of a cas.
CasLockBlind(c) ==
    /\ pc[c] = "cas"
    /\ evict_lock' = "1" /\ token' = {}
    /\ Go(c, "record")
    /\ UNCHANGED <<evict_record, cacheVars, serverVars, appVars, rr, sel, rest>>

\* dmkv_cas to "1"; a cas value that is outdated means trying again.
CasLock(c) ==
    /\ pc[c] = "cas"
    /\ \/ /\ c \in token
          /\ evict_lock' = "1" /\ token' = {}
          /\ Go(c, "record")
       \/ /\ c \notin token
          /\ Go(c, "get")
          /\ UNCHANGED <<evict_lock, token>>
    /\ UNCHANGED <<evict_record, cacheVars, serverVars, appVars, rr, sel, rest>>

ReadRecord(c) ==
    /\ pc[c] = "record"
    /\ rr' = [rr EXCEPT ![c] = Atoi(evict_record)]
    /\ Go(c, "opendir")
    /\ UNCHANGED <<evict_lock, token, evict_record, cacheVars, serverVars, appVars, sel, rest>>

\* pacon_opendir of the workspace, whose entry is cached: add_to_local_rpc.
Opendir(c) ==
    /\ pc[c] = "opendir"
    /\ Go(c, "request")
    /\ UNCHANGED <<evict_lock, token, evict_record, cacheVars, serverVars, appVars, rr, sel, rest>>

\* What readdir lists of the root: "." and ".." are skipped.
Listing == SelectSeq(Order, LAMBDA e : e \in Dirs \cup dfs)

\* opendir and the readdir loop up to entry number rr, after the answer of the
\* server, when the barrier may be lifted already.
List(c) ==
    /\ pc[c] = "list"
    /\ \/ /\ rr[c] >= Len(Listing)
          /\ Go(c, "put")
          /\ UNCHANGED <<rr, sel, rest>>
       \/ /\ rr[c] < Len(Listing)
          /\ rr' = [rr EXCEPT ![c] = @ + 1]
          /\ \/ /\ Listing[rr[c] + 1] \in Files
                /\ sel' = [sel EXCEPT ![c] = Listing[rr[c] + 1]]
                /\ Go(c, "stat")
                /\ UNCHANGED rest
             \/ /\ Listing[rr[c] + 1] \in Dirs
                /\ rest' = [rest EXCEPT ![c] =
                              {f \in dfs : DirOf[f] = Listing[rr[c] + 1]}]
                /\ Go(c, "visit")
                /\ UNCHANGED sel
    /\ UNCHANGED <<evict_lock, token, evict_record, cacheVars, serverVars, appVars>>

\* flush_file_new: stat; a file that is gone needs nothing.
Stat(c) ==
    /\ pc[c] = "stat"
    /\ Go(c, IF sel[c] \in dfs THEN "test" ELSE "put")
    /\ UNCHANGED <<evict_lock, token, evict_record, cacheVars, serverVars, appVars, rr, sel, rest>>

\* test_entry_exist: only an entry that is cached and not marked is dropped.
TestEntryExist(c) ==
    /\ \/ pc[c] = "test" /\ Go(c, IF kv[sel[c]] = "live" THEN "del" ELSE "put")
       \/ pc[c] = "dtest" /\ Go(c, IF kv[sel[c]] = "live" THEN "ddel" ELSE "visit")
    /\ UNCHANGED <<evict_lock, token, evict_record, cacheVars, serverVars, appVars, rr, sel, rest>>

\* dmkv_del of the file's entry.  If it is gone by now the call returns -1
\* at once, and the lock stays taken.
DelFile(c) ==
    /\ pc[c] = "del"
    /\ \/ /\ kv[sel[c]] # "none"
          /\ kv' = [kv EXCEPT ![sel[c]] = "none"]
          /\ Go(c, "put")
       \/ /\ kv[sel[c]] = "none"
          /\ Go(c, "idle")
          /\ UNCHANGED kv
    /\ sel' = [sel EXCEPT ![c] = Null]
    /\ UNCHANGED <<evict_lock, token, evict_record, dfs, serverVars, appVars, rr, rest>>

\* flush_dir_new: the next file of the directory, in any order.
VisitDir(c) ==
    /\ pc[c] = "visit"
    /\ \/ \E f \in rest[c] :
             /\ sel' = [sel EXCEPT ![c] = f]
             /\ rest' = [rest EXCEPT ![c] = @ \ {f}]
             /\ Go(c, "dtest")
       \/ /\ rest[c] = {}
          /\ Go(c, "put")
          /\ UNCHANGED <<sel, rest>>
    /\ UNCHANGED <<evict_lock, token, evict_record, cacheVars, serverVars, appVars, rr>>

\* dmkv_del in flush_dir_new; its result is not looked at.
DelInDir(c) ==
    /\ pc[c] = "ddel"
    /\ kv' = [kv EXCEPT ![sel[c]] = "none"]
    /\ sel' = [sel EXCEPT ![c] = Null]
    /\ Go(c, "visit")
    /\ UNCHANGED <<evict_lock, token, evict_record, dfs, serverVars, appVars, rr, rest>>

PutRecord(c) ==
    /\ pc[c] = "put"
    /\ evict_record' = rr[c]
    /\ Go(c, "free")
    /\ UNCHANGED <<evict_lock, token, cacheVars, serverVars, appVars, rr, sel, rest>>


FreeLock(c) ==
    /\ pc[c] = "free"
    /\ evict_lock' = "0" /\ token' = {}
    /\ sel' = [sel EXCEPT ![c] = Null]
    /\ Go(c, "idle")
    /\ UNCHANGED <<evict_record, cacheVars, serverVars, appVars, rr, rest>>

-----------------------------------------------------------------------------
(* The server.                                                             *)

Stopped(n) == {c \in Clients : NodeOf[c] = n} \subseteq passed

\* The commit thread of client c's node takes the next message m of c.
Takes(c, m) ==
    /\ gone[NodeOf[c]] = Null /\ ~Stopped(NodeOf[c])
    /\ mq[c] # <<>> /\ m = Head(mq[c])
    /\ mq' = [mq EXCEPT ![c] = Tail(@)]

\* commit_to_fs of BARRIER: the operation is counted, the last client of the
\* node stops it.
CommitBarrier(c, m) ==
    /\ m.op = "barrier" /\ Takes(c, m)
    /\ ops' = ops + m.opt
    /\ passed' = passed \cup {c}
    /\ UNCHANGED <<evict_lock, token, evict_record, cacheVars, gone, appVars, pc, rr, sel, rest>>


\* commit_to_fs of RM: an entry that is not there any more ends the commit,
\* for a file that is not there retry_commit repeats remove(3) for ever.
CommitRm(c, m) ==
    /\ m.op = "rm" /\ Takes(c, m)
    /\ \/ kv[m.file] = "none" /\ UNCHANGED <<dfs, gone>>
       \/ /\ kv[m.file] # "none" /\ m.file \in dfs
          /\ dfs' = dfs \ {m.file}
          /\ gone' = [gone EXCEPT ![NodeOf[c]] = m.file]
       \/ /\ kv[m.file] # "none" /\ m.file \notin dfs
          /\ gone' = [gone EXCEPT ![NodeOf[c]] = Retry]
          /\ UNCHANGED dfs
    /\ UNCHANGED <<evict_lock, token, evict_record, kv, passed, ops, appVars, pc, rr, sel, rest>>

CommitRmDel(n) ==
    /\ gone[n] \in Files
    /\ kv' = [kv EXCEPT ![gone[n]] = "none"]
    /\ gone' = [gone EXCEPT ![n] = Null]
    /\ UNCHANGED <<evict_lock, token, evict_record, dfs, mq, passed, ops, appVars, pc, rr, sel, rest>>

\* commit_to_fs_barrier of READDIR: it waits until all nodes have stopped, and
\* the last operation lifts the barrier.
ServeReaddir(c) ==
    /\ pc[c] = "request" /\ \A n \in Nodes : Stopped(n)
    /\ ops' = ops - 1
    /\ passed' = IF ops = 1 THEN {} ELSE passed
    /\ Go(c, "list")
    /\ UNCHANGED <<evict_lock, token, evict_record, cacheVars, mq, gone, appVars, rr, sel, rest>>

-----------------------------------------------------------------------------
Evict(c) ==
    \/ GetLock(c) \/ CasLock(c) \/ ReadRecord(c) \/ Opendir(c) \/ List(c) \/ Stat(c)
    \/ TestEntryExist(c) \/ DelFile(c) \/ VisitDir(c) \/ DelInDir(c)
    \/ PutRecord(c) \/ FreeLock(c)

Calls(c) == Announce(c) \/ Evict(c)

Commit(c) == \E m \in Message : CommitBarrier(c, m) \/ CommitRm(c, m)

Server(c) == Commit(c) \/ ServeReaddir(c)

Next ==
    \/ NextRound
    \/ \E c \in Clients : Calls(c) \/ Server(c) \/ \E f \in Files : MarkRemoved(c, f) \/ Reload(c, f)
    \/ \E n \in Nodes : CommitRmDel(n)

Spec == Init /\ [][Next]_vars

(***************************************************************************)
(* Fairness.  A client in the call runs and threads run; the commit thread *)
(* polls the queues of its clients, which the commits of the others may    *)
(* interrupt.  The lock is not queued: that a client gets it follows from  *)
(* the bound on the clients of a round.                                    *)
(***************************************************************************)
Fairness ==
    /\ \A c \in Clients : WF_vars(Calls(c)) /\ SF_vars(Commit(c)) /\ WF_vars(ServeReaddir(c))
    /\ \A n \in Nodes : WF_vars(CommitRmDel(n))

FairSpec == Spec /\ Fairness

-----------------------------------------------------------------------------
(* Properties.                                                             *)

\* The variables have their types: the record is a number once it was stored.
TypeOK ==
    /\ evict_lock \in {"0", "1"}
    /\ token \in SUBSET Clients
    /\ evict_record \in Nat \cup {Unset}
    /\ kv \in [Files -> {"none", "live", "rm"}]
    /\ dfs \in SUBSET Files
    /\ mq \in [Clients -> Seq(Message)]
    /\ gone \in [Nodes -> Files \cup {Null, Retry}]
    /\ passed \in SUBSET Clients /\ ops \in Int
    /\ round \in 0 .. MaxRounds /\ who \in SUBSET Clients
    /\ pc \in [Clients -> {"idle", "announce", "get", "cas"} \cup Critical]
    /\ rr \in [Clients -> Nat]
    /\ sel \in [Clients -> Files \cup {Null}]
    /\ rest \in [Clients -> SUBSET Files]
    /\ synced \in BOOLEAN

Holds(c) == pc[c] \in Critical

\* The cas loop on evict_lock keeps evictions apart: two clients never work
\* on the record and the cache at the same time, although the lock is freed
\* without a cas.
EvictExclusive ==
    \A c, d \in Clients : Holds(c) /\ Holds(d) => c = d

\* A current cas value was read from a free lock; a client in the critical
\* steps has the lock, alone.
LockInv ==
    /\ token # {} => evict_lock = "0"
    /\ \A c \in Clients : Holds(c) => evict_lock = "1"
    /\ EvictExclusive

\* The copy of the record a client works with is the record, or the next.
RecordInv ==
    \A c \in Clients :
        /\ pc[c] \in {"opendir", "request", "list"} => rr[c] = Atoi(evict_record)
        /\ pc[c] \in {"stat", "test", "del", "visit", "dtest", "ddel", "put"} =>
              rr[c] \in {Atoi(evict_record), Atoi(evict_record) + 1}

\* The inductive invariant of the eviction lock: whoever works on the record
\* got the lock by its cas, alone, and its copy of the record is not stale.
EvictInv == TypeOK /\ LockInv /\ RecordInv

\* No eviction is lost or done twice: the record moves to the next entry or
\* stays, never back, because it is written by the client that read it last.
RecordInStep ==
    [][evict_record' # evict_record =>
          Atoi(evict_record') \in {Atoi(evict_record), Atoi(evict_record) + 1}]_vars

\* What clients see of file f: its entry, or else the DFS.
Seen(f) == IF kv[f] = "none" THEN f \in dfs ELSE kv[f] = "live"


\* What keeps later evictions from ending: the lock is taken by nobody, because
\* an eviction found its entry gone between test_entry_exist and dmkv_del, or a
\* commit thread repeats the removal of a file that another one has removed.
Stuck ==
    \/ evict_lock = "1" /\ \A c \in Clients : ~Holds(c)
    \/ \E n \in Nodes : gone[n] = Retry

=============================================================================
