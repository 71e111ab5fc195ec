---------------------------- MODULE PaconBarrier ----------------------------
(***************************************************************************)
(* The cluster barrier of Pacon.  Every client announces the k-th barrier  *)
(* in its own commit message queue (pacon_barrier); the commit thread of   *)
(* its node counts the announcements and stops at the barrier; a client    *)
(* that announced opt_num > 0 barrier operations (rmdir, rename, ...) then *)
(* calls its local server once per operation, and the local RPC thread     *)
(* waits until every node has stopped, runs the operation and, after the   *)
(* last one in the cluster, lifts the barrier everywhere.                  *)
(*                                                                         *)
(* Threads of one server process share barrier[], barrier_info and         *)
(* waiting_barrier_id without locks; nodes share the flags and the counts  *)
(* kept in the KV store.  One action is one access to shared state.        *)
(* External: ZeroMQ (PUB/SUB queues without loss, REQ/REP calls) and       *)
(* memcached (get_cas/cas).  Calls to memcached are taken to succeed.      *)
(***************************************************************************)
EXTENDS Integers, Sequences, FiniteSets

CONSTANTS
    Clients,       \* the application processes
    Nodes,         \* the nodes, one server each
    NodeOf,        \* the node a client runs on
    None,          \* no client, no node
    Rounds,        \* bound: barriers each client announces
    OptNum,        \* OptNum[k][c]: the opt_num client c passes to its k-th barrier
    BarrierIdMax,  \* BARRIER_ID_MAX: size of the barrier arrays
    MaxQueue,      \* bound: messages in one client's queue
    Sync           \* TRUE: the application waits, before its next barrier,
                   \* until every barrier operation of the last one returned

MaxOpt == 9        \* commit_to_fs finds the id at path+2: opt_num has one digit

ASSUME ConstantsAssumption ==
    /\ IsFiniteSet(Clients) /\ Clients # {}
    /\ IsFiniteSet(Nodes)
    /\ NodeOf \in [Clients -> Nodes]
    /\ \A n \in Nodes : \E c \in Clients : NodeOf[c] = n
    /\ None \notin Clients \cup Nodes
    /\ BarrierIdMax \in Nat \ {0}
    /\ Rounds \in 0 .. BarrierIdMax
    /\ MaxQueue \in Nat
    /\ OptNum \in [1 .. Rounds -> [Clients -> 0 .. MaxOpt]]
    /\ Sync \in BOOLEAN

VARIABLES
    current_barrier_id,  \* per client: barriers announced so far
    todo,                \* per client: barrier operations announced and not ended
    calling,             \* clients blocked in add_to_local_rpc
    mq,                  \* per client: its commit queue; the message being
                         \* committed stays at the head until it is done
    barrier,             \* per node and barrier index: barrier[]
    barrier_info,        \* per node and barrier index: announcements counted
    waiting_barrier_id,  \* per node: index of the barrier to stop at next
    flag,                \* KV: per node and barrier index, "node has stopped"
    opt_count,           \* KV: per barrier index, operations not yet ended
    token,               \* KV: per barrier index, threads whose cas value is current
    cpc, cur, cval,      \* commit threads: step, client served, count read
    rpc, serving, poll, rval, tell, out,  \* local RPC threads
    xserv                \* cluster RPC threads: the node whose DEL_BARRIER is
                         \* half done, or None

clientVars  == <<current_barrier_id, todo, calling>>
nodeVars    == <<barrier, barrier_info, waiting_barrier_id>>
kvVars      == <<flag, opt_count, token>>
commitVars  == <<cpc, cur, cval>>
rpcVars     == <<rpc, serving, poll, rval, tell, out>>
vars == <<clientVars, mq, nodeVars, kvVars, commitVars, rpcVars, xserv>>

Index   == 0 .. BarrierIdMax - 1
Threads == {"commit", "rpc"} \X Nodes
ClientsOn(n) == {c \in Clients : NodeOf[c] = n}

\* Messages.  The id of an OP is the number of barriers its client announced
\* before it: a label that only the properties read.
OP(k) == [type |-> "OP", opt |-> 0, id |-> k]
BARRIER(o, k) == [type |-> "BARRIER", opt |-> o, id |-> k]
Message == [type : {"OP", "BARRIER"}, opt : 0 .. MaxOpt, id : 0 .. Rounds]

Init ==
    /\ current_barrier_id = [c \in Clients |-> 0]
    /\ todo = [c \in Clients |-> 0]
    /\ calling = {}
    /\ mq = [c \in Clients |-> <<>>]
    /\ barrier = [n \in Nodes |-> [b \in Index |-> 0]]
    /\ barrier_info = [n \in Nodes |-> [b \in Index |-> 0]]
    /\ waiting_barrier_id = [n \in Nodes |-> 0]
    /\ flag = [n \in Nodes |-> [b \in Index |-> 0]]
    /\ opt_count = [b \in Index |-> 0]
    /\ token = [b \in Index |-> {}]
    /\ cpc = [n \in Nodes |-> "recv"]
    /\ cur = [n \in Nodes |-> None]
    /\ cval = [n \in Nodes |-> 0]
    /\ rpc = [n \in Nodes |-> "recv"]
    /\ serving = [n \in Nodes |-> None]
    /\ poll = [n \in Nodes |-> {}]
    /\ rval = [n \in Nodes |-> 0]
    /\ tell = [n \in Nodes |-> {}]
    /\ out = [n \in Nodes |-> None]
    /\ xserv = [n \in Nodes |-> None]

-----------------------------------------------------------------------------
(* The client library.                                                     *)

\* Any operation committed through the queue (create, mkdir, rm, write).
SendOp(c) ==
    /\ c \notin calling
    /\ Len(mq[c]) < MaxQueue
    /\ mq' = [mq EXCEPT ![c] = Append(@, OP(current_barrier_id[c]))]
    /\ UNCHANGED <<clientVars, nodeVars, kvVars, commitVars, rpcVars, xserv>>

\* The application is at its k-th barrier and the others may be behind.
AppMayBarrier(c) ==
    /\ c \notin calling /\ todo[c] = 0
    /\ current_barrier_id[c] < Rounds
    /\ Sync => \A d \in Clients :
                  /\ current_barrier_id[d] >= current_barrier_id[c]
                  /\ current_barrier_id[d] = current_barrier_id[c] =>
                        todo[d] = 0 /\ d \notin calling

\* pacon_barrier: past BARRIER_ID_MAX the id still grows, the message is dropped.
pacon_barrier(c) ==
    LET k == current_barrier_id[c] + 1
    IN /\ AppMayBarrier(c)
       /\ current_barrier_id' = [current_barrier_id EXCEPT ![c] = k]
       /\ todo' = [todo EXCEPT ![c] = OptNum[k][c]]
       /\ \/ /\ k >= BarrierIdMax
             /\ UNCHANGED mq
          \/ /\ k < BarrierIdMax
             /\ Len(mq[c]) < MaxQueue
             /\ mq' = [mq EXCEPT ![c] = Append(@, BARRIER(OptNum[k][c], k))]
       /\ UNCHANGED <<calling, nodeVars, kvVars, commitVars, rpcVars, xserv>>

\* The request half of add_to_local_rpc; the request carries current_barrier_id.
add_to_local_rpc(c) ==
    /\ c \notin calling /\ todo[c] > 0
    /\ calling' = calling \cup {c}
    /\ UNCHANGED <<current_barrier_id, todo, mq, nodeVars, kvVars, commitVars,
                   rpcVars, xserv>>

-----------------------------------------------------------------------------
(* The commit thread: listen_commit_mq and commit_to_fs.                   *)

Msg(n) == Head(mq[cur[n]])
MsgIndex(n) == Msg(n).id - 1

\* zmq_recv takes the next message of one of the node's clients.
CommitRecv(n, c) ==
    /\ cpc[n] = "recv" /\ NodeOf[c] = n /\ mq[c] # <<>>
    /\ cur' = [cur EXCEPT ![n] = c]
    /\ cpc' = [cpc EXCEPT ![n] = "spin"]
    /\ UNCHANGED <<clientVars, mq, nodeVars, kvVars, cval, rpcVars, xserv>>

\* Mutant of CommitSpin: the commit thread does not stop at a barrier.
CommitSpinNot(n) ==
    /\ cpc[n] = "spin"
    /\ cpc' = [cpc EXCEPT ![n] = IF Msg(n).type = "OP" THEN "apply"
                                 ELSE IF Msg(n).opt # 0 THEN "get" ELSE "count"]
    /\ UNCHANGED <<clientVars, mq, nodeVars, kvVars, cur, cval, rpcVars, xserv>>

\* while (barrier[waiting_barrier_id] == 1);  then the switch on the type.
CommitSpin(n) ==
    /\ cpc[n] = "spin"
    /\ barrier[n][waiting_barrier_id[n]] # 1
    /\ \/ Msg(n).type = "OP" /\ cpc' = [cpc EXCEPT ![n] = "apply"]
       \/ Msg(n).type = "BARRIER" /\ Msg(n).opt # 0 /\ cpc' = [cpc EXCEPT ![n] = "get"]
       \/ Msg(n).type = "BARRIER" /\ Msg(n).opt = 0 /\ cpc' = [cpc EXCEPT ![n] = "count"]
    /\ UNCHANGED <<clientVars, mq, nodeVars, kvVars, cur, cval, rpcVars, xserv>>

\* Committing the operation to the file system, as one step.
CommitApply(n) ==
    /\ cpc[n] = "apply"
    /\ mq' = [mq EXCEPT ![cur[n]] = Tail(@)]
    /\ cur' = [cur EXCEPT ![n] = None]
    /\ cpc' = [cpc EXCEPT ![n] = "recv"]
    /\ UNCHANGED <<clientVars, nodeVars, kvVars, cval, rpcVars, xserv>>

\* getoptc: dmkv_get_cas of the operation count.
CommitGetCas(n) ==
    /\ cpc[n] = "get"
    /\ cval' = [cval EXCEPT ![n] = opt_count[MsgIndex(n)]]
    /\ token' = [token EXCEPT ![MsgIndex(n)] = @ \cup {<<"commit", n>>}]
    /\ cpc' = [cpc EXCEPT ![n] = "cas"]
    /\ UNCHANGED <<clientVars, mq, nodeVars, flag, opt_count, cur, rpcVars, xserv>>

\* Mutant of CommitCas: the count is set without cas.
CommitCasBlind(n) ==
    /\ cpc[n] = "cas"
    /\ opt_count' = [opt_count EXCEPT ![MsgIndex(n)] = cval[n] + Msg(n).opt]
    /\ token' = [token EXCEPT ![MsgIndex(n)] = {}]
    /\ cpc' = [cpc EXCEPT ![n] = "count"]
    /\ UNCHANGED <<clientVars, mq, nodeVars, flag, cur, cval, rpcVars, xserv>>

\* dmkv_cas of the increased count; another write since the get makes it fail.
CommitCas(n) ==
    /\ cpc[n] = "cas"
    /\ \/ /\ <<"commit", n>> \in token[MsgIndex(n)]
          /\ opt_count' = [opt_count EXCEPT ![MsgIndex(n)] = cval[n] + Msg(n).opt]
          /\ token' = [token EXCEPT ![MsgIndex(n)] = {}]
          /\ cpc' = [cpc EXCEPT ![n] = "count"]
       \/ /\ <<"commit", n>> \notin token[MsgIndex(n)]
          /\ cpc' = [cpc EXCEPT ![n] = "get"]
          /\ UNCHANGED <<opt_count, token>>
    /\ UNCHANGED <<clientVars, mq, nodeVars, flag, cur, cval, rpcVars, xserv>>

\* Mutant of CommitCount: the first announcement stops the node.
CommitCountFirst(n) ==
    LET b == MsgIndex(n)
    IN /\ cpc[n] = "count"
       /\ barrier_info' = [barrier_info EXCEPT ![n][b] = @ + 1]
       /\ barrier' = [barrier EXCEPT ![n][b] = 1]
       /\ cpc' = [cpc EXCEPT ![n] = "flag"]
       /\ UNCHANGED <<clientVars, mq, waiting_barrier_id, kvVars, cur, cval, rpcVars, xserv>>

\* One more client of this node reached the barrier; the last one stops it.
CommitCount(n) ==
    LET b == MsgIndex(n)
        count == barrier_info[n][b] + 1
    IN /\ cpc[n] = "count"
       /\ barrier_info' = [barrier_info EXCEPT ![n][b] = count]
       /\ \/ /\ count = Cardinality(ClientsOn(n))
             /\ barrier' = [barrier EXCEPT ![n][b] = 1]
             /\ cpc' = [cpc EXCEPT ![n] = "flag"]
             /\ UNCHANGED <<mq, cur>>
          \/ /\ count # Cardinality(ClientsOn(n))
             /\ mq' = [mq EXCEPT ![cur[n]] = Tail(@)]
             /\ cur' = [cur EXCEPT ![n] = None]
             /\ cpc' = [cpc EXCEPT ![n] = "recv"]
             /\ UNCHANGED barrier
       /\ UNCHANGED <<clientVars, waiting_barrier_id, kvVars, cval, rpcVars, xserv>>

\* Mutant of CommitFlag: the other nodes are not told.
CommitFlagNot(n) ==
    /\ cpc[n] = "flag"
    /\ mq' = [mq EXCEPT ![cur[n]] = Tail(@)]
    /\ cur' = [cur EXCEPT ![n] = None]
    /\ cpc' = [cpc EXCEPT ![n] = "recv"]
    /\ UNCHANGED <<clientVars, nodeVars, kvVars, cval, rpcVars, xserv>>

\* dmkv_set(b_key, "1"): the other nodes learn that this one has stopped.
CommitFlag(n) ==
    /\ cpc[n] = "flag"
    /\ flag' = [flag EXCEPT ![n][MsgIndex(n)] = 1]
    /\ mq' = [mq EXCEPT ![cur[n]] = Tail(@)]
    /\ cur' = [cur EXCEPT ![n] = None]
    /\ cpc' = [cpc EXCEPT ![n] = "recv"]
    /\ UNCHANGED <<clientVars, nodeVars, opt_count, token, cval, rpcVars, xserv>>

-----------------------------------------------------------------------------
(* The local RPC thread: listen_local_rpc and commit_to_fs_barrier.        *)

\* The barrier index of the request: atoi of its prefix, minus one.
RpcIndex(n) == current_barrier_id[serving[n]] - 1

RpcRecv(n, c) ==
    /\ rpc[n] = "recv" /\ NodeOf[c] = n /\ c \in calling
    /\ serving' = [serving EXCEPT ![n] = c]
    /\ rpc' = [rpc EXCEPT ![n] = "local"]
    /\ UNCHANGED <<clientVars, mq, nodeVars, kvVars, commitVars, poll, rval, tell,
                   out, xserv>>

\* broadcast_barrier_begin_new: while (barrier[opt_barrier_id] == 0);
RpcLocal(n) ==
    /\ rpc[n] = "local"
    /\ barrier[n][RpcIndex(n)] # 0
    /\ poll' = [poll EXCEPT ![n] = Nodes \ {n}]
    /\ rpc' = [rpc EXCEPT ![n] = "poll"]
    /\ UNCHANGED <<clientVars, mq, nodeVars, kvVars, commitVars, serving, rval, tell,
                   out, xserv>>

\* Mutant of RpcPoll: the flag of the other node is not waited for.
RpcPollNot(n, m) ==
    /\ rpc[n] = "poll" /\ m \in poll[n]
    /\ poll' = [poll EXCEPT ![n] = @ \ {m}]
    /\ UNCHANGED <<clientVars, mq, nodeVars, kvVars, commitVars, rpc, serving, rval,
                   tell, out, xserv>>

\* ... then it waits for the flag of every other node (in any order here).
RpcPoll(n, m) ==
    /\ rpc[n] = "poll" /\ m \in poll[n]
    /\ flag[m][RpcIndex(n)] = 1
    /\ poll' = [poll EXCEPT ![n] = @ \ {m}]
    /\ UNCHANGED <<clientVars, mq, nodeVars, kvVars, commitVars, rpc, serving, rval,
                   tell, out, xserv>>

\* Every node has stopped: the barrier operation runs in this state.
Executing(n) == rpc[n] = "poll" /\ poll[n] = {}

RpcExec(n) ==
    /\ Executing(n)
    /\ rpc' = [rpc EXCEPT ![n] = "get"]
    /\ UNCHANGED <<clientVars, mq, nodeVars, kvVars, commitVars, serving, poll, rval,
                   tell, out, xserv>>

\* broadcast_barrier_end_new: dmkv_get_cas of the operation count.
RpcGetCas(n) ==
    /\ rpc[n] = "get"
    /\ rval' = [rval EXCEPT ![n] = opt_count[RpcIndex(n)]]
    /\ token' = [token EXCEPT ![RpcIndex(n)] = @ \cup {<<"rpc", n>>}]
    /\ rpc' = [rpc EXCEPT ![n] = "cas"]
    /\ UNCHANGED <<clientVars, mq, nodeVars, flag, opt_count, commitVars, serving,
                   poll, tell, out, xserv>>

\* dmkv_cas of the decreased count; the operation that reaches zero lifts the barrier.
RpcCas(n) ==
    /\ rpc[n] = "cas"
    /\ \/ /\ <<"rpc", n>> \in token[RpcIndex(n)]
          /\ opt_count' = [opt_count EXCEPT ![RpcIndex(n)] = rval[n] - 1]
          /\ token' = [token EXCEPT ![RpcIndex(n)] = {}]
          /\ todo' = [todo EXCEPT ![serving[n]] = @ - 1]
          /\ rpc' = [rpc EXCEPT ![n] = IF rval[n] - 1 = 0 THEN "lift" ELSE "reply"]
       \/ /\ <<"rpc", n>> \notin token[RpcIndex(n)]
          /\ rpc' = [rpc EXCEPT ![n] = "get"]
          /\ UNCHANGED <<opt_count, token, todo>>
    /\ UNCHANGED <<current_barrier_id, calling, mq, nodeVars, flag, commitVars, serving,
                   poll, rval, tell, out, xserv>>

RpcLift(n) ==
    /\ rpc[n] = "lift"
    /\ barrier' = [barrier EXCEPT ![n][RpcIndex(n)] = 0]
    /\ rpc' = [rpc EXCEPT ![n] = "unflag"]
    /\ UNCHANGED <<clientVars, mq, barrier_info, waiting_barrier_id, kvVars, commitVars,
                   serving, poll, rval, tell, out, xserv>>

\* Mutant of RpcUnflag: DEL_BARRIER is not broadcast.
RpcUnflagOnly(n) ==
    /\ rpc[n] = "unflag"
    /\ flag' = [flag EXCEPT ![n][RpcIndex(n)] = 0]
    /\ rpc' = [rpc EXCEPT ![n] = "bcast"]
    /\ UNCHANGED <<clientVars, mq, nodeVars, opt_count, token, commitVars, serving,
                   poll, rval, tell, out, xserv>>

RpcUnflag(n) ==
    /\ rpc[n] = "unflag"
    /\ flag' = [flag EXCEPT ![n][RpcIndex(n)] = 0]
    /\ tell' = [tell EXCEPT ![n] = Nodes \ {n}]
    /\ rpc' = [rpc EXCEPT ![n] = "bcast"]
    /\ UNCHANGED <<clientVars, mq, nodeVars, opt_count, token, commitVars, serving,
                   poll, rval, out, xserv>>

\* server_broadcast: DEL_BARRIER to one node after the other, each one answered.
RpcBcast(n, m) ==
    /\ rpc[n] = "bcast" /\ out[n] = None /\ m \in tell[n]
    /\ tell' = [tell EXCEPT ![n] = @ \ {m}]
    /\ out' = [out EXCEPT ![n] = m]
    /\ UNCHANGED <<clientVars, mq, nodeVars, kvVars, commitVars, rpc, serving, poll,
                   rval, xserv>>

RpcIncr(n) ==
    /\ rpc[n] = "bcast" /\ out[n] = None /\ tell[n] = {}
    /\ waiting_barrier_id' = [waiting_barrier_id EXCEPT ![n] = @ + 1]
    /\ rpc' = [rpc EXCEPT ![n] = "reply"]
    /\ UNCHANGED <<clientVars, mq, barrier, barrier_info, kvVars, commitVars, serving,
                   poll, rval, tell, out, xserv>>

RpcReply(n) ==
    /\ rpc[n] = "reply"
    /\ calling' = calling \ {serving[n]}
    /\ serving' = [serving EXCEPT ![n] = None]
    /\ rpc' = [rpc EXCEPT ![n] = "recv"]
    /\ UNCHANGED <<current_barrier_id, todo, mq, nodeVars, kvVars, commitVars, poll,
                   rval, tell, out, xserv>>

-----------------------------------------------------------------------------
(* The cluster RPC thread: handle_cluster_mesg on DEL_BARRIER, two stores. *)

ClusterClear(m, n) ==
    /\ xserv[m] = None /\ out[n] = m
    /\ barrier' = [barrier EXCEPT ![m][waiting_barrier_id[m]] = 0]
    /\ xserv' = [xserv EXCEPT ![m] = n]
    /\ UNCHANGED <<clientVars, mq, barrier_info, waiting_barrier_id, kvVars, commitVars,
                   rpcVars>>

ClusterIncr(m) ==
    /\ xserv[m] # None
    /\ waiting_barrier_id' = [waiting_barrier_id EXCEPT ![m] = @ + 1]
    /\ out' = [out EXCEPT ![xserv[m]] = None]
    /\ xserv' = [xserv EXCEPT ![m] = None]
    /\ UNCHANGED <<clientVars, mq, barrier, barrier_info, kvVars, commitVars, rpc,
                   serving, poll, rval, tell>>

-----------------------------------------------------------------------------
Client(c) == SendOp(c) \/ pacon_barrier(c) \/ add_to_local_rpc(c)

CommitStep(n) ==
    \/ CommitSpin(n) \/ CommitApply(n) \/ CommitGetCas(n) \/ CommitCas(n)
    \/ CommitCount(n) \/ CommitFlag(n)

RpcStep(n) ==
    \/ RpcLocal(n) \/ RpcExec(n) \/ RpcGetCas(n) \/ RpcCas(n) \/ RpcLift(n)
    \/ RpcUnflag(n) \/ RpcIncr(n) \/ RpcReply(n)
    \/ \E m \in Nodes : RpcPoll(n, m) \/ RpcBcast(n, m)

ClusterStep(m) == ClusterIncr(m) \/ \E n \in Nodes : ClusterClear(m, n)

Next ==
    \/ \E c \in Clients : Client(c)
    \/ \E n \in Nodes : CommitStep(n) \/ RpcStep(n) \/ ClusterStep(n)
    \/ \E n \in Nodes, c \in Clients : CommitRecv(n, c) \/ RpcRecv(n, c)

Spec == Init /\ [][Next]_vars

(***************************************************************************)
(* Fairness.  Every server thread keeps running.  zmq_recv takes messages  *)
(* fairly from the connected peers, hence strong fairness of the receive   *)
(* steps.  The application reaches its barriers and issues the operations  *)
(* it announced; it need not send anything else.                           *)
(***************************************************************************)
Fairness ==
    /\ \A n \in Nodes : WF_vars(CommitStep(n)) /\ WF_vars(RpcStep(n)) /\ WF_vars(ClusterStep(n))
    /\ \A c \in Clients : /\ SF_vars(CommitRecv(NodeOf[c], c))
                          /\ SF_vars(RpcRecv(NodeOf[c], c))
                          /\ SF_vars(pacon_barrier(c))
                          /\ WF_vars(add_to_local_rpc(c))

FairSpec == Spec /\ Fairness

-----------------------------------------------------------------------------
(* Properties.                                                             *)

\* The variables have their types; a client's todo never falls below zero.
TypeOK ==
    /\ current_barrier_id \in [Clients -> 0 .. Rounds]
    /\ todo \in [Clients -> 0 .. MaxOpt]
    /\ calling \in SUBSET Clients
    /\ mq \in [Clients -> Seq(Message)]
    /\ barrier \in [Nodes -> [Index -> {0, 1}]]
    /\ barrier_info \in [Nodes -> [Index -> Nat]]
    /\ waiting_barrier_id \in [Nodes -> Nat]
    /\ flag \in [Nodes -> [Index -> {0, 1}]]
    /\ opt_count \in [Index -> Int]
    /\ token \in [Index -> SUBSET Threads]
    /\ cpc \in [Nodes -> {"recv", "spin", "apply", "get", "cas", "count", "flag"}]
    /\ cur \in [Nodes -> Clients \cup {None}]
    /\ cval \in [Nodes -> Int]
    /\ rpc \in [Nodes -> {"recv", "local", "poll", "get", "cas", "lift", "unflag",
                          "bcast", "reply"}]
    /\ serving \in [Nodes -> Clients \cup {None}]
    /\ poll \in [Nodes -> SUBSET Nodes]
    /\ rval \in [Nodes -> Int]
    /\ tell \in [Nodes -> SUBSET Nodes]
    /\ out \in [Nodes -> Nodes \cup {None}]
    /\ xserv \in [Nodes -> Nodes \cup {None}]

\* While a barrier operation runs (commit_to_fs_barrier after
\* broadcast_barrier_begin_new), every client has announced that barrier and
\* every operation queued before an announcement has been committed.
BarrierOpSeesEarlierOps ==
    \A n \in Nodes : Executing(n) =>
        \A c \in Clients :
            /\ current_barrier_id[c] >= current_barrier_id[serving[n]]
            /\ \A i \in DOMAIN mq[c] :
                  mq[c][i].type = "OP" => mq[c][i].id >= current_barrier_id[serving[n]]

\* The barrier operation on node n is running or not yet recorded as ended.
InBarrierOp(n) == Executing(n) \/ rpc[n] \in {"get", "cas"}

\* While a barrier operation runs, every commit thread of the cluster is
\* stopped: none commits an operation under the running rmdir or rename.
NoCommitDuringBarrierOp ==
    \A m, n \in Nodes : InBarrierOp(n) => cpc[m] # "apply"

\* The commit thread never stays in its spin at a barrier.
SpinEnds == \A n \in Nodes : cpc[n] = "spin" ~> cpc[n] # "spin"

\* Every call of a barrier operation is answered.
CallsReturn == \A c \in Clients : c \in calling ~> c \notin calling

\* A barrier is lifted once.  The count of open operations never falls below
\* zero, and it reaches zero in one operation only: at most one server lifts
\* a barrier at a time.  waiting_barrier_id counts the barriers that were
\* lifted: no server is ahead of a client that has not announced them, so
\* barrier[] is never read past the announced ids.
OneLifter ==
    /\ \A b \in Index : opt_count[b] >= 0
    /\ \A n \in Nodes, c \in Clients : waiting_barrier_id[n] <= current_barrier_id[c]
    /\ \A m, n \in Nodes :
          {rpc[m], rpc[n]} \subseteq {"lift", "unflag", "bcast"} => m = n

=============================================================================
