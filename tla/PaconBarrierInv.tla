-------------------------- MODULE PaconBarrierInv ---------------------------
(***************************************************************************)
(* The inductive invariants of the barrier: IInv behind                    *)
(* BarrierOpSeesEarlierOps (PaconBarrierProofs), LiftInv behind OneLifter  *)
(* and StillInv behind NoCommitDuringBarrierOp (PaconBarrierLiftProofs).   *)
(* TLC checks their conjunction BarrierInv on small instances.             *)
(***************************************************************************)
EXTENDS PaconBarrier

\* Message m comes after its client's announcement of barrier index b.
Beyond(m, b) == IF m.type = "OP" THEN m.id > b ELSE m.id > b + 1

\* The head of c's queue is its announcement of b, counted already: the
\* commit thread is about to publish the flag.
Counted(c, b) ==
    cur[NodeOf[c]] = c /\ cpc[NodeOf[c]] = "flag" /\ mq[c][1].id = b + 1

\* The commit thread has counted client c at barrier index b: whatever is
\* still in its queue comes later, but for the counted announcement.
Passed(c, b) ==
    /\ current_barrier_id[c] > b
    /\ \A i \in DOMAIN mq[c] : Beyond(mq[c][i], b) \/ (i = 1 /\ Counted(c, b))

\* A queue q of a client that has announced k barriers holds announcements
\* and operations in the order of their ids, each announcement once, and
\* behind a message every announcement made since.
Ordered(q, k) ==
    \A i \in DOMAIN q :
        /\ q[i].id <= k
        /\ q[i].type = "BARRIER" => q[i].id >= 1 /\ q[i].id < BarrierIdMax
        /\ \A j \in DOMAIN q : i < j =>
              /\ q[i].id <= q[j].id
              /\ q[j].type = "BARRIER" => q[i].id < q[j].id
        /\ \A l \in 1 .. Rounds : q[i].id < l /\ l <= k /\ l < BarrierIdMax =>
              \E j \in DOMAIN q : i < j /\ q[j].type = "BARRIER" /\ q[j].id = l

QueueInv == \A c \in Clients : Ordered(mq[c], current_barrier_id[c])

\* The message a commit thread works on is of the kind its step expects.
CommitInv ==
    \A n \in Nodes : cpc[n] # "recv" =>
        /\ cur[n] \in Clients
        /\ NodeOf[cur[n]] = n
        /\ mq[cur[n]] # <<>>
        /\ cpc[n] = "apply" => Msg(n).type = "OP"
        /\ cpc[n] \in {"get", "cas", "count", "flag"} => Msg(n).type = "BARRIER"

\* A client blocked in a call has announced a barrier and has an operation
\* of it to run until the server records its end.
CallInv ==
    /\ \A c \in Clients : todo[c] > 0 => current_barrier_id[c] >= 1
    /\ \A c \in calling : current_barrier_id[c] >= 1
    /\ \A c \in calling : serving[NodeOf[c]] # c => todo[c] > 0
    /\ \A n \in Nodes : rpc[n] = "recv" => serving[n] = None
    /\ \A n \in Nodes : rpc[n] # "recv" =>
          /\ serving[n] \in calling
          /\ NodeOf[serving[n]] = n
          /\ rpc[n] \in {"local", "poll", "get", "cas"} => todo[serving[n]] > 0

\* barrier_info counts the clients that have passed.
CountInv ==
    \A n \in Nodes, b \in Index : b < BarrierIdMax - 1 =>
        barrier_info[n][b] = Cardinality({c \in ClientsOn(n) : Passed(c, b)})

\* A node that has stopped, says so in the KV store or is about to say so
\* has all its clients at the barrier.
StopInv ==
    \A n \in Nodes :
        /\ \A b \in Index : barrier[n][b] = 1 \/ flag[n][b] = 1 =>
              \A c \in ClientsOn(n) : Passed(c, b)
        /\ cpc[n] = "flag" => \A c \in ClientsOn(n) : Passed(c, MsgIndex(n))

\* The nodes a local RPC thread has found stopped have all their clients at
\* the barrier.
PollInv ==
    \A n \in Nodes : rpc[n] = "poll" =>
        \A m \in Nodes \ poll[n] : \A c \in ClientsOn(m) : Passed(c, RpcIndex(n))

IInv == TypeOK /\ QueueInv /\ CommitInv /\ CallInv /\ CountInv /\ StopInv /\ PollInv

-----------------------------------------------------------------------------
(* Operations: their count, the server that ends the last one, and what it *)
(* tells the others.                                                       *)

\* The announcements of the last index are dropped, so nothing happens there.
Slots == {b \in Index : b < BarrierIdMax - 1}

AllPassed(b) == \A c \in Clients : Passed(c, b)

\* The operations that c announced for b are in the count: its announcement
\* has been counted, or it is about to be.
Added(c, b) ==
    \/ Passed(c, b)
    \/ cur[NodeOf[c]] = c /\ cpc[NodeOf[c]] = "count" /\ MsgIndex(NodeOf[c]) = b

\* The operations of barrier index b that c has still to run.
Open(c, b) == IF current_barrier_id[c] = b + 1 THEN todo[c] ELSE 0

\* One ticket for each operation that is in the count.
Tickets(b) == {t \in Clients \X (1 .. MaxOpt) : Added(t[1], b) /\ t[2] <= Open(t[1], b)}

\* All operations of b have ended, and there was one.
Finished(b) ==
    /\ \A c \in Clients : current_barrier_id[c] > b /\ Open(c, b) = 0
    /\ \E c \in Clients : OptNum[b + 1][c] > 0

\* A queued announcement carries the opt_num of its client, and no operation
\* ends before all announcements are in the count.
AskInv ==
    /\ \A c \in Clients : \A i \in DOMAIN mq[c] :
          mq[c][i].type = "BARRIER" => mq[c][i].opt = OptNum[mq[c][i].id][c]
    /\ \A c \in Clients : current_barrier_id[c] > 0 => todo[c] <= OptNum[current_barrier_id[c]][c]
    /\ \A b \in Slots : \A c \in Clients :
          current_barrier_id[c] > b /\ (\E d \in Clients : ~ Added(d, b)) => Open(c, b) = OptNum[b + 1][c]

\* A thread whose cas value is current has read the count that is stored.
TokenInv ==
    \A n \in Nodes, b \in Index :
        /\ <<"commit", n>> \in token[b] => cpc[n] = "cas" /\ MsgIndex(n) = b /\ cval[n] = opt_count[b]
        /\ <<"rpc", n>> \in token[b] => rpc[n] = "cas" /\ RpcIndex(n) = b /\ rval[n] = opt_count[b]

\* The count is the number of operations that are open.
TicketInv ==
    \A b \in Index : opt_count[b] = IF b \in Slots THEN Cardinality(Tickets(b)) ELSE 0

Lifting(n) == rpc[n] \in {"lift", "unflag", "bcast"}

\* An operation runs or lifts its barrier when all clients have passed it; the
\* one that lifts was the last, and there is one.
ServeInv ==
    \A n \in Nodes :
        /\ \A b \in Index : barrier[n][b] = 1 => b \in Slots
        /\ rpc[n] \in {"poll", "get", "cas"} \/ Lifting(n) => RpcIndex(n) \in Slots
        /\ rpc[n] \in {"get", "cas"} \/ Lifting(n) => AllPassed(RpcIndex(n))
        /\ Lifting(n) => Finished(RpcIndex(n))
        /\ \A m \in Nodes : Lifting(m) /\ Lifting(n) => m = n

\* Server n lifts a barrier and node m has not moved on yet.
Pending(n, m) == Lifting(n) /\ (rpc[n] = "bcast" => m = n \/ m \in tell[n] \/ out[n] = m)

\* DEL_BARRIER is on its way to one other node at a time.
BcastInv ==
    \A n \in Nodes :
        /\ rpc[n] # "bcast" => out[n] = None
        /\ tell[n] \subseteq Nodes \ {n}
        /\ out[n] # n /\ out[n] \notin tell[n]
        /\ xserv[n] # None => out[xserv[n]] = n

\* waiting_barrier_id is never ahead: all clients have passed the barriers that
\* it has left behind, which have no open operation.
WaitInv ==
    /\ \A n \in Nodes : waiting_barrier_id[n] > 0 => AllPassed(waiting_barrier_id[n] - 1)
    /\ \A n \in Nodes, c \in Clients : todo[c] > 0 => waiting_barrier_id[n] < current_barrier_id[c]
    /\ \A m, n \in Nodes : Pending(n, m) => waiting_barrier_id[m] <= RpcIndex(n)

LiftInv == AskInv /\ TokenInv /\ TicketInv /\ ServeInv /\ BcastInv /\ WaitInv

-----------------------------------------------------------------------------
(* What holds in addition when the application waits between its barriers. *)

\* The clients are at the same barrier or the next, and who is behind is done.
SyncInv ==
    \A c, d \in Clients :
        /\ current_barrier_id[d] <= current_barrier_id[c] + 1
        /\ current_barrier_id[c] < current_barrier_id[d] => todo[c] = 0 /\ c \notin calling

\* A node whose clients have all passed stands still until the barrier is
\* lifted, at this barrier and no other.
StandInv ==
    /\ \A m \in Nodes, b \in Slots :
          (\A c \in ClientsOn(m) : Passed(c, b)) /\ ~ Finished(b) => barrier[m][b] = 1
    /\ \A m \in Nodes, b \in Index :
          barrier[m][b] = 1 => waiting_barrier_id[m] = b /\ cpc[m] \in {"recv", "spin", "flag"}

\* A barrier whose operations have ended is lifted at every node, or a server is
\* at it; that server finds every node at this barrier.
LiftedInv ==
    /\ \A b \in Slots : Finished(b) =>
          \A m \in Nodes : \/ waiting_barrier_id[m] > b
                           \/ \E n \in Nodes : Pending(n, m) /\ RpcIndex(n) = b
    /\ \A m, n \in Nodes : Pending(n, m) => waiting_barrier_id[m] = RpcIndex(n)
    /\ \A n \in Nodes : rpc[n] \in {"unflag", "bcast"} => barrier[n][RpcIndex(n)] = 0
    /\ \A m \in Nodes : xserv[m] # None => barrier[m][waiting_barrier_id[m]] = 0

StillInv == SyncInv /\ StandInv /\ LiftedInv

\* What keeps the barrier correct between the announcement in pacon_barrier and
\* the increment of waiting_barrier_id: nodes stop only when their clients have
\* passed (IInv), the count in the KV store is the number of open operations and
\* the last one alone lifts (LiftInv), and if the application waits between its
\* barriers every node stands at the same barrier until it is lifted (StillInv).
BarrierInv == IInv /\ LiftInv /\ (Sync => StillInv)
=============================================================================
