----------------------- MODULE PaconBarrierLiftProofs -----------------------
(***************************************************************************)
(* The count of barrier operations, the server that lifts a barrier, and   *)
(* what keeps the commit threads still meanwhile: LiftInv for every        *)
(* application, StillInv for one that waits between its barriers.          *)
(***************************************************************************)
EXTENDS PaconBarrierProofs

-----------------------------------------------------------------------------
(* Clients and barriers.                                                   *)

\* The indexes that are used.
LEMMA SlotFacts ==
    ASSUME NEW b \in Slots
    PROVE  b \in Index /\ b \in Int /\ b \in Nat /\ b < BarrierIdMax - 1
  BY ConstantsAssumption DEF Slots, Index

\* Who has passed a barrier has passed those before.
LEMMA PassedDown ==
    ASSUME TypeOK, CommitInv, NEW c \in Clients, NEW b \in Int, NEW w \in Int, w <= b, Passed(c, b)
    PROVE  Passed(c, w)
<1>1. mq[c] \in Seq(Message) /\ current_barrier_id[c] \in Int
  BY ConstantsAssumption DEF TypeOK
<1>2. current_barrier_id[c] > w
  BY <1>1 DEF Passed
<1>3. ASSUME NEW i \in DOMAIN mq[c] PROVE Beyond(mq[c][i], w) \/ (i = 1 /\ Counted(c, w))
  <2>1. mq[c][i].id \in Int /\ mq[c][i].type \in {"OP", "BARRIER"}
    BY <1>1, MessageFields
  <2>2. CASE Beyond(mq[c][i], b)
    BY <2>1, <2>2 DEF Beyond
  <2>3. CASE i = 1 /\ Counted(c, b)
    <3>1. CASE w = b
      BY <2>3, <3>1
    <3>2. CASE w < b
      BY <2>1, <2>3, <3>2 DEF Beyond, Counted
    <3> QED BY <3>1, <3>2
  <2> QED BY <2>2, <2>3 DEF Passed
<1> QED BY <1>2, <1>3 DEF Passed

\* Who is at work at its announcement of b has passed all earlier ones.
LEMMA PassedBefore ==
    ASSUME TypeOK, QueueInv, CommitInv, NEW n \in Nodes, cpc[n] \in {"get", "cas", "count", "flag"},
           NEW w \in Int, w < MsgIndex(n)
    PROVE  Passed(cur[n], w) /\ current_barrier_id[cur[n]] >= MsgIndex(n) + 1
<1> DEFINE c == cur[n]
           b == MsgIndex(n)
           q == mq[c]
<1>1. c \in Clients /\ q \in Seq(Message) /\ 1 \in DOMAIN q /\ Msg(n) = q[1] /\ Msg(n) \in Message
  BY HeadOfQueue
<1>2. b \in Int /\ q[1].type = "BARRIER" /\ q[1].id = b + 1
  BY <1>1, AnnouncedIndex DEF Index
<1>3. current_barrier_id[c] \in Int /\ Ordered(q, current_barrier_id[c])
  BY <1>1, ConstantsAssumption DEF TypeOK, QueueInv
<1>4. current_barrier_id[c] >= b + 1
  BY <1>1, <1>2, <1>3 DEF Ordered
<1>5. ASSUME NEW i \in DOMAIN q PROVE Beyond(q[i], w)
  <2>1. q[i].id \in Int /\ q[i].type \in {"OP", "BARRIER"}
    BY <1>1, MessageFields
  <2>2. i = 1 \/ 1 < i
    BY <1>1
  <2>3. q[1].id <= q[i].id
    BY <1>1, <1>2, <1>3, <2>1, <2>2 DEF Ordered
  <2> QED BY <1>2, <2>1, <2>3 DEF Beyond
<1> QED BY <1>2, <1>3, <1>4, <1>5 DEF Passed

\* An operation that ends: the cas of broadcast_barrier_end_new succeeds.
Ends(n) == RpcCas(n) /\ <<"rpc", n>> \in token[RpcIndex(n)]

\* What a step does to the barriers and the operations of a client.
LEMMA TodoStep ==
    ASSUME TypeOK, CallInv, [Next]_vars, NEW c \in Clients
    PROVE  \/ current_barrier_id'[c] = current_barrier_id[c] /\ todo'[c] = todo[c]
           \/ pacon_barrier(c)
           \/ /\ current_barrier_id'[c] = current_barrier_id[c] /\ todo'[c] = todo[c] - 1
              /\ \E n \in Nodes : Ends(n) /\ serving[n] = c
<1> DEFINE Kept == current_barrier_id'[c] = current_barrier_id[c] /\ todo'[c] = todo[c]
<1>1. CASE UNCHANGED <<current_barrier_id, todo>>
  BY <1>1
<1>2. ASSUME NEW d \in Clients, Client(d) PROVE Kept \/ pacon_barrier(c)
  BY <1>2 DEF Client, SendOp, pacon_barrier, add_to_local_rpc, clientVars, TypeOK
<1>3. ASSUME NEW n \in Nodes, CommitStep(n) PROVE UNCHANGED <<current_barrier_id, todo>>
  BY <1>3 DEF CommitStep, CommitSpin, CommitApply, CommitGetCas, CommitCas, CommitCount,
              CommitFlag, clientVars
<1>4. ASSUME NEW n \in Nodes, RpcCas(n)
      PROVE  Kept \/ (/\ current_barrier_id'[c] = current_barrier_id[c] /\ todo'[c] = todo[c] - 1
                      /\ Ends(n) /\ serving[n] = c)
  BY <1>4 DEF RpcCas, Ends, TypeOK
<1>5. ASSUME NEW n \in Nodes, RpcStep(n), ~ RpcCas(n) PROVE UNCHANGED <<current_barrier_id, todo>>
  BY <1>5 DEF RpcStep, RpcLocal, RpcExec, RpcGetCas, RpcLift, RpcUnflag, RpcIncr,
              RpcReply, RpcPoll, RpcBcast, clientVars
<1>6. ASSUME NEW n \in Nodes, ClusterStep(n) PROVE UNCHANGED <<current_barrier_id, todo>>
  BY <1>6 DEF ClusterStep, ClusterIncr, ClusterClear, clientVars
<1>7. ASSUME NEW n \in Nodes, NEW d \in Clients, CommitRecv(n, d) \/ RpcRecv(n, d)
      PROVE  UNCHANGED <<current_barrier_id, todo>>
  BY <1>7 DEF CommitRecv, RpcRecv, clientVars
<1>8. CASE UNCHANGED vars
  BY <1>8 DEF vars, clientVars
<1> QED BY <1>1, <1>2, <1>3, <1>4, <1>5, <1>6, <1>7, <1>8 DEF Next

\* What pacon_barrier does to its client.
LEMMA Announce ==
    ASSUME TypeOK, NEW c \in Clients, pacon_barrier(c)
    PROVE  /\ todo[c] = 0 /\ c \notin calling
           /\ current_barrier_id[c] + 1 \in 1 .. Rounds
           /\ current_barrier_id'[c] = current_barrier_id[c] + 1
           /\ todo'[c] = OptNum[current_barrier_id[c] + 1][c]
           /\ \A d \in Clients : d # c => current_barrier_id'[d] = current_barrier_id[d] /\ todo'[d] = todo[d]
<1>1. current_barrier_id[c] + 1 \in 1 .. Rounds
  BY NextBarrier
<1> QED BY <1>1 DEF pacon_barrier, AppMayBarrier, TypeOK

\* An operation ends for a client that has one to run.
LEMMA EndFacts ==
    ASSUME TypeOK, CallInv, NEW n \in Nodes, Ends(n)
    PROVE  /\ serving[n] \in Clients /\ serving[n] \in calling /\ RpcIndex(n) \in Index
           /\ current_barrier_id[serving[n]] = RpcIndex(n) + 1
           /\ todo[serving[n]] \in 1 .. MaxOpt
           /\ todo'[serving[n]] = todo[serving[n]] - 1
           /\ current_barrier_id' = current_barrier_id
           /\ \A d \in Clients : d # serving[n] => todo'[d] = todo[d]
<1>1. rpc[n] = "cas"
  BY DEF Ends, RpcCas
<1>2. /\ serving[n] \in Clients /\ serving[n] \in calling /\ RpcIndex(n) \in Index
      /\ current_barrier_id[serving[n]] = RpcIndex(n) + 1
  BY <1>1, RequestedIndex
<1>3. todo[serving[n]] > 0
  BY <1>1 DEF CallInv
<1>4. todo[serving[n]] \in 1 .. MaxOpt
  BY <1>2, <1>3 DEF TypeOK, MaxOpt
<1> QED BY <1>2, <1>4 DEF Ends, RpcCas, TypeOK

\* The operations that are open are those announced less those that ended.
LEMMA OpenType ==
    ASSUME TypeOK, NEW c \in Clients, NEW b \in Int
    PROVE  Open(c, b) \in 0 .. MaxOpt
  BY DEF TypeOK, Open, MaxOpt

\* A barrier that its client has announced gets no new operations.
LEMMA OpenStep ==
    ASSUME TypeOK, CallInv, [Next]_vars, NEW c \in Clients, NEW b \in Int, current_barrier_id[c] > b
    PROVE  /\ current_barrier_id'[c] > b
           /\ \/ Open(c, b)' = Open(c, b)
              \/ /\ Open(c, b)' = Open(c, b) - 1
                 /\ \E n \in Nodes : Ends(n) /\ serving[n] = c /\ RpcIndex(n) = b
<1> DEFINE k == current_barrier_id[c]
           l == current_barrier_id'[c]
<1>1. k \in Int
  BY ConstantsAssumption DEF TypeOK
<1>2. CASE l = k /\ todo'[c] = todo[c]
  BY <1>1, <1>2 DEF Open
<1>3. CASE pacon_barrier(c)
  <2>1. todo[c] = 0 /\ l = k + 1
    BY <1>3, Announce
  <2>2. Open(c, b) = 0
    BY <2>1 DEF Open
  <2>3. l > b /\ l # b + 1
    BY <1>1, <2>1
  <2>4. Open(c, b)' = 0
    BY <2>3 DEF Open
  <2> QED BY <2>2, <2>3, <2>4
<1>4. ASSUME l = k, todo'[c] = todo[c] - 1, NEW n \in Nodes, Ends(n), serving[n] = c
      PROVE  /\ l > b
             /\ Open(c, b)' = Open(c, b) \/ (Open(c, b)' = Open(c, b) - 1 /\ RpcIndex(n) = b)
  <2>1. k = RpcIndex(n) + 1 /\ RpcIndex(n) \in Int
    BY <1>4, EndFacts, ConstantsAssumption DEF Index
  <2>2. CASE k = b + 1
    <3>1. Open(c, b)' = todo'[c] /\ Open(c, b) = todo[c]
      BY <1>4, <2>2 DEF Open
    <3> QED BY <1>4, <2>1, <2>2, <3>1
  <2>3. CASE k # b + 1
    <3>1. Open(c, b)' = 0 /\ Open(c, b) = 0
      BY <1>4, <2>3 DEF Open
    <3> QED BY <1>4, <3>1
  <2> QED BY <2>2, <2>3
<1> QED BY <1>2, <1>3, <1>4, TodoStep

\* Once all operations of a barrier have ended there is never another one.
LEMMA FinishedStable ==
    ASSUME TypeOK, CallInv, [Next]_vars, NEW b \in Int, Finished(b)
    PROVE  Finished(b)'
<1>1. ASSUME NEW c \in Clients PROVE current_barrier_id'[c] > b /\ Open(c, b)' = 0
  <2>1. current_barrier_id[c] > b /\ Open(c, b) = 0
    BY DEF Finished
  <2>2. ASSUME NEW n \in Nodes, Ends(n), serving[n] = c, RpcIndex(n) = b PROVE FALSE
    <3>1. current_barrier_id[c] = b + 1 /\ todo[c] \in 1 .. MaxOpt
      BY <2>2, EndFacts
    <3> QED BY <2>1, <3>1 DEF Open
  <2> QED BY <2>1, <2>2, OpenStep
<1>2. \E c \in Clients : OptNum[b + 1][c] > 0
  BY DEF Finished
<1> QED BY <1>1, <1>2 DEF Finished

\* A client that has operations to run has announced a barrier that is not over.
LEMMA NotFinished ==
    ASSUME TypeOK, NEW c \in Clients, NEW b \in Int, current_barrier_id[c] = b + 1, todo[c] > 0
    PROVE  ~ Finished(b)
  BY DEF Finished, Open

\* What has been added stays.
LEMMA AddedStable ==
    ASSUME TypeOK, QueueInv, CommitInv, [Next]_vars, NEW c \in Clients, NEW b \in Int, Added(c, b)
    PROVE  Added(c, b)'
<1> DEFINE n == NodeOf[c]
<1>1. n \in Nodes
  BY ConstantsAssumption
<1>2. CASE Passed(c, b)
  BY <1>2, PassedStable DEF Added
<1>3. CASE cur[n] = c /\ cpc[n] = "count" /\ MsgIndex(n) = b
  <2>1. CASE cur'[n] = cur[n] /\ cpc'[n] = cpc[n]
    <3>1. MsgIndex(n)' = b
      BY <1>1, <1>3, <2>1, HeadKept
    <3> QED BY <1>3, <2>1, <3>1 DEF Added
  <2>2. CASE CommitCount(n)
    BY <1>1, <1>3, <2>2, CountPasses DEF Added
  <2>3. ASSUME NEW d \in Clients, CommitRecv(n, d) PROVE FALSE
    BY <1>3, <2>3 DEF CommitRecv
  <2>4. CASE CommitStep(n) /\ ~ CommitCount(n)
    BY <1>3, <2>4 DEF CommitStep, CommitSpin, CommitApply, CommitGetCas, CommitCas, CommitFlag
  <2> QED BY <1>1, <2>1, <2>2, <2>3, <2>4, ThreadStep
<1> QED BY <1>2, <1>3 DEF Added

\* Only the commit thread adds.
LEMMA AddedBy ==
    ASSUME TypeOK, QueueInv, CommitInv, [Next]_vars, NEW c \in Clients, NEW b \in Slots,
           ~ Added(c, b), Added(c, b)'
    PROVE  /\ cur[NodeOf[c]] = c /\ cpc[NodeOf[c]] # "recv" /\ Msg(NodeOf[c]).type = "BARRIER"
           /\ cpc'[NodeOf[c]] # cpc[NodeOf[c]]
           /\ MsgIndex(NodeOf[c]) = b
           /\ \/ CommitSpin(NodeOf[c]) /\ Msg(NodeOf[c]).opt = 0
              \/ CommitCas(NodeOf[c]) /\ <<"commit", NodeOf[c]>> \in token[b]
<1> DEFINE n == NodeOf[c]
<1>1. n \in Nodes /\ b \in Index /\ b < BarrierIdMax - 1
  BY ConstantsAssumption, SlotFacts
<1>2. ~ Passed(c, b)'
  <2>1. ASSUME Passed(c, b)' PROVE FALSE
    <3>1. CommitCount(n) /\ cur[n] = c /\ MsgIndex(n) = b
      BY <1>1, <2>1, PassedOnlyByCount DEF Added
    <3> QED BY <3>1 DEF Added, CommitCount
  <2> QED BY <2>1
<1>3. cur'[n] = c /\ cpc'[n] = "count" /\ MsgIndex(n)' = b
  BY <1>2 DEF Added
<1>4. ~ (cur'[n] = cur[n] /\ cpc'[n] = cpc[n])
  <2>1. ASSUME cur'[n] = cur[n], cpc'[n] = cpc[n] PROVE FALSE
    <3>1. MsgIndex(n) = b
      BY <1>1, <1>3, <2>1, HeadKept
    <3> QED BY <1>3, <2>1, <3>1 DEF Added
  <2> QED BY <2>1
<1>5. ASSUME NEW d \in Clients, CommitRecv(n, d) PROVE FALSE
  BY <1>1, <1>3, <1>5 DEF CommitRecv, TypeOK
<1>6. CommitStep(n)
  BY <1>1, <1>4, <1>5, ThreadStep
<1>7. /\ cur[n] = c /\ cpc[n] # "recv"
      /\ \/ CommitSpin(n) /\ Msg(n).type = "BARRIER" /\ Msg(n).opt = 0
         \/ CommitCas(n) /\ <<"commit", n>> \in token[MsgIndex(n)]
  <2>1. CASE CommitSpin(n)
    BY <1>1, <1>3, <2>1 DEF CommitSpin, TypeOK
  <2>2. CASE CommitCas(n)
    BY <1>1, <1>3, <2>2 DEF CommitCas, TypeOK
  <2>3. CASE CommitApply(n) \/ CommitGetCas(n) \/ CommitCount(n) \/ CommitFlag(n)
    BY <1>1, <1>3, <2>3 DEF CommitApply, CommitGetCas, CommitCount, CommitFlag, TypeOK
  <2> QED BY <1>6, <2>1, <2>2, <2>3 DEF CommitStep
<1>8. MsgIndex(n) = b
  BY <1>1, <1>3, <1>7, HeadKept
<1>9. CommitCas(n) => Msg(n).type = "BARRIER"
  BY <1>1 DEF CommitCas, CommitInv
<1>10. cpc'[n] # cpc[n]
  BY <1>3, <1>7 DEF CommitSpin, CommitCas
<1> QED BY <1>7, <1>8, <1>9, <1>10

\* Who has not announced is not added.
LEMMA AddedAnnounced ==
    ASSUME TypeOK, QueueInv, CommitInv, NEW c \in Clients, NEW b \in Int, Added(c, b)
    PROVE  current_barrier_id[c] > b
<1>1. NodeOf[c] \in Nodes /\ current_barrier_id[c] \in Int
  BY ConstantsAssumption DEF TypeOK
<1>2. CASE cur[NodeOf[c]] = c /\ cpc[NodeOf[c]] = "count" /\ MsgIndex(NodeOf[c]) = b
  <2>1. b - 1 \in Int /\ b - 1 < MsgIndex(NodeOf[c])
    BY <1>2
  <2>2. current_barrier_id[c] >= b + 1
    BY <1>1, <1>2, <2>1, PassedBefore
  <2> QED BY <1>1, <2>2
<1> QED BY <1>2 DEF Added, Passed

-----------------------------------------------------------------------------
(* What a step does to the threads and the KV store.                       *)

\* A local RPC thread moves by its own steps only.
LEMMA RpcThreadStep ==
    ASSUME TypeOK, [Next]_vars, NEW n \in Nodes
    PROVE  \/ rpc'[n] = rpc[n] /\ serving'[n] = serving[n] /\ tell'[n] = tell[n] /\ rval'[n] = rval[n]
           \/ \E c \in Clients : RpcRecv(n, c)
           \/ RpcStep(n)
<1> DEFINE Kept == UNCHANGED <<rpc, serving, tell, rval>>
<1>1. ASSUME NEW c \in Clients, Client(c) PROVE Kept
  BY <1>1 DEF Client, SendOp, pacon_barrier, add_to_local_rpc, rpcVars
<1>2. ASSUME NEW m \in Nodes, CommitStep(m) PROVE Kept
  BY <1>2 DEF CommitStep, CommitSpin, CommitApply, CommitGetCas, CommitCas, CommitCount,
              CommitFlag, rpcVars
<1>3. ASSUME NEW m \in Nodes, ClusterStep(m) PROVE Kept
  BY <1>3 DEF ClusterStep, ClusterIncr, ClusterClear, rpcVars
<1>4. ASSUME NEW m \in Nodes, NEW c \in Clients, CommitRecv(m, c) PROVE Kept
  BY <1>4 DEF CommitRecv, rpcVars
<1>5. ASSUME NEW m \in Nodes, NEW c \in Clients, RpcRecv(m, c), m # n
      PROVE  rpc'[n] = rpc[n] /\ serving'[n] = serving[n] /\ tell'[n] = tell[n] /\ rval'[n] = rval[n]
  BY <1>5 DEF RpcRecv, TypeOK
<1>6. ASSUME NEW m \in Nodes, RpcStep(m), m # n
      PROVE  rpc'[n] = rpc[n] /\ serving'[n] = serving[n] /\ tell'[n] = tell[n] /\ rval'[n] = rval[n]
  BY <1>6 DEF RpcStep, RpcLocal, RpcExec, RpcGetCas, RpcCas, RpcLift, RpcUnflag, RpcIncr,
              RpcReply, RpcPoll, RpcBcast, TypeOK
<1>7. CASE UNCHANGED vars
  BY <1>7 DEF vars, rpcVars
<1> QED BY <1>1, <1>2, <1>3, <1>4, <1>5, <1>6, <1>7 DEF Next

\* How a local RPC thread gets to its operation and on to the lifting.
LEMMA ServeStep ==
    ASSUME TypeOK, CallInv, [Next]_vars, NEW n \in Nodes,
           rpc'[n] \in {"poll", "get", "cas", "lift", "unflag", "bcast"}
    PROVE  /\ rpc[n] # "recv" /\ serving'[n] = serving[n] /\ RpcIndex(n)' = RpcIndex(n)
           /\ \/ rpc'[n] = rpc[n]
              \/ RpcLocal(n) /\ rpc'[n] = "poll"
              \/ RpcExec(n) /\ rpc'[n] = "get"
              \/ rpc[n] = "cas" /\ rpc'[n] = "get"
              \/ rpc[n] = "get" /\ rpc'[n] = "cas"
              \/ Ends(n) /\ rpc'[n] = "lift" /\ rval[n] - 1 = 0
              \/ rpc[n] = "lift" /\ rpc'[n] = "unflag"
              \/ rpc[n] = "unflag" /\ rpc'[n] = "bcast"
<1> DEFINE Moves ==
              \/ rpc'[n] = rpc[n]
              \/ RpcLocal(n) /\ rpc'[n] = "poll"
              \/ RpcExec(n) /\ rpc'[n] = "get"
              \/ rpc[n] = "cas" /\ rpc'[n] = "get"
              \/ rpc[n] = "get" /\ rpc'[n] = "cas"
              \/ Ends(n) /\ rpc'[n] = "lift" /\ rval[n] - 1 = 0
              \/ rpc[n] = "lift" /\ rpc'[n] = "unflag"
              \/ rpc[n] = "unflag" /\ rpc'[n] = "bcast"
<1>1. ASSUME NEW c \in Clients, RpcRecv(n, c) PROVE FALSE
  BY <1>1 DEF RpcRecv, TypeOK
<1>2. CASE RpcStep(n)
  <2>1. CASE RpcLocal(n)
    <3>1. rpc[n] # "recv" /\ serving'[n] = serving[n] /\ rpc'[n] = "poll"
      BY <2>1 DEF RpcLocal, TypeOK
    <3> QED BY <2>1, <3>1, RequestKept
  <2>2. CASE RpcExec(n)
    <3>1. rpc[n] # "recv" /\ serving'[n] = serving[n] /\ rpc'[n] = "get"
      BY <2>2 DEF RpcExec, Executing, TypeOK
    <3> QED BY <2>2, <3>1, RequestKept
  <2>3. CASE RpcGetCas(n) \/ RpcLift(n) \/ RpcUnflag(n)
    <3>1. rpc[n] # "recv" /\ serving'[n] = serving[n] /\ Moves
      BY <2>3 DEF RpcGetCas, RpcLift, RpcUnflag, TypeOK
    <3> QED BY <3>1, RequestKept
  <2>4. CASE RpcCas(n)
    <3>1. rpc[n] # "recv" /\ serving'[n] = serving[n]
      BY <2>4 DEF RpcCas
    <3>2. Moves
      BY <2>4 DEF RpcCas, Ends, TypeOK
    <3> QED BY <3>1, <3>2, RequestKept
  <2>5. CASE RpcIncr(n) \/ RpcReply(n)
    BY <2>5 DEF RpcIncr, RpcReply, TypeOK
  <2>6. ASSUME NEW m \in Nodes, RpcPoll(n, m) \/ RpcBcast(n, m)
        PROVE  rpc[n] # "recv" /\ serving'[n] = serving[n] /\ rpc'[n] = rpc[n]
    BY <2>6 DEF RpcPoll, RpcBcast
  <2>7. ASSUME NEW m \in Nodes, RpcPoll(n, m) \/ RpcBcast(n, m)
        PROVE  rpc[n] # "recv" /\ serving'[n] = serving[n] /\ RpcIndex(n)' = RpcIndex(n) /\ Moves
    BY <2>6, <2>7, RequestKept
  <2> QED BY <1>2, <2>1, <2>2, <2>3, <2>4, <2>5, <2>7 DEF RpcStep
<1>3. CASE rpc'[n] = rpc[n] /\ serving'[n] = serving[n]
  BY <1>3, RequestKept
<1> QED BY <1>1, <1>2, <1>3, RpcThreadStep

\* What a step does to the count of one barrier and to the cas values for it.
LEMMA KvStep ==
    ASSUME TypeOK, QueueInv, CommitInv, CallInv, [Next]_vars, NEW b \in Index
    PROVE  \/ token'[b] = token[b] /\ opt_count'[b] = opt_count[b]
           \/ \E n \in Nodes : /\ CommitGetCas(n) /\ MsgIndex(n) = b /\ opt_count'[b] = opt_count[b]
                               /\ token'[b] = token[b] \cup {<<"commit", n>>}
           \/ \E n \in Nodes : /\ RpcGetCas(n) /\ RpcIndex(n) = b /\ opt_count'[b] = opt_count[b]
                               /\ token'[b] = token[b] \cup {<<"rpc", n>>}
           \/ \E n \in Nodes : /\ CommitCas(n) /\ MsgIndex(n) = b /\ <<"commit", n>> \in token[b]
                               /\ opt_count'[b] = cval[n] + Msg(n).opt
                               /\ token'[b] = {}
           \/ \E n \in Nodes : /\ Ends(n) /\ RpcIndex(n) = b /\ opt_count'[b] = rval[n] - 1
                               /\ token'[b] = {}
<1> DEFINE Kept == token'[b] = token[b] /\ opt_count'[b] = opt_count[b]
<1>1. ASSUME NEW c \in Clients, Client(c) PROVE Kept
  BY <1>1 DEF Client, SendOp, pacon_barrier, add_to_local_rpc, kvVars
<1>2. ASSUME NEW n \in Nodes, CommitSpin(n) \/ CommitApply(n) \/ CommitCount(n) \/ CommitFlag(n) PROVE Kept
  BY <1>2 DEF CommitSpin, CommitApply, CommitCount, CommitFlag, kvVars
<1>3. ASSUME NEW n \in Nodes, CommitGetCas(n)
      PROVE  Kept \/ (/\ MsgIndex(n) = b /\ opt_count'[b] = opt_count[b]
                      /\ token'[b] = token[b] \cup {<<"commit", n>>})
  BY <1>3 DEF CommitGetCas, TypeOK
<1>4. ASSUME NEW n \in Nodes, CommitCas(n)
      PROVE  Kept \/ (/\ MsgIndex(n) = b /\ <<"commit", n>> \in token[b]
                      /\ opt_count'[b] = cval[n] + Msg(n).opt /\ token'[b] = {})
  BY <1>4 DEF CommitCas, TypeOK
<1>5. ASSUME NEW n \in Nodes, RpcGetCas(n)
      PROVE  Kept \/ (/\ RpcIndex(n) = b /\ opt_count'[b] = opt_count[b]
                      /\ token'[b] = token[b] \cup {<<"rpc", n>>})
  BY <1>5 DEF RpcGetCas, TypeOK
<1>6. ASSUME NEW n \in Nodes, RpcCas(n)
      PROVE  Kept \/ (/\ Ends(n) /\ RpcIndex(n) = b /\ opt_count'[b] = rval[n] - 1
                      /\ token'[b] = {})
  BY <1>6 DEF RpcCas, Ends, TypeOK
<1>7. ASSUME NEW n \in Nodes, RpcStep(n), ~ RpcGetCas(n), ~ RpcCas(n) PROVE Kept
  BY <1>7 DEF RpcStep, RpcLocal, RpcExec, RpcLift, RpcUnflag, RpcIncr, RpcReply, RpcPoll,
              RpcBcast, kvVars
<1>8. ASSUME NEW n \in Nodes, ClusterStep(n) PROVE Kept
  BY <1>8 DEF ClusterStep, ClusterIncr, ClusterClear, kvVars
<1>9. ASSUME NEW n \in Nodes, NEW c \in Clients, CommitRecv(n, c) \/ RpcRecv(n, c) PROVE Kept
  BY <1>9 DEF CommitRecv, RpcRecv, kvVars
<1>10. CASE UNCHANGED vars
  BY <1>10 DEF vars, kvVars
<1>11. ASSUME NEW n \in Nodes, CommitStep(n)
       PROVE  \/ CommitSpin(n) \/ CommitApply(n) \/ CommitCount(n) \/ CommitFlag(n)
              \/ CommitGetCas(n) \/ CommitCas(n)
  BY <1>11 DEF CommitStep
<1> QED BY <1>1, <1>2, <1>3, <1>4, <1>5, <1>6, <1>7, <1>8, <1>9, <1>10, <1>11 DEF Next

-----------------------------------------------------------------------------
(* The count of operations.                                                *)

\* A queued announcement keeps the opt_num of its client.
LEMMA AskedPreserved ==
    ASSUME TypeOK, CommitInv, CallInv, AskInv, [Next]_vars, NEW c \in Clients, NEW i \in DOMAIN mq'[c],
           mq'[c][i].type = "BARRIER"
    PROVE  mq'[c][i].opt = OptNum[mq'[c][i].id][c]
<1>1. mq[c] \in Seq(Message) /\ \A j \in DOMAIN mq[c] : mq[c][j].type = "BARRIER" =>
                                    mq[c][j].opt = OptNum[mq[c][j].id][c]
  BY DEF TypeOK, AskInv
<1>2. CASE mq'[c] = mq[c]
  BY <1>1, <1>2
<1>3. CASE OpQueued(c)
  <2>1. mq'[c] = Append(mq[c], OP(current_barrier_id[c])) /\ OP(current_barrier_id[c]) \in Message
    BY <1>3 DEF OpQueued
  <2>2. OP(current_barrier_id[c]).type # "BARRIER"
    BY DEF OP
  <2> QED BY <1>1, <2>1, <2>2, AppendFacts
<1>4. CASE BarrierQueued(c)
  <2>1. pacon_barrier(c)
    <3>1. current_barrier_id'[c] # current_barrier_id[c]
      BY <1>4, ConstantsAssumption DEF BarrierQueued, TypeOK
    <3> QED BY <3>1, TodoStep
  <2> DEFINE k == current_barrier_id[c] + 1
             a == BARRIER(OptNum[k][c], k)
  <2>2. a \in Message
    BY <2>1, NextBarrier
  <2>3. mq'[c] = mq[c] \/ mq'[c] = Append(mq[c], a)
    BY <2>1 DEF pacon_barrier, TypeOK
  <2>4. a.opt = OptNum[a.id][c]
    BY DEF BARRIER
  <2> HIDE DEF a
  <2>5. ASSUME mq'[c] = Append(mq[c], a) PROVE mq'[c][i].opt = OptNum[mq'[c][i].id][c]
    <3>1. (i \in DOMAIN mq[c] /\ mq'[c][i] = mq[c][i]) \/ mq'[c][i] = a
      BY <1>1, <2>2, <2>5, AppendFacts
    <3> QED BY <1>1, <2>4, <3>1
  <2> QED BY <1>2, <2>3, <2>5
<1>5. CASE HeadDropped(c)
  <2>1. mq[c] # <<>> /\ mq'[c] = Tail(mq[c])
    BY <1>5 DEF HeadDropped
  <2>2. i + 1 \in DOMAIN mq[c] /\ mq'[c][i] = mq[c][i + 1]
    BY <1>1, <2>1, TailFacts
  <2> QED BY <1>1, <2>2
<1> QED BY <1>2, <1>3, <1>4, <1>5, QueueStep DEF QueueKept, BarrierDropped

\* No client has more operations than it announced, and none ends before all
\* announcements are in the count.
LEMMA AskPreserved ==
    ASSUME IInv, AskInv, ServeInv, [Next]_vars
    PROVE  AskInv'
<1> USE DEF IInv
<1>1. ASSUME NEW c \in Clients, current_barrier_id'[c] > 0
      PROVE  todo'[c] <= OptNum[current_barrier_id'[c]][c]
  <2>4. current_barrier_id[c] \in 0 .. Rounds /\ todo[c] \in 0 .. MaxOpt
    BY DEF TypeOK
  <2>5. Rounds \in Nat /\ OptNum \in [1 .. Rounds -> [Clients -> 0 .. MaxOpt]]
    BY ConstantsAssumption
  <2>1. /\ current_barrier_id[c] \in 0 .. Rounds /\ todo[c] \in 0 .. MaxOpt /\ Rounds \in Nat
        /\ OptNum \in [1 .. Rounds -> [Clients -> 0 .. MaxOpt]]
    BY <2>4, <2>5
  <2>2. CASE current_barrier_id'[c] = current_barrier_id[c] /\ (todo'[c] = todo[c] \/ todo'[c] = todo[c] - 1)
    <3>1. todo[c] <= OptNum[current_barrier_id[c]][c]
      BY <1>1, <2>2 DEF AskInv
    <3>2. current_barrier_id[c] \in 1 .. Rounds
      BY <1>1, <2>1, <2>2
    <3>3. OptNum[current_barrier_id[c]][c] \in Int
      BY <2>1, <3>2, ConstantsAssumption DEF MaxOpt
    <3> QED BY <2>1, <2>2, <3>1, <3>3 DEF MaxOpt
  <2>3. CASE pacon_barrier(c)
    <3>1. /\ todo'[c] = OptNum[current_barrier_id[c] + 1][c] /\ current_barrier_id[c] + 1 \in 1 .. Rounds
          /\ current_barrier_id'[c] = current_barrier_id[c] + 1
      BY <2>3, Announce
    <3>2. todo'[c] \in Int
      BY <2>1, <3>1 DEF MaxOpt
    <3> QED BY <3>1, <3>2
  <2> QED BY <2>2, <2>3, TodoStep
<1>2. ASSUME NEW b \in Slots, NEW c \in Clients, current_barrier_id'[c] > b,
             NEW d \in Clients, ~ Added(d, b)'
      PROVE  Open(c, b)' = OptNum[b + 1][c]
  <2>1. b \in Int /\ b \in Index /\ b \in Nat
    BY SlotFacts
  <2>2. ~ Added(d, b)
    BY <1>2, <2>1, AddedStable
  <2>3. current_barrier_id[c] \in Int
    BY ConstantsAssumption DEF TypeOK
  <2>4. CASE current_barrier_id[c] > b
    <3>1. Open(c, b) = OptNum[b + 1][c]
      BY <2>2, <2>4 DEF AskInv
    <3>2. ASSUME NEW n \in Nodes, Ends(n), serving[n] = c, RpcIndex(n) = b PROVE FALSE
      <4>1. AllPassed(b)
        BY <3>2 DEF ServeInv, Ends, RpcCas
      <4> QED BY <2>2, <4>1 DEF AllPassed, Added
    <3> QED BY <2>1, <2>4, <3>1, <3>2, OpenStep
  <2>5. CASE ~ (current_barrier_id[c] > b)
    <3>1. pacon_barrier(c)
      BY <1>2, <2>5, TodoStep
    <3>2. /\ current_barrier_id'[c] = current_barrier_id[c] + 1
          /\ todo'[c] = OptNum[current_barrier_id[c] + 1][c]
      BY <3>1, Announce
    <3>3. current_barrier_id[c] = b
      BY <1>2, <2>1, <2>3, <2>5, <3>2
    <3> QED BY <3>2, <3>3 DEF Open
  <2> QED BY <2>4, <2>5
<1>3. ASSUME NEW c \in Clients, NEW i \in DOMAIN mq'[c], mq'[c][i].type = "BARRIER"
      PROVE  mq'[c][i].opt = OptNum[mq'[c][i].id][c]
  BY <1>3, AskedPreserved
<1>4. /\ \A c \in Clients : \A i \in DOMAIN mq'[c] :
            mq'[c][i].type = "BARRIER" => mq'[c][i].opt = OptNum[mq'[c][i].id][c]
      /\ \A c \in Clients : current_barrier_id'[c] > 0 => todo'[c] <= OptNum[current_barrier_id'[c]][c]
      /\ \A b \in Slots : \A c \in Clients :
            current_barrier_id'[c] > b /\ (\E d \in Clients : ~ Added(d, b)') => Open(c, b)' = OptNum[b + 1][c]
  BY <1>1, <1>2, <1>3
<1>5. Slots' = Slots
  BY DEF Slots, Index
<1> HIDE DEF IInv
<1> QED BY <1>4, <1>5 DEF AskInv

\* A current cas value belongs to the count that is stored.
LEMMA TokenPreserved ==
    ASSUME IInv, TokenInv, [Next]_vars
    PROVE  TokenInv'
<1> USE DEF IInv
<1>1. ASSUME NEW n \in Nodes, NEW b \in Index, <<"commit", n>> \in token'[b]
      PROVE  cpc'[n] = "cas" /\ MsgIndex(n)' = b /\ cval'[n] = opt_count'[b]
  <2>1. CASE <<"commit", n>> \in token[b]
    <3>1. cpc[n] = "cas" /\ MsgIndex(n) = b /\ cval[n] = opt_count[b]
      BY <2>1 DEF TokenInv
    <3>2. token'[b] # {}
      BY <1>1
    <3>3. opt_count'[b] = opt_count[b]
      BY <3>2, KvStep
    <3>4. CASE CommitStep(n)
      <4>1. CommitCas(n)
        BY <3>1, <3>4 DEF CommitStep, CommitSpin, CommitApply, CommitGetCas, CommitCount, CommitFlag
      <4>2. token' = [token EXCEPT ![b] = {}]
        BY <2>1, <3>1, <4>1 DEF CommitCas
      <4>3. token'[b] = {}
        BY <4>2 DEF TypeOK
      <4> QED BY <3>2, <4>3
    <3>5. ASSUME NEW c \in Clients, CommitRecv(n, c) PROVE FALSE
      BY <3>1, <3>5 DEF CommitRecv
    <3>6. CASE cur'[n] = cur[n] /\ cpc'[n] = cpc[n]
      <4>1. MsgIndex(n)' = b
        BY <3>1, <3>6, HeadKept
      <4>2. cval'[n] = cval[n]
        <5>1. ASSUME NEW c \in Clients, Client(c) PROVE UNCHANGED cval
          BY <5>1 DEF Client, SendOp, pacon_barrier, add_to_local_rpc, commitVars
        <5>2. ASSUME NEW m \in Nodes, CommitGetCas(m) PROVE cval'[n] = cval[n]
          BY <3>1, <5>2 DEF CommitGetCas, TypeOK
        <5>3. ASSUME NEW m \in Nodes, CommitStep(m), ~ CommitGetCas(m) PROVE UNCHANGED cval
          BY <5>3 DEF CommitStep, CommitSpin, CommitApply, CommitCas, CommitCount, CommitFlag
        <5>4. ASSUME NEW m \in Nodes, RpcStep(m) \/ ClusterStep(m) PROVE UNCHANGED cval
          BY <5>4 DEF RpcStep, RpcLocal, RpcExec, RpcGetCas, RpcCas, RpcLift, RpcUnflag, RpcIncr,
                      RpcReply, RpcPoll, RpcBcast, ClusterStep, ClusterIncr, ClusterClear, commitVars
        <5>5. ASSUME NEW m \in Nodes, NEW c \in Clients, CommitRecv(m, c) \/ RpcRecv(m, c)
              PROVE  UNCHANGED cval
          BY <5>5 DEF CommitRecv, RpcRecv, commitVars
        <5>6. CASE UNCHANGED vars
          BY <5>6 DEF vars, commitVars
        <5> QED BY <5>1, <5>2, <5>3, <5>4, <5>5, <5>6 DEF Next
      <4> QED BY <3>1, <3>3, <3>6, <4>1, <4>2
    <3> QED BY <3>4, <3>5, <3>6, ThreadStep
  <2>2. CASE <<"commit", n>> \notin token[b]
    <3>1. CommitGetCas(n) /\ MsgIndex(n) = b /\ opt_count'[b] = opt_count[b]
      <4>1. ASSUME NEW m \in Nodes, token'[b] = token[b] \cup {<<"commit", m>>} PROVE m = n
        BY <1>1, <2>2, <4>1
      <4>2. ASSUME NEW m \in Nodes, token'[b] = token[b] \cup {<<"rpc", m>>} PROVE FALSE
        BY <1>1, <2>2, <4>2
      <4>3. token'[b] # token[b] /\ token'[b] # {}
        BY <1>1, <2>2
      <4> QED BY <4>1, <4>2, <4>3, KvStep
    <3>2. cval'[n] = opt_count[b] /\ cpc'[n] = "cas" /\ cur'[n] = cur[n] /\ cpc[n] # "recv"
      BY <3>1 DEF CommitGetCas, TypeOK
    <3>3. MsgIndex(n)' = MsgIndex(n)
      BY <3>2, HeadKept
    <3> QED BY <3>1, <3>2, <3>3
  <2> QED BY <2>1, <2>2
<1>2. ASSUME NEW n \in Nodes, NEW b \in Index, <<"rpc", n>> \in token'[b]
      PROVE  rpc'[n] = "cas" /\ RpcIndex(n)' = b /\ rval'[n] = opt_count'[b]
  <2>1. CASE <<"rpc", n>> \in token[b]
    <3>1. rpc[n] = "cas" /\ RpcIndex(n) = b /\ rval[n] = opt_count[b]
      BY <2>1 DEF TokenInv
    <3>2. token'[b] # {}
      BY <1>2
    <3>3. opt_count'[b] = opt_count[b]
      BY <3>2, KvStep
    <3>4. CASE RpcStep(n)
      <4>1. RpcCas(n)
        BY <3>1, <3>4 DEF RpcStep, RpcLocal, RpcExec, Executing, RpcGetCas, RpcLift, RpcUnflag, RpcIncr,
                          RpcReply, RpcPoll, RpcBcast
      <4>2. token' = [token EXCEPT ![b] = {}]
        BY <2>1, <3>1, <4>1 DEF RpcCas
      <4>3. token'[b] = {}
        BY <4>2 DEF TypeOK
      <4> QED BY <3>2, <4>3
    <3>5. ASSUME NEW c \in Clients, RpcRecv(n, c) PROVE FALSE
      BY <3>1, <3>5 DEF RpcRecv
    <3>6. CASE rpc'[n] = rpc[n] /\ serving'[n] = serving[n] /\ rval'[n] = rval[n]
      BY <3>1, <3>3, <3>6, RequestKept
    <3> QED BY <3>4, <3>5, <3>6, RpcThreadStep
  <2>2. CASE <<"rpc", n>> \notin token[b]
    <3>1. RpcGetCas(n) /\ RpcIndex(n) = b /\ opt_count'[b] = opt_count[b]
      <4>1. ASSUME NEW m \in Nodes, token'[b] = token[b] \cup {<<"rpc", m>>} PROVE m = n
        BY <1>2, <2>2, <4>1
      <4>2. ASSUME NEW m \in Nodes, token'[b] = token[b] \cup {<<"commit", m>>} PROVE FALSE
        BY <1>2, <2>2, <4>2
      <4>3. token'[b] # token[b] /\ token'[b] # {}
        BY <1>2, <2>2
      <4> QED BY <4>1, <4>2, <4>3, KvStep
    <3>2. rval'[n] = opt_count[b] /\ rpc'[n] = "cas" /\ serving'[n] = serving[n] /\ rpc[n] # "recv"
      BY <3>1 DEF RpcGetCas, TypeOK
    <3>3. RpcIndex(n)' = RpcIndex(n)
      BY <3>2, RequestKept
    <3> QED BY <3>1, <3>2, <3>3
  <2> QED BY <2>1, <2>2
<1>3. Index' = Index
  BY DEF Index
<1> HIDE DEF IInv
<1> QED BY <1>1, <1>2, <1>3 DEF TokenInv

\* The operations of one client have one ticket each.
LEMMA TicketsOf ==
    ASSUME NEW c, NEW k \in 0 .. MaxOpt
    PROVE  IsFiniteSet({c} \X (1 .. k)) /\ Cardinality({c} \X (1 .. k)) = k
<1>1. k \in Nat
  BY DEF MaxOpt
<1>2. IsFiniteSet({c}) /\ Cardinality({c}) = 1
  BY FS_Singleton
<1>3. IsFiniteSet(1 .. k) /\ Cardinality(1 .. k) = k
  BY <1>1, FS_Interval
<1>4. IsFiniteSet({c} \X (1 .. k)) /\ Cardinality({c} \X (1 .. k)) = 1 * k
  BY <1>2, <1>3, FS_Product
<1> QED BY <1>1, <1>4

\* Tickets can be counted.
LEMMA TicketsFinite ==
    ASSUME NEW b
    PROVE  IsFiniteSet(Tickets(b))
<1>1. IsFiniteSet(1 .. MaxOpt)
  <2>1. 1 \in Int /\ MaxOpt \in Int
    BY DEF MaxOpt
  <2> QED BY <2>1, FS_Interval
<1>2. IsFiniteSet(Clients \X (1 .. MaxOpt))
  BY <1>1, FS_Product, ConstantsAssumption
<1>3. Tickets(b) \subseteq Clients \X (1 .. MaxOpt)
  BY DEF Tickets
<1> QED BY <1>2, <1>3, FS_Subset

\* The announcement that a commit thread is about to add is not in the count,
\* and all its operations are open.
LEMMA NotYetAdded ==
    ASSUME IInv, AskInv, NEW n \in Nodes, cpc[n] \in {"spin", "cas"}, Msg(n).type = "BARRIER",
           NEW c, c = cur[n], NEW b \in Slots, b = MsgIndex(n)
    PROVE  /\ c \in Clients /\ current_barrier_id[c] > b
           /\ ~ Added(c, b) /\ Open(c, b) = Msg(n).opt
<1> USE DEF IInv
<1>1. /\ c \in Clients /\ NodeOf[c] = n /\ mq[c] \in Seq(Message) /\ 1 \in DOMAIN mq[c]
      /\ Msg(n) = mq[c][1] /\ Msg(n) \in Message
  BY HeadOfQueue
<1>2. Msg(n).id = b + 1 /\ b \in Int
  BY <1>1, SlotFacts, MessageFields DEF MsgIndex
<1>3. ~ Beyond(mq[c][1], b) /\ ~ Counted(c, b)
  BY <1>1, <1>2 DEF Beyond, Counted
<1>4. ~ Added(c, b)
  BY <1>1, <1>3 DEF Added, Passed
<1>5. current_barrier_id[c] > b
  <2>1. mq[c][1].id <= current_barrier_id[c]
    BY <1>1 DEF QueueInv, Ordered
  <2>2. current_barrier_id[c] \in Int
    BY <1>1, ConstantsAssumption DEF TypeOK
  <2> QED BY <1>1, <1>2, <2>1, <2>2
<1>6. Open(c, b) = OptNum[b + 1][c]
  BY <1>1, <1>4, <1>5 DEF AskInv
<1>7. Msg(n).opt = OptNum[b + 1][c]
  BY <1>1, <1>2 DEF AskInv
<1> QED BY <1>1, <1>4, <1>5, <1>6, <1>7

\* The count stays the number of operations that are open.
LEMMA TicketPreserved ==
    ASSUME IInv, AskInv, TokenInv, TicketInv, ServeInv, [Next]_vars
    PROVE  TicketInv'
<1> USE DEF IInv
<1> SUFFICES ASSUME NEW b \in Index
             PROVE  opt_count'[b] = IF b \in Slots THEN Cardinality(Tickets(b)') ELSE 0
  BY DEF TicketInv, Index, Slots
<1> DEFINE All == Clients \X (1 .. MaxOpt)
           T == {t \in All : Added(t[1], b) /\ t[2] <= Open(t[1], b)}
           R == {t \in All : Added(t[1], b)' /\ t[2] <= Open(t[1], b)'}
<1>1. Tickets(b) = T /\ Tickets(b)' = R /\ IsFiniteSet(T)
  BY TicketsFinite DEF Tickets
<1>2. opt_count[b] = IF b \in Slots THEN Cardinality(T) ELSE 0
  BY <1>1 DEF TicketInv
<1>3. b \in Int /\ opt_count[b] \in Int
  BY ConstantsAssumption DEF Index, TypeOK
<1>4. ASSUME NEW n \in Nodes, CommitCas(n), <<"commit", n>> \in token[b], MsgIndex(n) = b,
             opt_count'[b] = cval[n] + Msg(n).opt, NEW c, c = cur[n]
      PROVE  b \in Slots /\ opt_count'[b] = Cardinality(R)
  <2> DEFINE k == Open(c, b)
             K == {c} \X (1 .. k)
  <2>1. cpc[n] = "cas"
    BY <1>4 DEF CommitCas
  <2>2. b \in Slots /\ Msg(n).type = "BARRIER"
    BY <1>4, <2>1, AnnouncedIndex DEF Slots
  <2>3. c \in Clients /\ ~ Added(c, b) /\ k = Msg(n).opt /\ NodeOf[c] = n
    BY <1>4, <2>1, <2>2, NotYetAdded, HeadOfQueue
  <2>4. /\ cpc' = [cpc EXCEPT ![n] = "count"] /\ cur' = cur
        /\ UNCHANGED <<current_barrier_id, todo>>
    BY <1>4 DEF CommitCas, clientVars
  <2>5. cpc'[n] = "count" /\ \A m \in Nodes \ {n} : cpc'[m] = cpc[m]
    BY <2>4 DEF TypeOK
  <2>6. MsgIndex(n)' = b
    BY <1>4, <2>1, <2>4, <2>5, HeadKept
  <2>7. Added(c, b)'
    BY <1>4, <2>3, <2>4, <2>5, <2>6 DEF Added
  <2>8. ASSUME NEW d \in Clients, d # c PROVE Added(d, b)' <=> Added(d, b)
    <3>1. ASSUME ~ Added(d, b), Added(d, b)' PROVE FALSE
      <4>1. cur[NodeOf[d]] = d /\ cpc'[NodeOf[d]] # cpc[NodeOf[d]] /\ NodeOf[d] \in Nodes
        BY <2>2, <3>1, AddedBy, ConstantsAssumption
      <4> QED BY <1>4, <2>5, <2>8, <4>1
    <3> QED BY <1>3, <3>1, AddedStable
  <2>9. \A d \in Clients : Open(d, b)' = Open(d, b)
    BY <2>4 DEF Open
  <2>10. k \in 0 .. MaxOpt
    BY <1>3, <2>3, OpenType
  <2>11. R = T \cup K
    <3>1. ASSUME NEW t \in All PROVE t \in R <=> t \in T \cup K
      <4>1. PICK d \in Clients, i \in 1 .. MaxOpt : t = <<d, i>>
        OBVIOUS
      <4>2. CASE d = c
        <5>1. t \in R <=> i <= k
          BY <2>3, <2>7, <2>9, <4>1, <4>2
        <5>2. t \notin T
          BY <2>3, <4>1, <4>2
        <5>3. t \in K <=> i <= k
          BY <2>10, <4>1, <4>2 DEF MaxOpt
        <5> QED BY <5>1, <5>2, <5>3
      <4>3. CASE d # c
        BY <2>8, <2>9, <4>1, <4>3
      <4> QED BY <4>2, <4>3
    <3>2. K \subseteq All
      BY <2>3, <2>10 DEF MaxOpt
    <3> QED BY <3>1, <3>2
  <2>12. T \cap K = {}
    BY <2>3
  <2>13. IsFiniteSet(K) /\ Cardinality(K) = k
    BY <2>10, TicketsOf
  <2> HIDE DEF T, K, R, k
  <2>14. Cardinality(R) = Cardinality(T) + k
    <3>1. Cardinality(T \cup K) = Cardinality(T) + Cardinality(K) - Cardinality(T \cap K)
      BY <1>1, <2>13, FS_Union
    <3>2. Cardinality({}) = 0 /\ Cardinality(T) \in Nat
      BY <1>1, FS_EmptySet, FS_CardinalityType
    <3>3. Cardinality(T \cap K) = 0
      BY <2>12, <3>2
    <3>4. k \in Int
      BY <2>10 DEF MaxOpt
    <3> QED BY <2>11, <2>13, <3>1, <3>2, <3>3, <3>4
  <2>15. cval[n] = opt_count[b]
    BY <1>4 DEF TokenInv
  <2> QED BY <1>2, <1>4, <2>2, <2>3, <2>14, <2>15
<1>5. ASSUME NEW n \in Nodes, Ends(n), RpcIndex(n) = b, opt_count'[b] = rval[n] - 1,
             NEW c, c = serving[n]
      PROVE  b \in Slots /\ opt_count'[b] = Cardinality(R)
  <2> DEFINE k == todo[c]
             x == <<c, k>>
  <2>1. rpc[n] = "cas" /\ <<"rpc", n>> \in token[b]
    BY <1>5 DEF Ends, RpcCas
  <2>2. b \in Slots /\ AllPassed(b)
    BY <1>5, <2>1 DEF ServeInv
  <2>3. /\ c \in Clients /\ k \in 1 .. MaxOpt /\ current_barrier_id[c] = b + 1
        /\ todo'[c] = k - 1 /\ current_barrier_id' = current_barrier_id
        /\ \A d \in Clients : d # c => todo'[d] = todo[d]
    BY <1>5, EndFacts
  <2>4. cpc' = cpc
    BY <1>5 DEF Ends, RpcCas, commitVars
  <2>5. \A d \in Clients : Added(d, b) /\ Added(d, b)'
    BY <1>3, <2>2, AddedStable DEF AllPassed, Added
  <2>6. Open(c, b) = k /\ Open(c, b)' = k - 1 /\ \A d \in Clients : d # c => Open(d, b)' = Open(d, b)
    BY <2>3 DEF Open
  <2>7. R = T \ {x}
    <3>1. ASSUME NEW t \in All PROVE t \in R <=> t \in T \ {x}
      <4>1. PICK d \in Clients, i \in 1 .. MaxOpt : t = <<d, i>>
        OBVIOUS
      <4>2. CASE d = c
        <5>1. t \in R <=> i <= k - 1
          BY <2>5, <2>6, <4>1, <4>2
        <5>2. t \in T <=> i <= k
          BY <2>5, <2>6, <4>1, <4>2
        <5>3. t = x <=> i = k
          BY <4>1, <4>2
        <5> QED BY <2>3, <5>1, <5>2, <5>3
      <4>3. CASE d # c
        <5>1. t # x
          BY <4>1, <4>3
        <5>2. t \in R <=> i <= Open(d, b)
          BY <2>5, <2>6, <4>1, <4>3
        <5>3. t \in T <=> i <= Open(d, b)
          BY <2>5, <4>1
        <5> QED BY <5>1, <5>2, <5>3
      <4> QED BY <4>2, <4>3
    <3> QED BY <3>1
  <2>8. x \in T
    BY <2>3, <2>5, <2>6
  <2> HIDE DEF T, R, x
  <2>9. Cardinality(R) = Cardinality(T) - 1
    BY <1>1, <2>7, <2>8, FS_RemoveElement
  <2>10. rval[n] = opt_count[b]
    BY <2>1 DEF TokenInv
  <2> QED BY <1>2, <1>5, <2>2, <2>9, <2>10
<1>6. ASSUME opt_count'[b] = opt_count[b], b \in Slots,
             ~ \E n \in Nodes : CommitCas(n) /\ <<"commit", n>> \in token[b] /\ MsgIndex(n) = b,
             ~ \E n \in Nodes : Ends(n) /\ RpcIndex(n) = b
      PROVE  R = T
  <2>1. ASSUME NEW d \in Clients, ~ Added(d, b), Added(d, b)' PROVE Open(d, b) = 0 /\ current_barrier_id[d] > b
    <3> DEFINE n == NodeOf[d]
    <3>1. /\ n \in Nodes /\ cur[n] = d /\ Msg(n).type = "BARRIER" /\ MsgIndex(n) = b
          /\ CommitSpin(n) /\ Msg(n).opt = 0
      BY <1>6, <2>1, AddedBy, ConstantsAssumption
    <3>2. cpc[n] = "spin"
      BY <3>1 DEF CommitSpin
    <3>3. Open(d, b) = Msg(n).opt /\ current_barrier_id[d] > b
      BY <1>6, <3>1, <3>2, NotYetAdded
    <3> QED BY <3>1, <3>3
  <2>2. ASSUME NEW d \in Clients, current_barrier_id[d] > b PROVE Open(d, b)' = Open(d, b)
    BY <1>3, <1>6, <2>2, OpenStep
  <2>3. ASSUME NEW d \in Clients, NEW i \in 1 .. MaxOpt
        PROVE  Added(d, b)' /\ i <= Open(d, b)' <=> Added(d, b) /\ i <= Open(d, b)
    <3>1. CASE Added(d, b)
      BY <1>3, <2>2, <3>1, AddedStable, AddedAnnounced
    <3>2. CASE ~ Added(d, b) /\ Added(d, b)'
      BY <2>1, <2>2, <3>2
    <3> QED BY <3>1, <3>2
  <2>4. ASSUME NEW t \in All PROVE t \in R <=> t \in T
    <3>1. PICK d \in Clients, i \in 1 .. MaxOpt : t = <<d, i>>
      OBVIOUS
    <3> QED BY <2>3, <3>1
  <2> QED BY <2>4
<1>7. CASE \E n \in Nodes : CommitCas(n) /\ <<"commit", n>> \in token[b] /\ MsgIndex(n) = b
  <2>1. PICK n \in Nodes : CommitCas(n) /\ <<"commit", n>> \in token[b] /\ MsgIndex(n) = b
    BY <1>7
  <2>2. opt_count' = [opt_count EXCEPT ![b] = cval[n] + Msg(n).opt]
    BY <2>1 DEF CommitCas
  <2>3. opt_count'[b] = cval[n] + Msg(n).opt
    BY <2>2 DEF TypeOK
  <2> QED BY <1>1, <1>4, <2>1, <2>3
<1>8. CASE \E n \in Nodes : Ends(n) /\ RpcIndex(n) = b
  <2>1. PICK n \in Nodes : Ends(n) /\ RpcIndex(n) = b
    BY <1>8
  <2>2. opt_count' = [opt_count EXCEPT ![b] = rval[n] - 1]
    BY <2>1 DEF Ends, RpcCas
  <2>3. opt_count'[b] = rval[n] - 1
    BY <2>2 DEF TypeOK
  <2> QED BY <1>1, <1>5, <2>1, <2>3
<1>9. CASE /\ ~ \E n \in Nodes : CommitCas(n) /\ <<"commit", n>> \in token[b] /\ MsgIndex(n) = b
           /\ ~ \E n \in Nodes : Ends(n) /\ RpcIndex(n) = b
  <2>1. opt_count'[b] = opt_count[b]
    BY <1>9, KvStep
  <2> HIDE DEF T, R
  <2> QED BY <1>1, <1>2, <1>6, <1>9, <2>1
<1> QED BY <1>7, <1>8, <1>9

-----------------------------------------------------------------------------
(* The server that lifts a barrier.                                        *)

\* A local RPC thread that has polled every node finds all clients past the
\* barrier.
LEMMA ExecPassed ==
    ASSUME IInv, NEW n \in Nodes, Executing(n)
    PROVE  AllPassed(RpcIndex(n))
<1> SUFFICES ASSUME NEW c \in Clients PROVE Passed(c, RpcIndex(n))
  BY DEF AllPassed
<1>1. NodeOf[c] \in Nodes /\ c \in ClientsOn(NodeOf[c])
  BY ConstantsAssumption DEF ClientsOn
<1> QED BY <1>1 DEF IInv, PollInv, Executing

\* When the count reaches zero all operations of the barrier have ended.
LEMMA LastEnds ==
    ASSUME IInv, LiftInv, TypeOK', TicketInv', [Next]_vars, NEW n \in Nodes, Ends(n), rval[n] - 1 = 0,
           NEW b, b = RpcIndex(n)
    PROVE  Finished(b)'
<1> USE DEF IInv, LiftInv
<1>1. rpc[n] = "cas" /\ <<"rpc", n>> \in token[b]
  BY DEF Ends, RpcCas
<1>2. b \in Slots /\ AllPassed(b) /\ b \in Int /\ b \in Index
  BY <1>1, SlotFacts DEF ServeInv
<1>3. opt_count'[b] = 0
  <2>1. opt_count' = [opt_count EXCEPT ![b] = rval[n] - 1]
    BY DEF Ends, RpcCas
  <2> QED BY <1>2, <2>1 DEF TypeOK
<1>4. Tickets(b)' = {}
  <2>1. IsFiniteSet(Tickets(b))'
    <3>1. IsFiniteSet(Clients \X (1 .. MaxOpt))
      <4>1. 1 \in Int /\ MaxOpt \in Int
        BY DEF MaxOpt
      <4>2. IsFiniteSet(1 .. MaxOpt)
        BY <4>1, FS_Interval
      <4> QED BY <4>2, FS_Product, ConstantsAssumption
    <3>2. Tickets(b)' \subseteq Clients \X (1 .. MaxOpt)
      BY DEF Tickets
    <3> QED BY <3>1, <3>2, FS_Subset
  <2>2. Cardinality(Tickets(b)') = 0
    BY <1>2, <1>3 DEF TicketInv, Slots, Index
  <2> QED BY <2>1, <2>2, FS_EmptySet
<1>5. ASSUME NEW c \in Clients PROVE current_barrier_id'[c] > b /\ Open(c, b)' = 0
  <2>1. Passed(c, b)'
    BY <1>2, PassedStable DEF AllPassed
  <2>2. Added(c, b)' /\ current_barrier_id'[c] > b
    BY <2>1 DEF Added, Passed
  <2>3. Open(c, b)' \in 0 .. MaxOpt
    BY <1>2 DEF TypeOK, Open, MaxOpt
  <2>4. <<c, 1>> \in Clients \X (1 .. MaxOpt)
    BY DEF MaxOpt
  <2>5. ~ (1 <= Open(c, b)')
    BY <1>4, <2>2, <2>4 DEF Tickets
  <2>6. Open(c, b)' = 0
    BY <2>3, <2>5 DEF MaxOpt
  <2> QED BY <2>2, <2>6
<1>6. \E c \in Clients : OptNum[b + 1][c] > 0
  <2> DEFINE c == serving[n]
  <2>1. c \in Clients /\ current_barrier_id[c] = b + 1 /\ todo[c] \in 1 .. MaxOpt
    BY EndFacts
  <2>2. current_barrier_id[c] \in 1 .. Rounds
    <3>1. current_barrier_id[c] \in 0 .. Rounds /\ Rounds \in Nat
      BY <2>1, ConstantsAssumption DEF TypeOK
    <3>2. b >= 0
      BY <1>2, SlotFacts
    <3> QED BY <1>2, <2>1, <3>1, <3>2
  <2>3. todo[c] <= OptNum[b + 1][c]
    BY <2>1, <2>2 DEF AskInv
  <2>4. OptNum[b + 1][c] \in 0 .. MaxOpt
    BY <2>1, <2>2, ConstantsAssumption
  <2> HIDE DEF c
  <2>5. OptNum[b + 1][c] > 0
    BY <2>1, <2>3, <2>4 DEF MaxOpt
  <2> QED BY <2>1, <2>5
<1> QED BY <1>5, <1>6 DEF Finished

\* While a barrier is lifted no operation of any barrier ends.
LEMMA NoEndWhileLifting ==
    ASSUME IInv, ServeInv, NEW m \in Nodes, NEW n \in Nodes, Lifting(m), Ends(n)
    PROVE  FALSE
<1> USE DEF IInv
<1> DEFINE b == RpcIndex(m)
           e == RpcIndex(n)
<1>1. rpc[m] # "recv" /\ rpc[n] = "cas"
  BY DEF Lifting, Ends, RpcCas
<1>2. /\ serving[m] \in Clients /\ current_barrier_id[serving[m]] = b + 1
      /\ b \in Int /\ e \in Int
  BY <1>1, RequestedIndex, ConstantsAssumption DEF Index
<1>3. serving[n] \in Clients /\ current_barrier_id[serving[n]] = e + 1 /\ todo[serving[n]] > 0
  BY <1>1, RequestedIndex DEF CallInv
<1>4. AllPassed(b) /\ AllPassed(e) /\ Finished(b)
  BY <1>1 DEF ServeInv
<1>5. current_barrier_id[serving[n]] > b /\ current_barrier_id[serving[m]] > e
  BY <1>2, <1>3, <1>4 DEF AllPassed, Passed
<1> HIDE DEF b, e
<1>6. b = e
  BY <1>2, <1>3, <1>5
<1> QED BY <1>2, <1>3, <1>4, <1>6, NotFinished

\* An operation runs, and a barrier is lifted, when all clients have passed; one
\* server lifts it, after the last operation.
LEMMA ServePreserved ==
    ASSUME IInv, IInv', LiftInv, TicketInv', [Next]_vars
    PROVE  ServeInv'
<1> USE DEF IInv, LiftInv
<1>1. ASSUME NEW n \in Nodes, NEW b \in Index, barrier'[n][b] = 1 PROVE b \in Slots
  <2>1. CASE barrier[n][b] = 1
    BY <2>1 DEF ServeInv
  <2>2. CASE CommitCount(n) /\ b = MsgIndex(n)
    <3>1. cpc[n] = "count"
      BY <2>2 DEF CommitCount
    <3> QED BY <2>2, <3>1, AnnouncedIndex DEF Slots
  <2> QED BY <1>1, <2>1, <2>2, StopStep
<1>2. ASSUME NEW n \in Nodes, rpc'[n] \in {"poll", "get", "cas", "lift", "unflag", "bcast"}
      PROVE  RpcIndex(n)' = RpcIndex(n) /\ RpcIndex(n) \in Slots
  <2>1. RpcIndex(n)' = RpcIndex(n) /\ rpc[n] # "recv"
    BY <1>2, ServeStep
  <2>2. CASE rpc[n] \in {"poll", "get", "cas", "lift", "unflag", "bcast"}
    BY <2>1, <2>2 DEF ServeInv, Lifting
  <2>3. CASE RpcLocal(n)
    <3>1. RpcIndex(n) \in Index
      BY <2>1, RequestedIndex
    <3>2. barrier[n][RpcIndex(n)] = 1
      BY <2>3, <3>1 DEF RpcLocal, TypeOK
    <3> QED BY <2>1, <3>1, <3>2 DEF ServeInv
  <2>4. CASE Ends(n) \/ RpcExec(n)
    BY <2>2, <2>4 DEF Ends, RpcCas, RpcExec, Executing
  <2> QED BY <1>2, <2>2, <2>3, <2>4, ServeStep
<1>3. ASSUME NEW n \in Nodes, rpc'[n] \in {"get", "cas", "lift", "unflag", "bcast"},
             NEW b, b = RpcIndex(n)
      PROVE  AllPassed(b)'
  <2>1. b \in Int
    BY <1>2, <1>3, SlotFacts
  <2>2. AllPassed(b)
    <3>1. CASE rpc[n] \in {"get", "cas", "lift", "unflag", "bcast"}
      BY <1>3, <3>1 DEF ServeInv, Lifting
    <3>2. CASE RpcExec(n)
      BY <1>3, <3>2, ExecPassed DEF RpcExec
    <3>3. CASE Ends(n)
      BY <3>1, <3>3 DEF Ends, RpcCas
    <3> QED BY <1>3, <3>1, <3>2, <3>3, ServeStep
  <2> QED BY <2>1, <2>2, PassedStable DEF AllPassed
<1>4. ASSUME NEW n \in Nodes, rpc'[n] \in {"lift", "unflag", "bcast"}
      PROVE  Lifting(n) \/ (Ends(n) /\ rpc'[n] = "lift" /\ rval[n] - 1 = 0)
  BY <1>4, ServeStep DEF Lifting
<1>5. ASSUME NEW n \in Nodes, rpc'[n] \in {"lift", "unflag", "bcast"}, NEW b, b = RpcIndex(n)
      PROVE  Finished(b)'
  <2>1. b \in Int
    BY <1>2, <1>5, SlotFacts
  <2>2. CASE Lifting(n)
    <3>1. Finished(b)
      BY <1>5, <2>2 DEF ServeInv
    <3> QED BY <2>1, <3>1, FinishedStable
  <2>3. CASE Ends(n) /\ rval[n] - 1 = 0
    BY <1>5, <2>3, LastEnds
  <2> QED BY <1>4, <1>5, <2>2, <2>3
<1>6. ASSUME NEW m \in Nodes, NEW n \in Nodes, rpc'[m] \in {"lift", "unflag", "bcast"},
             rpc'[n] \in {"lift", "unflag", "bcast"}
      PROVE  m = n
  <2>1. CASE Lifting(m) /\ Lifting(n)
    BY <2>1 DEF ServeInv
  <2>2. CASE Lifting(m) /\ Ends(n)
    BY <2>2, NoEndWhileLifting
  <2>3. CASE Lifting(n) /\ Ends(m)
    BY <2>3, NoEndWhileLifting
  <2>4. CASE Ends(m) /\ Ends(n)
    BY <1>6, <2>4 DEF Ends, RpcCas, TypeOK
  <2> QED BY <1>4, <1>6, <2>1, <2>2, <2>3, <2>4
<1> HIDE DEF IInv, LiftInv
<1>7. ASSUME NEW n \in Nodes
      PROVE  /\ \A b \in Index : barrier'[n][b] = 1 => b \in Slots
             /\ rpc'[n] \in {"poll", "get", "cas"} \/ Lifting(n)' => RpcIndex(n)' \in Slots
             /\ rpc'[n] \in {"get", "cas"} \/ Lifting(n)' => AllPassed(RpcIndex(n))'
             /\ Lifting(n)' => Finished(RpcIndex(n))'
             /\ \A m \in Nodes : Lifting(m)' /\ Lifting(n)' => m = n
  <2>1. \A m \in Nodes : Lifting(m)' <=> rpc'[m] \in {"lift", "unflag", "bcast"}
    BY DEF Lifting
  <2>2. rpc'[n] \in {"get", "cas", "lift", "unflag", "bcast"} => AllPassed(RpcIndex(n))'
    <3>1. ASSUME NEW b, b = RpcIndex(n), RpcIndex(n)' = b, AllPassed(b)' PROVE AllPassed(RpcIndex(n))'
      BY <3>1 DEF AllPassed
    <3> QED BY <1>2, <1>3, <3>1
  <2>3. rpc'[n] \in {"lift", "unflag", "bcast"} => Finished(RpcIndex(n))'
    <3>1. ASSUME NEW b, b = RpcIndex(n), RpcIndex(n)' = b, Finished(b)' PROVE Finished(RpcIndex(n))'
      BY <3>1 DEF Finished
    <3> QED BY <1>2, <1>5, <3>1
  <2> QED BY <1>1, <1>2, <1>6, <2>1, <2>2, <2>3
<1>8. Index' = Index /\ Slots' = Slots
  BY DEF Index, Slots
<1> QED BY <1>7, <1>8 DEF ServeInv

\* Where the messages of a broadcast and their handling come from.
LEMMA BcastPreserved ==
    ASSUME IInv, BcastInv, [Next]_vars
    PROVE  BcastInv'
<1> DEFINE Same == UNCHANGED <<rpc, tell, out, xserv>>
<1>1. TypeOK /\ None \notin Nodes
  BY ConstantsAssumption DEF IInv
<1>2. CASE Same
  BY <1>2 DEF BcastInv
<1>3. ASSUME NEW c \in Clients, Client(c) PROVE Same
  BY <1>3 DEF Client, SendOp, pacon_barrier, add_to_local_rpc, rpcVars
<1>4. ASSUME NEW n \in Nodes, CommitStep(n) PROVE Same
  BY <1>4 DEF CommitStep, CommitSpin, CommitApply, CommitGetCas, CommitCas, CommitCount,
              CommitFlag, rpcVars
<1>5. ASSUME NEW n \in Nodes, NEW c \in Clients, CommitRecv(n, c) PROVE Same
  BY <1>5 DEF CommitRecv, rpcVars
<1>6. ASSUME NEW n \in Nodes, rpc[n] # "bcast", UNCHANGED <<tell, out, xserv>>,
             \A m \in Nodes \ {n} : rpc'[m] = rpc[m]
      PROVE  BcastInv'
  BY <1>6 DEF BcastInv
<1>7. ASSUME NEW n \in Nodes, NEW c \in Clients, RpcRecv(n, c) PROVE BcastInv'
  BY <1>1, <1>6, <1>7 DEF RpcRecv, TypeOK
<1>8. ASSUME NEW n \in Nodes,
             \/ RpcLocal(n) \/ RpcExec(n) \/ RpcGetCas(n) \/ RpcCas(n) \/ RpcLift(n) \/ RpcReply(n)
             \/ \E m \in Nodes : RpcPoll(n, m)
      PROVE  BcastInv'
  <2>1. rpc[n] # "bcast" /\ UNCHANGED <<tell, out, xserv>>
    BY <1>8 DEF RpcLocal, RpcExec, Executing, RpcGetCas, RpcCas, RpcLift, RpcReply, RpcPoll
  <2>2. \A m \in Nodes \ {n} : rpc'[m] = rpc[m]
    BY <1>1, <1>8 DEF RpcLocal, RpcExec, RpcGetCas, RpcCas, RpcLift, RpcReply, RpcPoll, TypeOK
  <2> QED BY <1>6, <2>1, <2>2
<1>9. ASSUME NEW n \in Nodes, RpcUnflag(n) PROVE BcastInv'
  <2>1. /\ rpc[n] = "unflag" /\ rpc'[n] = "bcast" /\ tell'[n] = Nodes \ {n} /\ out' = out /\ xserv' = xserv
        /\ \A m \in Nodes \ {n} : rpc'[m] = rpc[m] /\ tell'[m] = tell[m]
    BY <1>1, <1>9 DEF RpcUnflag, TypeOK
  <2>2. out[n] = None
    BY <2>1 DEF BcastInv
  <2> QED BY <1>1, <2>1, <2>2 DEF BcastInv
<1>10. ASSUME NEW n \in Nodes, NEW o \in Nodes, RpcBcast(n, o) PROVE BcastInv'
  <2>1. /\ rpc[n] = "bcast" /\ rpc' = rpc /\ out[n] = None /\ o \in tell[n] /\ out'[n] = o
        /\ tell'[n] = tell[n] \ {o} /\ xserv' = xserv
        /\ \A m \in Nodes \ {n} : out'[m] = out[m] /\ tell'[m] = tell[m]
    BY <1>1, <1>10 DEF RpcBcast, TypeOK
  <2>2. o # n
    BY <2>1 DEF BcastInv
  <2>3. ASSUME NEW m \in Nodes, xserv[m] # None PROVE out'[xserv[m]] = m
    <3>1. out[xserv[m]] = m /\ xserv[m] \in Nodes
      BY <1>1, <2>3 DEF BcastInv, TypeOK
    <3>2. xserv[m] # n
      BY <1>1, <2>1, <3>1
    <3> QED BY <2>1, <3>1, <3>2
  <2> QED BY <1>1, <2>1, <2>2, <2>3 DEF BcastInv
<1>11. ASSUME NEW n \in Nodes, RpcIncr(n) PROVE BcastInv'
  BY <1>1, <1>11 DEF RpcIncr, BcastInv, TypeOK
<1>12. ASSUME NEW m \in Nodes, NEW n \in Nodes, ClusterClear(m, n) PROVE BcastInv'
  <2>1. /\ UNCHANGED <<rpc, tell, out>> /\ out[n] = m /\ xserv'[m] = n
        /\ \A o \in Nodes \ {m} : xserv'[o] = xserv[o]
    BY <1>1, <1>12 DEF ClusterClear, rpcVars, TypeOK
  <2> QED BY <1>1, <2>1 DEF BcastInv
<1>13. ASSUME NEW m \in Nodes, ClusterIncr(m) PROVE BcastInv'
  <2> DEFINE n == xserv[m]
  <2>1. n \in Nodes /\ out[n] = m
    BY <1>1, <1>13 DEF ClusterIncr, BcastInv, TypeOK
  <2>2. /\ UNCHANGED <<rpc, tell>> /\ out'[n] = None /\ xserv'[m] = None
        /\ \A o \in Nodes \ {m} : xserv'[o] = xserv[o]
        /\ \A o \in Nodes \ {n} : out'[o] = out[o]
    BY <1>1, <1>13, <2>1 DEF ClusterIncr, TypeOK
  <2>3. ASSUME NEW o \in Nodes, xserv'[o] # None PROVE out'[xserv'[o]] = o
    <3>1. o # m /\ xserv'[o] = xserv[o] /\ xserv[o] \in Nodes /\ out[xserv[o]] = o
      BY <1>1, <2>2, <2>3 DEF BcastInv, TypeOK
    <3>2. xserv[o] # n
      BY <2>1, <3>1
    <3> QED BY <2>2, <3>1, <3>2
  <2>4. ASSUME NEW o \in Nodes
        PROVE  /\ rpc'[o] # "bcast" => out'[o] = None
               /\ tell'[o] \subseteq Nodes \ {o}
               /\ out'[o] # o /\ out'[o] \notin tell'[o]
    <3>1. /\ rpc[o] # "bcast" => out[o] = None
          /\ tell[o] \subseteq Nodes \ {o} /\ out[o] # o /\ out[o] \notin tell[o]
      BY DEF BcastInv
    <3> QED BY <1>1, <2>2, <3>1
  <2> QED BY <2>3, <2>4 DEF BcastInv
<1>14. CASE UNCHANGED vars
  BY <1>2, <1>14 DEF vars, rpcVars
<1> QED BY <1>2, <1>3, <1>4, <1>5, <1>7, <1>8, <1>9, <1>10, <1>11, <1>12, <1>13, <1>14
        DEF Next, RpcStep, ClusterStep

\* What is told comes from the last operation of a barrier.
LEMMA PendingStep ==
    ASSUME IInv, BcastInv, [Next]_vars, NEW m \in Nodes, NEW n \in Nodes, Pending(n, m)'
    PROVE  /\ RpcIndex(n)' = RpcIndex(n) /\ RpcIndex(n) \in Index
           /\ Pending(n, m) \/ (Ends(n) /\ rpc'[n] = "lift")
<1>1. TypeOK /\ CallInv /\ None \notin Nodes
  BY ConstantsAssumption DEF IInv
<1>2. rpc'[n] \in {"lift", "unflag", "bcast"}
  BY DEF Pending, Lifting
<1>3. RpcIndex(n)' = RpcIndex(n) /\ rpc[n] # "recv"
  BY <1>1, <1>2, ServeStep
<1>4. RpcIndex(n) \in Index
  BY <1>1, <1>3, RequestedIndex
<1>5. rpc[n] \in {"lift", "unflag"} => Pending(n, m)
  BY DEF Pending, Lifting
<1>6. ASSUME rpc[n] = "bcast", rpc'[n] = "bcast" PROVE Pending(n, m)
  <2>1. m = n \/ m \in tell'[n] \/ out'[n] = m
    BY <1>6 DEF Pending
  <2>2. CASE m = n \/ (m \in tell[n] \/ out[n] = m)
    BY <1>6, <2>2 DEF Pending, Lifting
  <2>3. tell'[n] \subseteq tell[n]
    <3>1. CASE RpcStep(n)
      BY <1>1, <1>6, <3>1 DEF RpcStep, RpcLocal, RpcExec, Executing, RpcGetCas, RpcCas, RpcLift, RpcUnflag,
                         RpcIncr, RpcReply, RpcPoll, RpcBcast, TypeOK
    <3>2. ASSUME NEW c \in Clients, RpcRecv(n, c) PROVE tell' = tell
      BY <3>2 DEF RpcRecv
    <3> QED BY <1>1, <3>1, <3>2, RpcThreadStep
  <2>4. out'[n] = m => out[n] = m \/ m \in tell[n]
    <3>1. ASSUME NEW o \in Nodes, NEW p \in Nodes, RpcBcast(o, p) PROVE out'[n] = m => out[n] = m \/ m \in tell[n]
      BY <1>1, <3>1 DEF RpcBcast, TypeOK
    <3>2. ASSUME NEW o \in Nodes, ClusterIncr(o) PROVE out'[n] = m => out[n] = m
      BY <1>1, <3>2 DEF ClusterIncr, TypeOK
    <3>3. ASSUME NEW c \in Clients, Client(c) PROVE UNCHANGED out
      BY <3>3 DEF Client, SendOp, pacon_barrier, add_to_local_rpc, rpcVars
    <3>4. ASSUME NEW o \in Nodes, CommitStep(o) PROVE UNCHANGED out
      BY <3>4 DEF CommitStep, CommitSpin, CommitApply, CommitGetCas, CommitCas, CommitCount,
                  CommitFlag, rpcVars
    <3>5. ASSUME NEW o \in Nodes, NEW c \in Clients, CommitRecv(o, c) \/ RpcRecv(o, c) PROVE UNCHANGED out
      BY <3>5 DEF CommitRecv, RpcRecv, rpcVars
    <3>6. ASSUME NEW o \in Nodes, RpcStep(o), ~ \E p \in Nodes : RpcBcast(o, p) PROVE UNCHANGED out
      BY <3>6 DEF RpcStep, RpcLocal, RpcExec, RpcGetCas, RpcCas, RpcLift, RpcUnflag,
                  RpcIncr, RpcReply, RpcPoll
    <3>7. ASSUME NEW o \in Nodes, NEW p \in Nodes, ClusterClear(o, p) PROVE UNCHANGED out
      BY <3>7 DEF ClusterClear, rpcVars
    <3>8. CASE UNCHANGED vars
      BY <3>8 DEF vars, rpcVars
    <3> QED BY <3>1, <3>2, <3>3, <3>4, <3>5, <3>6, <3>7, <3>8 DEF Next, ClusterStep
  <2> QED BY <2>1, <2>2, <2>3, <2>4
<1> QED BY <1>1, <1>2, <1>3, <1>4, <1>5, <1>6, ServeStep

\* waiting_barrier_id of a node moves on when the lifting has reached it.
LEMMA WaitStep ==
    ASSUME IInv, BcastInv, [Next]_vars, NEW m \in Nodes
    PROVE  \/ waiting_barrier_id'[m] = waiting_barrier_id[m]
           \/ /\ waiting_barrier_id'[m] = waiting_barrier_id[m] + 1
              /\ UNCHANGED <<current_barrier_id, todo, barrier>>
              /\ \E n \in Nodes : /\ Pending(n, m) /\ ~ Pending(n, m)'
                                  /\ rpc[n] = "bcast"
                                  /\ n = m \/ xserv[m] = n
<1>1. TypeOK /\ None \notin Nodes
  BY ConstantsAssumption DEF IInv
<1>2. ASSUME NEW n \in Nodes, RpcIncr(n), n # m PROVE waiting_barrier_id'[m] = waiting_barrier_id[m]
  BY <1>1, <1>2 DEF RpcIncr, TypeOK
<1>3. ASSUME RpcIncr(m)
      PROVE  /\ waiting_barrier_id'[m] = waiting_barrier_id[m] + 1
             /\ UNCHANGED <<current_barrier_id, todo, barrier>>
             /\ Pending(m, m) /\ ~ Pending(m, m)' /\ rpc[m] = "bcast"
  BY <1>1, <1>3 DEF RpcIncr, TypeOK, clientVars, Pending, Lifting
<1>4. ASSUME NEW o \in Nodes, ClusterIncr(o), o # m PROVE waiting_barrier_id'[m] = waiting_barrier_id[m]
  BY <1>1, <1>4 DEF ClusterIncr, TypeOK
<1>5. ASSUME ClusterIncr(m), NEW n, n = xserv[m]
      PROVE  /\ waiting_barrier_id'[m] = waiting_barrier_id[m] + 1
             /\ UNCHANGED <<current_barrier_id, todo, barrier>>
             /\ n \in Nodes /\ Pending(n, m) /\ ~ Pending(n, m)' /\ rpc[n] = "bcast"
  <2>1. n \in Nodes /\ out[n] = m
    BY <1>1, <1>5 DEF ClusterIncr, BcastInv, TypeOK
  <2>2. rpc[n] = "bcast" /\ n # m /\ m \notin tell[n]
    BY <1>1, <2>1 DEF BcastInv
  <2>3. /\ waiting_barrier_id'[m] = waiting_barrier_id[m] + 1 /\ rpc' = rpc /\ tell' = tell
        /\ UNCHANGED <<current_barrier_id, todo, barrier>> /\ out'[n] = None
    BY <1>1, <1>5, <2>1 DEF ClusterIncr, TypeOK, clientVars
  <2> QED BY <1>1, <2>1, <2>2, <2>3 DEF Pending, Lifting
<1>6. ASSUME NEW c \in Clients, Client(c) PROVE UNCHANGED waiting_barrier_id
  BY <1>6 DEF Client, SendOp, pacon_barrier, add_to_local_rpc, nodeVars
<1>7. ASSUME NEW n \in Nodes, CommitStep(n) PROVE UNCHANGED waiting_barrier_id
  BY <1>7 DEF CommitStep, CommitSpin, CommitApply, CommitGetCas, CommitCas, CommitCount,
              CommitFlag, nodeVars
<1>8. ASSUME NEW n \in Nodes, NEW c \in Clients, CommitRecv(n, c) \/ RpcRecv(n, c)
      PROVE  UNCHANGED waiting_barrier_id
  BY <1>8 DEF CommitRecv, RpcRecv, nodeVars
<1>9. ASSUME NEW n \in Nodes, RpcStep(n), ~ RpcIncr(n) PROVE UNCHANGED waiting_barrier_id
  BY <1>9 DEF RpcStep, RpcLocal, RpcExec, RpcGetCas, RpcCas, RpcLift, RpcUnflag, RpcReply, RpcPoll,
              RpcBcast, nodeVars
<1>10. ASSUME NEW n \in Nodes, NEW o \in Nodes, ClusterClear(n, o) PROVE UNCHANGED waiting_barrier_id
  BY <1>10 DEF ClusterClear
<1>11. CASE UNCHANGED vars
  BY <1>11 DEF vars, nodeVars
<1> QED BY <1>2, <1>3, <1>4, <1>5, <1>6, <1>7, <1>8, <1>9, <1>10, <1>11 DEF Next, ClusterStep

\* No server is ahead of a client.
LEMMA WaitBehind ==
    ASSUME IInv, WaitInv, NEW n \in Nodes, NEW c \in Clients
    PROVE  waiting_barrier_id[n] <= current_barrier_id[c]
<1>1. waiting_barrier_id[n] \in Nat /\ current_barrier_id[c] \in Nat
  BY ConstantsAssumption DEF IInv, TypeOK
<1>2. CASE waiting_barrier_id[n] > 0
  <2>1. current_barrier_id[c] > waiting_barrier_id[n] - 1
    BY <1>2 DEF WaitInv, AllPassed, Passed
  <2> QED BY <1>1, <2>1
<1> QED BY <1>1, <1>2

\* waiting_barrier_id stays behind the clients and behind what is lifted.
LEMMA WaitPreserved ==
    ASSUME IInv, LiftInv, [Next]_vars
    PROVE  WaitInv'
<1> USE DEF IInv, LiftInv
<1>1. ASSUME NEW m \in Nodes
      PROVE  waiting_barrier_id[m] \in Nat /\ \A c \in Clients : current_barrier_id[c] \in Nat /\ todo[c] \in Nat
  <2>1. /\ waiting_barrier_id[m] \in Nat
        /\ \A c \in Clients : current_barrier_id[c] \in 0 .. Rounds /\ todo[c] \in 0 .. MaxOpt
    BY DEF TypeOK
  <2>2. Rounds \in Nat
    BY ConstantsAssumption
  <2> QED BY <2>1, <2>2 DEF MaxOpt
<1>2. ASSUME NEW m \in Nodes, NEW n \in Nodes, Pending(n, m)
      PROVE  /\ RpcIndex(n) \in Int /\ waiting_barrier_id[m] <= RpcIndex(n)
             /\ AllPassed(RpcIndex(n)) /\ Finished(RpcIndex(n)) /\ Lifting(n)
  BY <1>2, SlotFacts DEF Pending, ServeInv, WaitInv
<1>3. ASSUME NEW m \in Nodes, waiting_barrier_id'[m] > 0, NEW w, w = waiting_barrier_id'[m] - 1
      PROVE  AllPassed(w)'
  <2>1. CASE waiting_barrier_id'[m] = waiting_barrier_id[m]
    <3>1. AllPassed(w) /\ w \in Int
      BY <1>1, <1>3, <2>1 DEF WaitInv
    <3> QED BY <3>1, PassedStable DEF AllPassed
  <2>2. ASSUME NEW n \in Nodes, Pending(n, m), waiting_barrier_id'[m] = waiting_barrier_id[m] + 1
        PROVE  AllPassed(w)'
    <3>1. RpcIndex(n) \in Int /\ w \in Int /\ w <= RpcIndex(n) /\ AllPassed(RpcIndex(n))
      BY <1>1, <1>2, <1>3, <2>2
    <3>2. AllPassed(w)
      BY <3>1, PassedDown DEF AllPassed
    <3> QED BY <3>1, <3>2, PassedStable DEF AllPassed
  <2> QED BY <2>1, <2>2, WaitStep
<1>4. ASSUME NEW m \in Nodes, NEW c \in Clients, todo'[c] > 0
      PROVE  waiting_barrier_id'[m] < current_barrier_id'[c]
  <2>1. CASE waiting_barrier_id'[m] = waiting_barrier_id[m]
    <3>1. CASE current_barrier_id'[c] = current_barrier_id[c] /\ (todo'[c] = todo[c] \/ todo'[c] = todo[c] - 1)
      <4>1. todo[c] > 0
        BY <1>1, <1>4, <3>1
      <4> QED BY <2>1, <3>1, <4>1 DEF WaitInv
    <3>2. CASE pacon_barrier(c)
      <4>1. current_barrier_id'[c] = current_barrier_id[c] + 1
        BY <3>2, Announce
      <4>2. waiting_barrier_id[m] <= current_barrier_id[c]
        BY WaitBehind
      <4> QED BY <1>1, <2>1, <4>1, <4>2
    <3> QED BY <3>1, <3>2, TodoStep
  <2>2. ASSUME NEW n \in Nodes, Pending(n, m), waiting_barrier_id'[m] = waiting_barrier_id[m] + 1,
               UNCHANGED <<current_barrier_id, todo>>
        PROVE  waiting_barrier_id'[m] < current_barrier_id'[c]
    <3> DEFINE b == RpcIndex(n)
    <3>1. b \in Int /\ waiting_barrier_id[m] <= b /\ Finished(b)
      BY <1>2, <2>2
    <3> HIDE DEF b
    <3>2. current_barrier_id[c] > b
      BY <3>1 DEF Finished
    <3>3. current_barrier_id[c] # b + 1
      BY <1>4, <2>2, <3>1, NotFinished
    <3> QED BY <1>1, <2>2, <3>1, <3>2, <3>3
  <2> QED BY <2>1, <2>2, WaitStep
<1>5. ASSUME NEW m \in Nodes, NEW n \in Nodes, Pending(n, m)'
      PROVE  waiting_barrier_id'[m] <= RpcIndex(n)'
  <2>1. RpcIndex(n)' = RpcIndex(n)
    BY <1>5, PendingStep
  <2>2. CASE Pending(n, m)
    <3>1. ASSUME NEW o \in Nodes, Pending(o, m), ~ Pending(o, m)' PROVE FALSE
      <4>1. o = n
        BY <1>2, <2>2, <3>1 DEF ServeInv
      <4> QED BY <1>5, <3>1, <4>1
    <3>2. waiting_barrier_id'[m] = waiting_barrier_id[m]
      BY <3>1, WaitStep
    <3> QED BY <1>2, <2>1, <2>2, <3>2
  <2>3. CASE Ends(n)
    <3>1. waiting_barrier_id' = waiting_barrier_id
      BY <2>3 DEF Ends, RpcCas, nodeVars
    <3>2. /\ serving[n] \in Clients /\ current_barrier_id[serving[n]] = RpcIndex(n) + 1
          /\ todo[serving[n]] > 0 /\ RpcIndex(n) \in Int
      BY <2>3, EndFacts, ConstantsAssumption DEF Index, MaxOpt
    <3>3. waiting_barrier_id[m] < RpcIndex(n) + 1
      BY <3>2 DEF WaitInv
    <3> QED BY <1>1, <2>1, <3>1, <3>2, <3>3
  <2> QED BY <1>5, <2>2, <2>3, PendingStep
<1> HIDE DEF IInv, LiftInv
<1>6. ASSUME NEW m \in Nodes, waiting_barrier_id'[m] > 0 PROVE AllPassed(waiting_barrier_id[m] - 1)'
  <2>1. PICK w : w = waiting_barrier_id'[m] - 1
    OBVIOUS
  <2>2. AllPassed(w)'
    BY <1>3, <1>6, <2>1
  <2> QED BY <2>1, <2>2 DEF AllPassed
<1> QED BY <1>4, <1>5, <1>6 DEF WaitInv

\* No operation is announced when the cluster starts.
LEMMA LiftInit ==
    ASSUME Init
    PROVE  LiftInv
<1>1. /\ \A c \in Clients : current_barrier_id[c] = 0 /\ todo[c] = 0 /\ mq[c] = <<>>
      /\ \A n \in Nodes : /\ cpc[n] = "recv" /\ rpc[n] = "recv" /\ out[n] = None /\ tell[n] = {}
                          /\ xserv[n] = None /\ waiting_barrier_id[n] = 0
      /\ \A b \in Index : token[b] = {} /\ opt_count[b] = 0
  BY DEF Init
<1>2. None \notin Nodes /\ NodeOf \in [Clients -> Nodes]
  BY ConstantsAssumption
<1>3. AskInv
  <2>1. \A b \in Slots : b \in Nat
    BY SlotFacts
  <2> QED BY <1>1, <2>1 DEF AskInv
<1>4. TokenInv
  BY <1>1 DEF TokenInv
<1>5. ASSUME NEW b \in Index PROVE Tickets(b) = {}
  <2>1. b \in Nat
    BY ConstantsAssumption DEF Index
  <2>2. \A c \in Clients : ~ Added(c, b)
    BY <1>1, <1>2, <2>1 DEF Added, Passed
  <2> QED BY <2>2 DEF Tickets
<1>6. TicketInv
  BY <1>1, <1>5, FS_EmptySet DEF TicketInv
<1>7. \A n \in Nodes, b \in Index : barrier[n][b] = 0
  BY DEF Init
<1>8. ServeInv
  BY <1>1, <1>7 DEF ServeInv, Lifting
<1>9. BcastInv /\ WaitInv
  BY <1>1, <1>2 DEF BcastInv, WaitInv, Pending, Lifting
<1> QED BY <1>3, <1>4, <1>6, <1>8, <1>9 DEF LiftInv

\* Every step keeps it.
LEMMA LiftStep ==
    ASSUME IInv, IInv', LiftInv, [Next]_vars
    PROVE  LiftInv'
<1>1. AskInv' /\ TokenInv' /\ TicketInv'
  BY AskPreserved, TokenPreserved, TicketPreserved DEF LiftInv
<1>2. ServeInv' /\ BcastInv' /\ WaitInv'
  BY <1>1, ServePreserved, BcastPreserved, WaitPreserved DEF LiftInv
<1> QED BY <1>1, <1>2 DEF LiftInv

\* The count, the lifting server and the progress of waiting_barrier_id, in
\* every reachable state, whether or not the application waits (Sync).
THEOREM LiftInvariant == Spec => []LiftInv
<1>1. Init => LiftInv
  BY LiftInit
<1>2. IInv /\ IInv' /\ LiftInv /\ [Next]_vars => LiftInv'
  BY LiftStep
<1> QED BY <1>1, <1>2, InductiveInvariant, PTL DEF Spec

\* A barrier is lifted once: the count of open operations
\* (broadcast_barrier_end_new) never falls below zero, no two servers lift a
\* barrier, and waiting_barrier_id is never ahead of a client.
THEOREM BarrierLiftedOnce == Spec => []OneLifter
<1>1. ASSUME IInv, LiftInv PROVE OneLifter
  <2>1. ASSUME NEW b \in Index PROVE opt_count[b] >= 0
    <3>1. Cardinality(Tickets(b)) \in Nat
      BY TicketsFinite, FS_CardinalityType
    <3> QED BY <1>1, <3>1 DEF LiftInv, TicketInv
  <2>2. \A n \in Nodes, c \in Clients : waiting_barrier_id[n] <= current_barrier_id[c]
    BY <1>1, WaitBehind DEF LiftInv
  <2>3. ASSUME NEW m \in Nodes, NEW n \in Nodes,
               {rpc[m], rpc[n]} \subseteq {"lift", "unflag", "bcast"}
        PROVE  m = n
    <3>1. Lifting(m) /\ Lifting(n)
      BY <2>3 DEF Lifting
    <3> QED BY <1>1, <3>1 DEF LiftInv, ServeInv
  <2> QED BY <2>1, <2>2, <2>3 DEF OneLifter
<1> QED BY <1>1, LiftInvariant, InductiveInvariant, PTL

-----------------------------------------------------------------------------
(* With an application that waits: every node stands still while a barrier *)
(* operation runs.                                                         *)

\* A client starts a call only with an operation left to run.
LEMMA CallStep ==
    ASSUME TypeOK, [Next]_vars, NEW c \in Clients, c \in calling'
    PROVE  c \in calling \/ (todo[c] > 0 /\ UNCHANGED <<current_barrier_id, todo>>)
<1>1. ASSUME NEW d \in Clients, Client(d)
      PROVE  c \in calling \/ (todo[c] > 0 /\ UNCHANGED <<current_barrier_id, todo>>)
  BY <1>1 DEF Client, SendOp, pacon_barrier, add_to_local_rpc, clientVars
<1>2. ASSUME NEW n \in Nodes, CommitStep(n) PROVE UNCHANGED calling
  BY <1>2 DEF CommitStep, CommitSpin, CommitApply, CommitGetCas, CommitCas, CommitCount,
              CommitFlag, clientVars
<1>3. ASSUME NEW n \in Nodes, NEW d \in Clients, CommitRecv(n, d) \/ RpcRecv(n, d) PROVE UNCHANGED calling
  BY <1>3 DEF CommitRecv, RpcRecv, clientVars
<1>4. ASSUME NEW n \in Nodes, RpcStep(n) PROVE calling' \subseteq calling
  BY <1>4 DEF RpcStep, RpcLocal, RpcExec, RpcGetCas, RpcCas, RpcLift, RpcUnflag, RpcIncr,
              RpcReply, RpcPoll, RpcBcast, clientVars
<1>5. ASSUME NEW n \in Nodes, ClusterStep(n) PROVE UNCHANGED calling
  BY <1>5 DEF ClusterStep, ClusterIncr, ClusterClear, clientVars
<1>6. CASE UNCHANGED vars
  BY <1>6 DEF vars, clientVars
<1> QED BY <1>1, <1>2, <1>3, <1>4, <1>5, <1>6 DEF Next

\* The clients stay within one barrier of each other.
LEMMA SyncPreserved ==
    ASSUME TypeOK, CallInv, Sync, SyncInv, [Next]_vars
    PROVE  SyncInv'
<1>1. \A c \in Clients : current_barrier_id[c] \in Nat /\ todo[c] \in Nat
  <2>1. \A c \in Clients : current_barrier_id[c] \in 0 .. Rounds /\ todo[c] \in 0 .. MaxOpt
    BY DEF TypeOK
  <2>2. Rounds \in Nat
    BY ConstantsAssumption
  <2> QED BY <2>1, <2>2 DEF MaxOpt
<1>2. ASSUME NEW e \in Clients, pacon_barrier(e) PROVE SyncInv'
  <2>1. /\ \A d \in Clients : current_barrier_id[d] >= current_barrier_id[e]
        /\ \A d \in Clients : current_barrier_id[d] = current_barrier_id[e] => todo[d] = 0 /\ d \notin calling
        /\ calling' = calling
    BY <1>2 DEF pacon_barrier, AppMayBarrier
  <2>2. \A d \in Clients : current_barrier_id[d] <= current_barrier_id[e] + 1
    BY DEF SyncInv
  <2>3. /\ current_barrier_id'[e] = current_barrier_id[e] + 1
        /\ \A d \in Clients : d # e => current_barrier_id'[d] = current_barrier_id[d] /\ todo'[d] = todo[d]
    BY <1>2, Announce
  <2>4. ASSUME NEW c \in Clients, NEW d \in Clients
        PROVE  /\ current_barrier_id'[d] <= current_barrier_id'[c] + 1
               /\ current_barrier_id'[c] < current_barrier_id'[d] => todo'[c] = 0 /\ c \notin calling'
    <3>1. CASE c = e
      BY <1>1, <2>1, <2>2, <2>3, <3>1
    <3>2. CASE c # e /\ d = e
      BY <1>1, <2>1, <2>2, <2>3, <3>2
    <3>3. CASE c # e /\ d # e
      BY <1>1, <2>1, <2>3, <3>3 DEF SyncInv
    <3> QED BY <3>1, <3>2, <3>3
  <2> QED BY <2>4 DEF SyncInv
<1>3. ASSUME \A e \in Clients : ~ pacon_barrier(e) PROVE SyncInv'
  <2>1. \A c \in Clients : current_barrier_id'[c] = current_barrier_id[c]
    BY <1>3, TodoStep
  <2>2. ASSUME NEW c \in Clients, todo[c] = 0 PROVE todo'[c] = 0
    <3>1. ASSUME NEW n \in Nodes, Ends(n), serving[n] = c PROVE FALSE
      <4>1. todo[c] \in 1 .. MaxOpt
        BY <3>1, EndFacts
      <4> QED BY <2>2, <4>1 DEF MaxOpt
    <3> QED BY <1>3, <2>2, <3>1, TodoStep
  <2>3. ASSUME NEW c \in Clients, NEW d \in Clients
        PROVE  /\ current_barrier_id'[d] <= current_barrier_id'[c] + 1
               /\ current_barrier_id'[c] < current_barrier_id'[d] => todo'[c] = 0 /\ c \notin calling'
    <3>1. /\ current_barrier_id[d] <= current_barrier_id[c] + 1
          /\ current_barrier_id[c] < current_barrier_id[d] => todo[c] = 0 /\ c \notin calling
      BY DEF SyncInv
    <3>2. todo[c] = 0 /\ c \notin calling => c \notin calling'
      BY CallStep
    <3> QED BY <2>1, <2>2, <3>1, <3>2
  <2> QED BY <2>3 DEF SyncInv
<1> QED BY <1>2, <1>3

\* What lifts a barrier has ended it.
LEMMA PendingFacts ==
    ASSUME IInv, LiftInv, LiftedInv, NEW m \in Nodes, NEW n \in Nodes, Pending(n, m)
    PROVE  /\ Lifting(n) /\ RpcIndex(n) \in Slots
           /\ waiting_barrier_id[m] = RpcIndex(n)
           /\ Finished(RpcIndex(n)) /\ AllPassed(RpcIndex(n))
<1>1. Lifting(n)
  BY DEF Pending
<1> QED BY <1>1 DEF LiftInv, ServeInv, LiftedInv

\* A node to which DEL_BARRIER is on its way is one that has not moved on.
LEMMA ToldPending ==
    ASSUME BcastInv, NEW m \in Nodes, NEW n \in Nodes, out[n] = m
    PROVE  Pending(n, m) /\ rpc[n] = "bcast" /\ n # m
<1>1. None \notin Nodes
  BY ConstantsAssumption
<1> QED BY <1>1 DEF BcastInv, Pending, Lifting

\* barrier[] is cleared by the server that lifts, at the barrier it lifts.
LEMMA ClearStep ==
    ASSUME IInv, LiftInv, LiftedInv, [Next]_vars, NEW m \in Nodes, NEW b \in Index,
           barrier[m][b] = 1, barrier'[m][b] # 1
    PROVE  Finished(b)
<1> USE DEF IInv
<1>1. ASSUME RpcLift(m), b = RpcIndex(m) PROVE Finished(b)
  BY <1>1 DEF RpcLift, LiftInv, ServeInv, Lifting
<1>2. ASSUME NEW n \in Nodes, ClusterClear(m, n), b = waiting_barrier_id[m] PROVE Finished(b)
  <2>1. Pending(n, m)
    BY <1>2, ToldPending DEF ClusterClear, LiftInv
  <2> QED BY <1>2, <2>1, PendingFacts
<1>3. ASSUME NEW o \in Nodes, RpcLift(o), o # m \/ b # RpcIndex(o) PROVE barrier'[m][b] = barrier[m][b]
  BY <1>3 DEF RpcLift, TypeOK
<1>4. ASSUME NEW o \in Nodes, NEW n \in Nodes, ClusterClear(o, n), o # m \/ b # waiting_barrier_id[o]
      PROVE  barrier'[m][b] = barrier[m][b]
  BY <1>4 DEF ClusterClear, TypeOK
<1>5. ASSUME NEW n \in Nodes, CommitCount(n) PROVE barrier'[m][b] = 1
  <2>1. UNCHANGED barrier \/ barrier' = [barrier EXCEPT ![n][MsgIndex(n)] = 1]
    BY <1>5 DEF CommitCount
  <2>2. barrier \in [Nodes -> [Index -> {0, 1}]]
    BY DEF TypeOK
  <2>3. ASSUME NEW k, barrier' = [barrier EXCEPT ![n][k] = 1] PROVE barrier'[m][b] = 1
    BY <2>2, <2>3
  <2> QED BY <2>1, <2>3
<1>6. ASSUME NEW c \in Clients, Client(c) PROVE UNCHANGED barrier
  BY <1>6 DEF Client, SendOp, pacon_barrier, add_to_local_rpc, nodeVars
<1>7. ASSUME NEW n \in Nodes, CommitStep(n), ~ CommitCount(n) PROVE UNCHANGED barrier
  BY <1>7 DEF CommitStep, CommitSpin, CommitApply, CommitGetCas, CommitCas, CommitFlag, nodeVars
<1>8. ASSUME NEW n \in Nodes, NEW c \in Clients, CommitRecv(n, c) \/ RpcRecv(n, c) PROVE UNCHANGED barrier
  BY <1>8 DEF CommitRecv, RpcRecv, nodeVars
<1>9. ASSUME NEW n \in Nodes, RpcStep(n), ~ RpcLift(n) PROVE UNCHANGED barrier
  BY <1>9 DEF RpcStep, RpcLocal, RpcExec, RpcGetCas, RpcCas, RpcUnflag, RpcIncr, RpcReply, RpcPoll,
              RpcBcast, nodeVars
<1>10. ASSUME NEW n \in Nodes, ClusterIncr(n) PROVE UNCHANGED barrier
  BY <1>10 DEF ClusterIncr
<1>11. CASE UNCHANGED vars
  BY <1>11 DEF vars, nodeVars
<1> QED BY <1>1, <1>2, <1>3, <1>4, <1>5, <1>6, <1>7, <1>8, <1>9, <1>10, <1>11 DEF Next, ClusterStep

\* A node whose clients have all passed has stopped, until the last operation ends.
LEMMA StandStopped ==
    ASSUME IInv, IInv', LiftInv, StandInv, LiftedInv, [Next]_vars, NEW m \in Nodes, NEW b \in Slots,
           \A c \in ClientsOn(m) : Passed(c, b)', ~ Finished(b)'
    PROVE  barrier'[m][b] = 1
<1> USE DEF IInv
<1>1. b \in Index /\ b \in Int /\ b < BarrierIdMax - 1
  BY SlotFacts
<1>2. ~ Finished(b)
  BY <1>1, FinishedStable
<1>3. CASE \A c \in ClientsOn(m) : Passed(c, b)
  <2>1. barrier[m][b] = 1
    BY <1>2, <1>3 DEF StandInv
  <2> QED BY <1>1, <1>2, <2>1, ClearStep
<1>4. ASSUME NEW c \in ClientsOn(m), ~ Passed(c, b) PROVE barrier'[m][b] = 1
  <2>1. c \in Clients /\ NodeOf[c] = m
    BY DEF ClientsOn
  <2>2. CommitCount(m) /\ MsgIndex(m) = b
    BY <1>1, <1>4, <2>1, PassedOnlyByCount
  <2>3. {d \in ClientsOn(m) : Passed(d, b)'} = ClientsOn(m)
    OBVIOUS
  <2>4. barrier_info'[m][b] = Cardinality({d \in ClientsOn(m) : Passed(d, b)'})
    BY <1>1 DEF CountInv, ClientsOn
  <2>5. barrier_info'[m][b] = barrier_info[m][b] + 1
    BY <1>1, <2>2 DEF CommitCount, TypeOK
  <2>6. barrier_info[m][MsgIndex(m)] + 1 = Cardinality(ClientsOn(m))
    BY <2>2, <2>3, <2>4, <2>5
  <2>7. barrier' = [barrier EXCEPT ![m][b] = 1]
    BY <2>2, <2>6 DEF CommitCount
  <2> QED BY <1>1, <2>7 DEF TypeOK
<1> QED BY <1>3, <1>4

\* The barrier at which a node stops is the one that it waits for: it has
\* moved past every earlier one, since the calls of those have returned.
LEMMA StopsAtWaiting ==
    ASSUME IInv, CountInv', LiftInv, SyncInv, StandInv, LiftedInv, [Next]_vars, NEW m \in Nodes,
           CommitCount(m), cpc'[m] = "flag", NEW b, b = MsgIndex(m)
    PROVE  waiting_barrier_id[m] = b
<1> USE DEF IInv
<1> DEFINE w == waiting_barrier_id[m]
<1>1. PICK c \in Clients : c = cur[m] /\ NodeOf[c] = m
  BY HeadOfQueue DEF CommitCount
<1>2. cpc[m] = "count" /\ b \in Index /\ b \in Nat /\ b < BarrierIdMax - 1 /\ w \in Nat
  <2>1. cpc[m] = "count" /\ b \in Index /\ b < BarrierIdMax - 1
    BY AnnouncedIndex DEF CommitCount
  <2>2. BarrierIdMax \in Nat
    BY ConstantsAssumption
  <2> QED BY <2>1, <2>2 DEF Index, TypeOK
<1>3. ~ Passed(c, b)
  BY <1>1, CountPasses
<1>4. ASSUME w > b PROVE FALSE
  <2>1. AllPassed(w - 1)
    BY <1>2, <1>4 DEF LiftInv, WaitInv
  <2>2. b <= w - 1 /\ w - 1 \in Int /\ b \in Int
    BY <1>2, <1>4
  <2>3. Passed(c, w - 1)
    BY <2>1 DEF AllPassed
  <2> HIDE DEF w
  <2> QED BY <1>3, <2>2, <2>3, PassedDown
<1>5. ASSUME w < b PROVE FALSE
  <2>1. w \in Slots /\ w \in Int
    BY <1>2, <1>5, ConstantsAssumption DEF Slots, Index
  <2>2. Passed(c, w) /\ current_barrier_id[c] >= b + 1
    BY <1>1, <1>2, <1>5, <2>1, PassedBefore
  <2> HIDE DEF w
  <2>3. ASSUME NEW d \in ClientsOn(m) PROVE Passed(d, w)
    <3>1. d \in Clients /\ NodeOf[d] = m
      BY DEF ClientsOn
    <3>2. Passed(d, b)'
      BY LastCount
    <3>3. d # c => Passed(d, b)
      BY <1>1, <1>2, <3>1, <3>2, PassedOnlyByCount
    <3> QED BY <1>2, <1>5, <2>1, <2>2, <3>1, <3>3, PassedDown
  <2>4. CASE ~ Finished(w)
    <3>1. barrier[m][w] = 1
      BY <2>1, <2>3, <2>4 DEF StandInv
    <3> QED BY <1>2, <2>1, <3>1, SlotFacts DEF StandInv
  <2>5. CASE Finished(w)
    <3>1. PICK n \in Nodes : Pending(n, m) /\ RpcIndex(n) = w
      BY <1>2, <2>1, <2>5 DEF LiftedInv, w
    <3>2. rpc[n] # "recv"
      BY <3>1 DEF Pending, Lifting
    <3>3. serving[n] \in Clients /\ serving[n] \in calling /\ current_barrier_id[serving[n]] = w + 1
      BY <3>1, <3>2, RequestedIndex
    <3>4. current_barrier_id[c] \in Int
      BY ConstantsAssumption DEF TypeOK
    <3>5. current_barrier_id[serving[n]] < current_barrier_id[c]
      BY <1>2, <1>5, <2>1, <2>2, <3>3, <3>4
    <3> QED BY <3>3, <3>5 DEF SyncInv
  <2> QED BY <2>4, <2>5
<1> QED BY <1>2, <1>4, <1>5

\* A stopped node is at the barrier that it waits for, and commits nothing.
LEMMA StandStill ==
    ASSUME IInv, IInv', LiftInv, SyncInv, StandInv, LiftedInv, [Next]_vars, NEW m \in Nodes, NEW b \in Index,
           barrier'[m][b] = 1
    PROVE  waiting_barrier_id'[m] = b /\ cpc'[m] \in {"recv", "spin", "flag"}
<1> USE DEF IInv
<1>1. CASE barrier[m][b] = 1
  <2>1. waiting_barrier_id[m] = b /\ cpc[m] \in {"recv", "spin", "flag"}
    BY <1>1 DEF StandInv
  <2>2. waiting_barrier_id'[m] = b
    <3>1. ASSUME NEW n \in Nodes, Pending(n, m), rpc[n] = "bcast", n = m \/ xserv[m] = n PROVE FALSE
      <4>1. waiting_barrier_id[m] = RpcIndex(n)
        BY <3>1, PendingFacts
      <4>2. n = m => barrier[m][b] = 0
        BY <2>1, <3>1, <4>1 DEF LiftedInv
      <4>3. xserv[m] = n => barrier[m][b] = 0
        BY <2>1, ConstantsAssumption DEF LiftedInv
      <4> QED BY <1>1, <3>1, <4>2, <4>3
    <3> QED BY <2>1, <3>1, WaitStep DEF LiftInv
  <2>3. cpc'[m] \in {"recv", "spin", "flag"}
    <3>1. ASSUME NEW c \in Clients, CommitRecv(m, c) PROVE cpc'[m] = "spin"
      BY <3>1 DEF CommitRecv, TypeOK
    <3>2. CASE CommitStep(m)
      <4>1. CommitFlag(m)
        BY <1>1, <2>1, <3>2 DEF CommitStep, CommitSpin, CommitApply, CommitGetCas, CommitCas, CommitCount
      <4> QED BY <4>1 DEF CommitFlag, TypeOK
    <3> QED BY <2>1, <3>1, <3>2, ThreadStep
  <2> QED BY <2>2, <2>3
<1>2. CASE CommitCount(m) /\ cpc'[m] = "flag" /\ b = MsgIndex(m)
  <2>1. waiting_barrier_id[m] = b
    BY <1>2, StopsAtWaiting
  <2> QED BY <1>2, <2>1 DEF CommitCount
<1> QED BY <1>1, <1>2, StopStep

\* What is pending stays so until the node moves on.
LEMMA PendingEnds ==
    ASSUME IInv, BcastInv, [Next]_vars, NEW m \in Nodes, NEW n \in Nodes, Pending(n, m), ~ Pending(n, m)'
    PROVE  waiting_barrier_id'[m] = waiting_barrier_id[m] + 1
<1>1. TypeOK /\ None \notin Nodes
  BY ConstantsAssumption DEF IInv
<1>2. rpc[n] \in {"lift", "unflag", "bcast"} /\ (rpc[n] = "bcast" => m = n \/ m \in tell[n] \/ out[n] = m)
  BY DEF Pending, Lifting
<1>3. CASE RpcStep(n)
  <2>1. ASSUME RpcLift(n) PROVE FALSE
    BY <1>1, <2>1 DEF RpcLift, TypeOK, Pending, Lifting
  <2>2. ASSUME RpcUnflag(n) PROVE FALSE
    BY <1>1, <2>2 DEF RpcUnflag, TypeOK, Pending, Lifting
  <2>3. ASSUME NEW o \in Nodes, RpcBcast(n, o) PROVE FALSE
    <3>1. rpc[n] = "bcast" /\ rpc' = rpc /\ out[n] = None /\ tell'[n] = tell[n] \ {o} /\ out'[n] = o
      BY <1>1, <2>3 DEF RpcBcast, TypeOK
    <3> QED BY <1>1, <1>2, <3>1 DEF Pending, Lifting
  <2>4. ASSUME RpcIncr(n) PROVE waiting_barrier_id'[m] = waiting_barrier_id[m] + 1
    <3>1. m = n
      BY <1>1, <1>2, <2>4 DEF RpcIncr
    <3> QED BY <1>1, <2>4, <3>1 DEF RpcIncr, TypeOK
  <2> QED BY <1>2, <1>3, <2>1, <2>2, <2>3, <2>4
          DEF RpcStep, RpcLocal, RpcExec, Executing, RpcGetCas, RpcCas, RpcReply, RpcPoll
<1>4. ASSUME NEW c \in Clients, RpcRecv(n, c) PROVE FALSE
  BY <1>2, <1>4 DEF RpcRecv
<1>5. ASSUME rpc'[n] = rpc[n], tell'[n] = tell[n] PROVE waiting_barrier_id'[m] = waiting_barrier_id[m] + 1
  <2>1. rpc[n] = "bcast" /\ out[n] = m /\ out'[n] # m
    BY <1>2, <1>5 DEF Pending, Lifting
  <2>2. ASSUME NEW o \in Nodes, ClusterIncr(o) PROVE waiting_barrier_id'[m] = waiting_barrier_id[m] + 1
    <3>1. xserv[o] \in Nodes /\ out[xserv[o]] = o
      BY <1>1, <2>2 DEF ClusterIncr, BcastInv, TypeOK
    <3>2. xserv[o] = n
      BY <1>1, <2>1, <2>2, <3>1 DEF ClusterIncr, TypeOK
    <3>3. o = m
      BY <2>1, <3>1, <3>2
    <3> QED BY <1>1, <2>2, <3>3 DEF ClusterIncr, TypeOK
  <2>3. ASSUME NEW o \in Nodes, NEW p \in Nodes, RpcBcast(o, p) PROVE FALSE
    BY <1>1, <2>1, <2>3 DEF RpcBcast, TypeOK
  <2>4. ASSUME NEW c \in Clients, Client(c) PROVE UNCHANGED out
    BY <2>4 DEF Client, SendOp, pacon_barrier, add_to_local_rpc, rpcVars
  <2>5. ASSUME NEW o \in Nodes, CommitStep(o) PROVE UNCHANGED out
    BY <2>5 DEF CommitStep, CommitSpin, CommitApply, CommitGetCas, CommitCas, CommitCount,
                CommitFlag, rpcVars
  <2>6. ASSUME NEW o \in Nodes, NEW c \in Clients, CommitRecv(o, c) \/ RpcRecv(o, c) PROVE UNCHANGED out
    BY <2>6 DEF CommitRecv, RpcRecv, rpcVars
  <2>7. ASSUME NEW o \in Nodes, RpcStep(o), ~ \E p \in Nodes : RpcBcast(o, p) PROVE UNCHANGED out
    BY <2>7 DEF RpcStep, RpcLocal, RpcExec, RpcGetCas, RpcCas, RpcLift, RpcUnflag,
                RpcIncr, RpcReply, RpcPoll
  <2>8. ASSUME NEW o \in Nodes, NEW p \in Nodes, ClusterClear(o, p) PROVE UNCHANGED out
    BY <2>8 DEF ClusterClear, rpcVars
  <2>9. ASSUME UNCHANGED vars PROVE UNCHANGED out
    BY <2>9 DEF vars, rpcVars
  <2> QED BY <2>1, <2>2, <2>3, <2>4, <2>5, <2>6, <2>7, <2>8, <2>9 DEF Next, ClusterStep
<1> QED BY <1>1, <1>3, <1>4, <1>5, RpcThreadStep

\* The step that ends the operations of a barrier is the end of one of them,
\* not an announcement: then none has ended.
LEMMA FinishedBy ==
    ASSUME IInv, AskInv', [Next]_vars, NEW b \in Slots, ~ Finished(b), Finished(b)'
    PROVE  \E n \in Nodes : Ends(n) /\ RpcIndex(n) = b
<1> USE DEF IInv
<1>1. b \in Int
  BY SlotFacts
<1>2. /\ \A c \in Clients : current_barrier_id'[c] > b /\ Open(c, b)' = 0
      /\ \E c \in Clients : OptNum[b + 1][c] > 0
  BY DEF Finished
<1>3. \A c \in Clients : current_barrier_id[c] \in Int
  BY ConstantsAssumption DEF TypeOK
<1>4. ASSUME NEW c \in Clients, ~ (current_barrier_id[c] > b) PROVE FALSE
  <2>1. pacon_barrier(c)
    BY <1>2, <1>4, TodoStep
  <2>2. ~ Added(c, b)
    BY <1>1, <1>4, AddedAnnounced
  <2>3. UNCHANGED cpc
    BY <2>1 DEF pacon_barrier, commitVars
  <2>4. ~ Added(c, b)'
    BY <2>2, <2>3, AddedBy
  <2>5. \A d \in Clients : Open(d, b)' = OptNum[b + 1][d]
    BY <1>2, <2>4 DEF AskInv
  <2>6. PICK d \in Clients : OptNum[b + 1][d] > 0
    BY <1>2
  <2>7. OptNum[b + 1][d] = 0
    BY <1>2, <2>5
  <2> QED BY <2>6, <2>7
<1>5. PICK c \in Clients : current_barrier_id[c] > b /\ Open(c, b) # 0
  BY <1>2, <1>4 DEF Finished
<1>6. Open(c, b)' # Open(c, b)
  BY <1>2, <1>5
<1> QED BY <1>1, <1>5, <1>6, OpenStep

\* The operation that ends last finds the count at one and lifts the barrier.
LEMMA LastLifts ==
    ASSUME IInv, LiftInv, TicketInv', [Next]_vars, NEW n \in Nodes, Ends(n), NEW b \in Slots,
           b = RpcIndex(n), Finished(b)'
    PROVE  rpc'[n] = "lift"
<1> USE DEF IInv
<1>1. b \in Index
  BY SlotFacts
<1>2. ASSUME NEW t \in Tickets(b)' PROVE FALSE
  <2>1. t[1] \in Clients /\ t[2] \in 1 .. MaxOpt /\ t[2] <= Open(t[1], b)'
    BY DEF Tickets
  <2>2. Open(t[1], b)' = 0
    BY <2>1 DEF Finished
  <2>3. t[2] <= 0 /\ t[2] \in 1 .. MaxOpt
    BY <2>1, <2>2
  <2> QED BY <2>3 DEF MaxOpt
<1>3. Tickets(b)' = {}
  BY <1>2
<1>4. opt_count'[b] = 0
  BY <1>1, <1>3, FS_EmptySet DEF TicketInv
<1>5. opt_count'[b] = rval[n] - 1 /\ rpc' = [rpc EXCEPT ![n] = IF rval[n] - 1 = 0 THEN "lift" ELSE "reply"]
  BY <1>1 DEF Ends, RpcCas, TypeOK
<1> QED BY <1>4, <1>5 DEF TypeOK

\* A barrier whose operations have ended is lifted everywhere, one node after
\* the other.
LEMMA LiftedEverywhere ==
    ASSUME IInv, LiftInv, AskInv', TicketInv', LiftedInv, [Next]_vars, NEW b \in Slots, Finished(b)',
           NEW m \in Nodes
    PROVE  waiting_barrier_id'[m] > b \/ \E n \in Nodes : Pending(n, m)' /\ RpcIndex(n)' = b
<1> USE DEF IInv
<1>1. b \in Index /\ b \in Int /\ waiting_barrier_id[m] \in Int
  BY SlotFacts DEF TypeOK
<1>2. BcastInv
  BY DEF LiftInv
<1>3. CASE Finished(b)
  <2>1. CASE waiting_barrier_id[m] > b
    BY <1>1, <1>2, <2>1, WaitStep
  <2>2. ASSUME NEW n \in Nodes, Pending(n, m), RpcIndex(n) = b
        PROVE  waiting_barrier_id'[m] > b \/ (Pending(n, m)' /\ RpcIndex(n)' = b)
    <3>1. CASE Pending(n, m)'
      BY <1>2, <2>2, <3>1, PendingStep
    <3>2. CASE ~ Pending(n, m)'
      <4>1. waiting_barrier_id[m] = b
        BY <2>2, PendingFacts
      <4>2. waiting_barrier_id'[m] = waiting_barrier_id[m] + 1
        BY <1>2, <2>2, <3>2, PendingEnds
      <4> QED BY <1>1, <4>1, <4>2
    <3> QED BY <3>1, <3>2
  <2> QED BY <1>3, <2>1, <2>2 DEF LiftedInv
<1>4. CASE ~ Finished(b)
  <2>1. PICK n \in Nodes : Ends(n) /\ RpcIndex(n) = b
    BY <1>4, FinishedBy
  <2>2. rpc'[n] = "lift"
    BY <2>1, LastLifts
  <2>3. RpcIndex(n)' = b
    BY <2>1, <2>2, ServeStep
  <2>4. Pending(n, m)'
    BY <2>2 DEF Pending, Lifting
  <2> QED BY <2>3, <2>4
<1> QED BY <1>3, <1>4

\* A server that lifts a barrier finds every node at it.
LEMMA LiftedAtWaiting ==
    ASSUME IInv, LiftInv, StandInv, LiftedInv, [Next]_vars, NEW m \in Nodes, NEW n \in Nodes, Pending(n, m)'
    PROVE  waiting_barrier_id'[m] = RpcIndex(n)' /\ RpcIndex(n)' = RpcIndex(n)
<1> USE DEF IInv
<1>1. BcastInv /\ ServeInv
  BY DEF LiftInv
<1>2. RpcIndex(n)' = RpcIndex(n) /\ (Pending(n, m) \/ (Ends(n) /\ rpc'[n] = "lift"))
  BY <1>1, PendingStep
<1>3. CASE Pending(n, m)
  <2>1. ASSUME NEW o \in Nodes, Pending(o, m), ~ Pending(o, m)' PROVE FALSE
    <3>1. o = n
      BY <1>1, <1>3, <2>1 DEF ServeInv, Pending
    <3> QED BY <2>1, <3>1
  <2>2. waiting_barrier_id'[m] = waiting_barrier_id[m]
    BY <1>1, <2>1, WaitStep
  <2> QED BY <1>2, <1>3, <2>2, PendingFacts
<1>4. CASE Ends(n)
  <2> DEFINE b == RpcIndex(n)
  <2>1. /\ serving[n] \in Clients /\ current_barrier_id[serving[n]] = b + 1 /\ todo[serving[n]] \in 1 .. MaxOpt
    BY <1>4, EndFacts
  <2>2. b \in Slots /\ AllPassed(b)
    BY <1>1, <1>4 DEF ServeInv, Ends, RpcCas
  <2>3. b \in Int /\ b \in Index
    BY <2>2, SlotFacts
  <2> HIDE DEF b
  <2>4. todo[serving[n]] > 0
    BY <2>1 DEF MaxOpt
  <2>5. ~ Finished(b)
    BY <2>1, <2>3, <2>4, NotFinished
  <2>6. barrier[m][b] = 1
    BY <2>2, <2>5 DEF StandInv, AllPassed, ClientsOn
  <2>7. waiting_barrier_id[m] = b
    BY <2>3, <2>6 DEF StandInv
  <2>8. waiting_barrier_id' = waiting_barrier_id
    BY <1>4 DEF Ends, RpcCas, nodeVars
  <2> QED BY <1>2, <2>7, <2>8 DEF b
<1> QED BY <1>2, <1>3, <1>4

\* A barrier that was cleared stays clear: all clients have passed it.
LEMMA StaysClear ==
    ASSUME IInv, IInv', [Next]_vars, NEW m \in Nodes, NEW b \in Slots, AllPassed(b), barrier[m][b] = 0
    PROVE  barrier'[m][b] = 0
<1> USE DEF IInv
<1>1. b \in Index
  BY SlotFacts
<1>2. ASSUME CommitCount(m), b = MsgIndex(m) PROVE FALSE
  <2>1. cur[m] \in Clients
    BY <1>2, HeadOfQueue DEF CommitCount
  <2> QED BY <1>2, <2>1, CountPasses DEF AllPassed
<1>3. barrier'[m][b] # 1
  BY <1>1, <1>2, StopStep
<1>4. barrier'[m][b] \in {0, 1}
  BY <1>1 DEF TypeOK
<1> QED BY <1>3, <1>4

\* The server that lifts has cleared its own barrier before the others'.
LEMMA LiftedHere ==
    ASSUME IInv, IInv', LiftInv, LiftedInv, [Next]_vars, NEW n \in Nodes, rpc'[n] \in {"unflag", "bcast"}
    PROVE  barrier'[n][RpcIndex(n)'] = 0
<1> USE DEF IInv
<1>1. /\ RpcIndex(n)' = RpcIndex(n) /\ rpc[n] \in {"lift", "unflag", "bcast"}
      /\ rpc[n] = "lift" => rpc'[n] = "unflag"
  BY ServeStep
<1>2. PICK b \in Slots : b = RpcIndex(n) /\ AllPassed(b)
  BY <1>1 DEF LiftInv, ServeInv, Lifting
<1>3. CASE rpc[n] \in {"unflag", "bcast"}
  <2>1. barrier[n][b] = 0
    BY <1>2, <1>3 DEF LiftedInv
  <2> QED BY <1>1, <1>2, <2>1, StaysClear
<1>4. CASE rpc[n] = "lift"
  <2>1. RpcLift(n)
    <3>1. RpcStep(n)
      BY <1>1, <1>4, RpcThreadStep DEF RpcRecv
    <3> QED BY <1>4, <3>1 DEF RpcStep, RpcLocal, RpcExec, Executing, RpcGetCas, RpcCas, RpcUnflag,
                              RpcIncr, RpcReply, RpcPoll, RpcBcast
  <2>2. barrier' = [barrier EXCEPT ![n][b] = 0]
    BY <1>2, <2>1 DEF RpcLift
  <2>3. b \in Index
    BY SlotFacts
  <2> QED BY <1>1, <1>2, <2>2, <2>3 DEF TypeOK
<1> QED BY <1>1, <1>3, <1>4

\* Between the two stores of DEL_BARRIER the barrier of the node is clear.
LEMMA LiftedThere ==
    ASSUME IInv, IInv', LiftInv, LiftInv', StandInv, LiftedInv, [Next]_vars, NEW m \in Nodes, xserv'[m] # None
    PROVE  barrier'[m][waiting_barrier_id'[m]] = 0
<1> USE DEF IInv
<1>1. BcastInv /\ BcastInv' /\ None \notin Nodes
  BY ConstantsAssumption DEF LiftInv
<1>2. ASSUME NEW n \in Nodes, ClusterClear(m, n) PROVE barrier'[m][waiting_barrier_id'[m]] = 0
  <2>1. Pending(n, m)
    BY <1>1, <1>2, ToldPending DEF ClusterClear
  <2>2. waiting_barrier_id[m] \in Index
    BY <2>1, PendingFacts, SlotFacts
  <2>3. waiting_barrier_id' = waiting_barrier_id /\ barrier' = [barrier EXCEPT ![m][waiting_barrier_id[m]] = 0]
    BY <1>2 DEF ClusterClear
  <2> QED BY <2>2, <2>3 DEF TypeOK
<1>3. ASSUME xserv'[m] = xserv[m] PROVE barrier'[m][waiting_barrier_id'[m]] = 0
  <2>1. PICK n \in Nodes : n = xserv[m] /\ n = xserv'[m]
    BY <1>3 DEF TypeOK
  <2>2. out[n] = m /\ out'[n] = m
    BY <1>1, <2>1 DEF BcastInv
  <2>3. Pending(n, m)
    BY <1>1, <2>2, ToldPending
  <2>4. Pending(n, m)'
    BY <1>1, <2>2 DEF BcastInv, Pending, Lifting
  <2>5. PICK b \in Slots : b = RpcIndex(n) /\ AllPassed(b) /\ waiting_barrier_id[m] = b
    BY <2>3, PendingFacts
  <2>6. waiting_barrier_id'[m] = b
    BY <2>4, <2>5, LiftedAtWaiting
  <2>7. barrier[m][b] = 0
    BY <1>1, <2>1, <2>5 DEF LiftedInv
  <2> QED BY <2>5, <2>6, <2>7, StaysClear
<1>4. xserv'[m] = xserv[m] \/ \E n \in Nodes : ClusterClear(m, n)
  <2>1. ASSUME NEW o \in Nodes, ClusterIncr(o) PROVE xserv'[m] = xserv[m]
    BY <2>1 DEF ClusterIncr, TypeOK
  <2>2. ASSUME NEW o \in Nodes, NEW n \in Nodes, ClusterClear(o, n), o # m PROVE xserv'[m] = xserv[m]
    BY <2>2 DEF ClusterClear, TypeOK
  <2>3. ASSUME NEW c \in Clients, Client(c) PROVE UNCHANGED xserv
    BY <2>3 DEF Client, SendOp, pacon_barrier, add_to_local_rpc
  <2>4. ASSUME NEW o \in Nodes, CommitStep(o) PROVE UNCHANGED xserv
    BY <2>4 DEF CommitStep, CommitSpin, CommitApply, CommitGetCas, CommitCas, CommitCount, CommitFlag
  <2>5. ASSUME NEW o \in Nodes, NEW c \in Clients, CommitRecv(o, c) \/ RpcRecv(o, c) PROVE UNCHANGED xserv
    BY <2>5 DEF CommitRecv, RpcRecv
  <2>6. ASSUME NEW o \in Nodes, RpcStep(o) PROVE UNCHANGED xserv
    BY <2>6 DEF RpcStep, RpcLocal, RpcExec, RpcGetCas, RpcCas, RpcLift, RpcUnflag,
                RpcIncr, RpcReply, RpcPoll, RpcBcast
  <2>7. ASSUME UNCHANGED vars PROVE UNCHANGED xserv
    BY <2>7 DEF vars
  <2> QED BY <2>1, <2>2, <2>3, <2>4, <2>5, <2>6, <2>7 DEF Next, ClusterStep
<1> QED BY <1>2, <1>3, <1>4

\* Every step keeps the nodes standing still.
LEMMA StillStep ==
    ASSUME IInv, IInv', LiftInv, LiftInv', Sync, StillInv, [Next]_vars
    PROVE  StillInv'
<1> USE DEF StillInv
<1>1. SyncInv'
  BY SyncPreserved DEF IInv
<1>2. StandInv'
  <2>1. ASSUME NEW m \in Nodes, NEW b \in Slots, \A c \in ClientsOn(m) : Passed(c, b)', ~ Finished(b)'
        PROVE  barrier'[m][b] = 1
    BY <2>1, StandStopped
  <2>2. \A m \in Nodes, b \in Index :
           barrier'[m][b] = 1 => waiting_barrier_id'[m] = b /\ cpc'[m] \in {"recv", "spin", "flag"}
    BY StandStill
  <2> HIDE DEF StillInv
  <2> QED BY <2>1, <2>2 DEF StandInv, ClientsOn, Slots, Index
<1>3. LiftedInv'
  <2>1. ASSUME NEW b \in Slots, Finished(b)', NEW m \in Nodes
        PROVE  waiting_barrier_id'[m] > b \/ \E n \in Nodes : Pending(n, m)' /\ RpcIndex(n)' = b
    BY <2>1, LiftedEverywhere DEF LiftInv
  <2>2. ASSUME NEW m \in Nodes, NEW n \in Nodes, Pending(n, m)' PROVE waiting_barrier_id'[m] = RpcIndex(n)'
    BY <2>2, LiftedAtWaiting
  <2>3. ASSUME NEW n \in Nodes, rpc'[n] \in {"unflag", "bcast"} PROVE barrier'[n][RpcIndex(n)'] = 0
    BY <2>3, LiftedHere
  <2>4. ASSUME NEW m \in Nodes, xserv'[m] # None PROVE barrier'[m][waiting_barrier_id'[m]] = 0
    BY <2>4, LiftedThere
  <2> HIDE DEF StillInv
  <2> QED BY <2>1, <2>2, <2>3, <2>4 DEF LiftedInv, Slots, Index
<1> QED BY <1>1, <1>2, <1>3

\* At the start nobody has announced anything.
LEMMA StillInit ==
    ASSUME Init
    PROVE  StillInv
<1>1. /\ \A c \in Clients : current_barrier_id[c] = 0 /\ todo[c] = 0
      /\ calling = {}
      /\ \A n \in Nodes : rpc[n] = "recv" /\ xserv[n] = None
      /\ \A n \in Nodes, b \in Index : barrier[n][b] = 0
  BY DEF Init
<1>2. SyncInv
  BY <1>1 DEF SyncInv
<1>3. ASSUME NEW b \in Slots PROVE /\ \A c \in Clients : ~ Passed(c, b)
                                   /\ ~ Finished(b)
  <2>1. b \in Nat
    BY SlotFacts
  <2>2. \A c \in Clients : ~ (current_barrier_id[c] > b)
    BY <1>1, <2>1
  <2> QED BY <2>2, ConstantsAssumption DEF Passed, Finished
<1>4. \A n \in Nodes : \E c \in Clients : c \in ClientsOn(n)
  BY ConstantsAssumption DEF ClientsOn
<1>5. StandInv
  BY <1>1, <1>3, <1>4 DEF StandInv, ClientsOn
<1>6. LiftedInv
  BY <1>1, <1>3 DEF LiftedInv, Pending, Lifting
<1> QED BY <1>2, <1>5, <1>6 DEF StillInv

\* All invariants of the barrier, in every reachable state: IInv and LiftInv
\* for any application, StillInv for one that waits for the operations of a
\* barrier before its next (AppMayBarrier under Sync).
THEOREM BarrierInvariant == Spec => []BarrierInv
<1>1. Init => (Sync => StillInv)
  BY StillInit
<1>2. IInv /\ IInv' /\ LiftInv /\ LiftInv' /\ (Sync => StillInv) /\ [Next]_vars => (Sync' => StillInv')
  BY StillStep
<1>3. IInv /\ LiftInv /\ (Sync => StillInv) => BarrierInv
  BY DEF BarrierInv
<1> QED BY <1>1, <1>2, <1>3, InductiveInvariant, LiftInvariant, PTL DEF Spec

\* While a barrier operation (commit_to_fs_barrier) runs, no commit thread of
\* the cluster commits, if the application waits between its barriers.
THEOREM ClusterStandsStill == Sync /\ Spec => []NoCommitDuringBarrierOp
<1> SUFFICES ASSUME Sync PROVE Spec => []NoCommitDuringBarrierOp
  OBVIOUS
<1>1. ASSUME BarrierInv PROVE NoCommitDuringBarrierOp
  <2> SUFFICES ASSUME NEW m \in Nodes, NEW n \in Nodes, InBarrierOp(n)
               PROVE  cpc[m] # "apply"
    BY DEF NoCommitDuringBarrierOp
  <2> USE <1>1 DEF BarrierInv, IInv
  <2> DEFINE b == RpcIndex(n)
  <2>1. rpc[n] \in {"poll", "get", "cas"}
    BY DEF InBarrierOp, Executing
  <2>2. b \in Slots /\ AllPassed(b)
    <3>1. b \in Slots
      BY <2>1 DEF LiftInv, ServeInv
    <3>2. CASE Executing(n)
      BY <3>1, <3>2, ExecPassed
    <3>3. CASE rpc[n] \in {"get", "cas"}
      BY <3>1, <3>3 DEF LiftInv, ServeInv
    <3> QED BY <3>1, <3>2, <3>3 DEF InBarrierOp
  <2>3. serving[n] \in Clients /\ current_barrier_id[serving[n]] = b + 1 /\ todo[serving[n]] > 0
    BY <2>1, RequestedIndex DEF CallInv
  <2>4. b \in Int /\ b \in Index
    BY <2>2, SlotFacts
  <2> HIDE DEF b
  <2>5. ~ Finished(b)
    BY <2>3, <2>4, NotFinished
  <2>6. barrier[m][b] = 1
    BY <2>2, <2>5 DEF StillInv, StandInv, AllPassed, ClientsOn
  <2> QED BY <2>4, <2>6 DEF StillInv, StandInv
<1> QED BY <1>1, BarrierInvariant, PTL
=============================================================================
