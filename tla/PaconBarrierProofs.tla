------------------------- MODULE PaconBarrierProofs -------------------------
(***************************************************************************)
(* Proofs about PaconBarrier, for every set of clients and nodes, every    *)
(* placement of the clients, every number of barriers and operations, and  *)
(* whether or not the application waits between its barriers.              *)
(***************************************************************************)
EXTENDS PaconBarrierInv, TLAPS, FiniteSetTheorems

-----------------------------------------------------------------------------
(* Queues and indexes.                                                     *)

\* The message a commit thread works on is the head of its client's queue.
LEMMA HeadOfQueue ==
    ASSUME TypeOK, CommitInv, NEW n \in Nodes, cpc[n] # "recv"
    PROVE  /\ cur[n] \in Clients /\ NodeOf[cur[n]] = n
           /\ mq[cur[n]] \in Seq(Message) /\ mq[cur[n]] # <<>>
           /\ 1 \in DOMAIN mq[cur[n]]
           /\ Msg(n) = mq[cur[n]][1] /\ Msg(n) \in Message
           /\ Tail(mq[cur[n]]) \in Seq(Message)
<1>1. cur[n] \in Clients /\ NodeOf[cur[n]] = n /\ mq[cur[n]] # <<>>
  BY DEF CommitInv
<1>2. mq[cur[n]] \in Seq(Message)
  BY <1>1 DEF TypeOK
<1> QED BY <1>1, <1>2 DEF Msg

\* The announcement it works on names a slot of the barrier arrays that is
\* not the last one: ids start at 1 and stay below BARRIER_ID_MAX.
LEMMA AnnouncedIndex ==
    ASSUME TypeOK, QueueInv, CommitInv, NEW n \in Nodes,
           cpc[n] \in {"get", "cas", "count", "flag"}
    PROVE  /\ MsgIndex(n) \in Index /\ MsgIndex(n) < BarrierIdMax - 1
           /\ Msg(n).type = "BARRIER" /\ Msg(n).id = MsgIndex(n) + 1
           /\ Msg(n).opt \in 0 .. MaxOpt
<1>1. /\ cur[n] \in Clients /\ 1 \in DOMAIN mq[cur[n]]
      /\ Msg(n) = mq[cur[n]][1] /\ Msg(n) \in Message
  BY HeadOfQueue
<1>2. Msg(n).type = "BARRIER"
  BY DEF CommitInv
<1>3. Msg(n).id \in 1 .. BarrierIdMax - 1
  <2>1. Msg(n).id >= 1 /\ Msg(n).id < BarrierIdMax
    BY <1>1, <1>2 DEF QueueInv, Ordered
  <2>2. Msg(n).id \in 0 .. Rounds /\ Rounds \in Nat /\ BarrierIdMax \in Nat
    BY <1>1, ConstantsAssumption DEF Message
  <2> QED BY <2>1, <2>2
<1>4. Msg(n).opt \in 0 .. MaxOpt
  BY <1>1 DEF Message
<1> DEFINE i == Msg(n).id
<1>5. i \in 1 .. BarrierIdMax - 1 /\ MsgIndex(n) = i - 1 /\ BarrierIdMax \in Nat
  BY <1>3, ConstantsAssumption DEF MsgIndex
<1> HIDE DEF i
<1>6. MsgIndex(n) \in 0 .. BarrierIdMax - 1 /\ MsgIndex(n) < BarrierIdMax - 1 /\ i = MsgIndex(n) + 1
  BY <1>5
<1> QED BY <1>2, <1>4, <1>6 DEF i, Index

\* The request a local RPC thread serves names a slot of the barrier arrays.
LEMMA RequestedIndex ==
    ASSUME TypeOK, CallInv, NEW n \in Nodes, rpc[n] # "recv"
    PROVE  /\ serving[n] \in Clients /\ serving[n] \in calling
           /\ NodeOf[serving[n]] = n
           /\ RpcIndex(n) \in Index
           /\ current_barrier_id[serving[n]] = RpcIndex(n) + 1
<1>1. serving[n] \in calling /\ NodeOf[serving[n]] = n
  BY DEF CallInv
<1>2. serving[n] \in Clients
  BY <1>1 DEF TypeOK
<1>3. current_barrier_id[serving[n]] \in 0 .. Rounds
  BY <1>2 DEF TypeOK
<1>4. current_barrier_id[serving[n]] >= 1
  BY <1>1 DEF CallInv
<1> DEFINE i == current_barrier_id[serving[n]]
<1>5. i \in 0 .. Rounds /\ i >= 1 /\ RpcIndex(n) = i - 1
  BY <1>3, <1>4 DEF RpcIndex
<1>6. BarrierIdMax \in Nat /\ Rounds \in 0 .. BarrierIdMax
  BY ConstantsAssumption
<1> HIDE DEF i
<1>7. RpcIndex(n) \in 0 .. BarrierIdMax - 1 /\ i = RpcIndex(n) + 1
  BY <1>5, <1>6
<1> QED BY <1>1, <1>2, <1>7 DEF i, Index

\* The id of the next barrier and what the client announces with it.
LEMMA NextBarrier ==
    ASSUME TypeOK, NEW c \in Clients, pacon_barrier(c)
    PROVE  /\ current_barrier_id[c] + 1 \in 1 .. Rounds
           /\ OptNum[current_barrier_id[c] + 1][c] \in 0 .. MaxOpt
           /\ BARRIER(OptNum[current_barrier_id[c] + 1][c], current_barrier_id[c] + 1) \in Message
<1> DEFINE k == current_barrier_id[c] + 1
<1>1. current_barrier_id[c] \in 0 .. Rounds /\ Rounds \in Nat
  BY ConstantsAssumption DEF TypeOK
<1>2. current_barrier_id[c] < Rounds
  BY DEF pacon_barrier, AppMayBarrier
<1>3. k \in 1 .. Rounds
  BY <1>1, <1>2
<1> HIDE DEF k
<1>4. OptNum[k][c] \in 0 .. MaxOpt
  BY <1>3, ConstantsAssumption
<1>5. k \in 0 .. Rounds
  BY <1>1, <1>3
<1>6. BARRIER(OptNum[k][c], k) \in Message
  BY <1>4, <1>5 DEF BARRIER, Message
<1> QED BY <1>3, <1>4, <1>6 DEF k

-----------------------------------------------------------------------------
(* Types.                                                                  *)

\* The next state has the types, whichever action led to it.
LEMMA TypePreserved ==
    ASSUME TypeOK, QueueInv, CommitInv, CallInv, [Next]_vars
    PROVE  TypeOK'
<1>1. ASSUME NEW c \in Clients, SendOp(c) PROVE TypeOK'
  <2>1. OP(current_barrier_id[c]) \in Message
    BY ConstantsAssumption DEF TypeOK, OP, Message, MaxOpt
  <2>2. mq' \in [Clients -> Seq(Message)]
    BY <1>1, <2>1 DEF TypeOK, SendOp
  <2> QED BY <1>1, <2>2 DEF TypeOK, SendOp, clientVars, nodeVars, kvVars, commitVars, rpcVars
<1>2. ASSUME NEW c \in Clients, pacon_barrier(c) PROVE TypeOK'
  <2> DEFINE k == current_barrier_id[c] + 1
  <2>1. /\ k \in 1 .. Rounds /\ OptNum[k][c] \in 0 .. MaxOpt
        /\ BARRIER(OptNum[k][c], k) \in Message
    BY <1>2, NextBarrier
  <2>2. /\ current_barrier_id' = [current_barrier_id EXCEPT ![c] = k]
        /\ todo' = [todo EXCEPT ![c] = OptNum[k][c]]
        /\ \/ mq' = mq
           \/ mq' = [mq EXCEPT ![c] = Append(@, BARRIER(OptNum[k][c], k))]
    BY <1>2 DEF pacon_barrier
  <2> HIDE DEF k
  <2>3. current_barrier_id' \in [Clients -> 0 .. Rounds]
    BY <2>1, <2>2 DEF TypeOK
  <2>4. todo' \in [Clients -> 0 .. MaxOpt]
    BY <2>1, <2>2 DEF TypeOK
  <2> DEFINE a == BARRIER(OptNum[k][c], k)
  <2>5. mq' \in [Clients -> Seq(Message)]
    <3>1. a \in Message /\ (mq' = mq \/ mq' = [mq EXCEPT ![c] = Append(@, a)])
      BY <2>1, <2>2
    <3> HIDE DEF a
    <3>2. mq \in [Clients -> Seq(Message)]
      BY DEF TypeOK
    <3>3. Append(mq[c], a) \in Seq(Message)
      BY <3>1, <3>2
    <3> QED BY <3>1, <3>2, <3>3
  <2> QED BY <1>2, <2>3, <2>4, <2>5
          DEF TypeOK, pacon_barrier, nodeVars, kvVars, commitVars, rpcVars
<1>3. ASSUME NEW c \in Clients, add_to_local_rpc(c) PROVE TypeOK'
  BY <1>3 DEF TypeOK, add_to_local_rpc, nodeVars, kvVars, commitVars, rpcVars
<1>4. ASSUME NEW n \in Nodes, NEW c \in Clients, CommitRecv(n, c) PROVE TypeOK'
  BY <1>4 DEF TypeOK, CommitRecv, clientVars, nodeVars, kvVars, rpcVars
<1>5. ASSUME NEW n \in Nodes, CommitStep(n) PROVE TypeOK'
  <2>1. CASE CommitSpin(n)
    <3>1. \E s \in {"apply", "get", "count"} : cpc' = [cpc EXCEPT ![n] = s]
      BY <2>1 DEF CommitSpin
    <3>2. cpc' \in [Nodes -> {"recv", "spin", "apply", "get", "cas", "count", "flag"}]
      BY <3>1 DEF TypeOK
    <3> QED BY <2>1, <3>2 DEF TypeOK, CommitSpin, clientVars, nodeVars, kvVars, rpcVars
  <2>2. CASE CommitApply(n)
    <3>1. Tail(mq[cur[n]]) \in Seq(Message)
      BY <2>2, HeadOfQueue DEF CommitApply
    <3>2. mq' \in [Clients -> Seq(Message)]
      BY <2>2, <3>1 DEF TypeOK, CommitApply
    <3> QED BY <2>2, <3>2 DEF TypeOK, CommitApply, clientVars, nodeVars, kvVars, rpcVars
  <2>3. CASE CommitGetCas(n)
    <3>1. MsgIndex(n) \in Index
      BY <2>3, AnnouncedIndex DEF CommitGetCas
    <3>2. cval' \in [Nodes -> Int]
      BY <2>3, <3>1 DEF TypeOK, CommitGetCas
    <3>3. token' \in [Index -> SUBSET Threads]
      BY <2>3, <3>1 DEF TypeOK, CommitGetCas, Threads
    <3> QED BY <2>3, <3>2, <3>3 DEF TypeOK, CommitGetCas, clientVars, nodeVars, rpcVars
  <2>4. CASE CommitCas(n)
    <3>1. MsgIndex(n) \in Index /\ Msg(n).opt \in 0 .. MaxOpt
      BY <2>4, AnnouncedIndex DEF CommitCas
    <3>2. cval[n] + Msg(n).opt \in Int
      BY <3>1 DEF TypeOK, MaxOpt
    <3>3. opt_count' \in [Index -> Int]
      BY <2>4, <3>1, <3>2 DEF TypeOK, CommitCas
    <3>4. token' \in [Index -> SUBSET Threads]
      BY <2>4, <3>1 DEF TypeOK, CommitCas
    <3>5. cpc' \in [Nodes -> {"recv", "spin", "apply", "get", "cas", "count", "flag"}]
      BY <2>4 DEF TypeOK, CommitCas
    <3> QED BY <2>4, <3>3, <3>4, <3>5 DEF TypeOK, CommitCas, clientVars, nodeVars, rpcVars
  <2>5. CASE CommitCount(n)
    <3>1. MsgIndex(n) \in Index
      BY <2>5, AnnouncedIndex DEF CommitCount
    <3>2. Tail(mq[cur[n]]) \in Seq(Message)
      BY <2>5, HeadOfQueue DEF CommitCount
    <3>3. mq' \in [Clients -> Seq(Message)]
      BY <2>5, <3>2 DEF TypeOK, CommitCount
    <3> DEFINE b == MsgIndex(n)
               count == barrier_info[n][b] + 1
    <3>8. count \in Nat /\ barrier_info' = [barrier_info EXCEPT ![n][b] = count]
      BY <2>5, <3>1 DEF TypeOK, CommitCount
    <3> HIDE DEF count
    <3>4. barrier_info' \in [Nodes -> [Index -> Nat]]
      BY <3>1, <3>8 DEF TypeOK
    <3>9. barrier' = barrier \/ barrier' = [barrier EXCEPT ![n][b] = 1]
      BY <2>5 DEF CommitCount
    <3>10. barrier \in [Nodes -> [Index -> {0, 1}]]
      BY DEF TypeOK
    <3>5. barrier' \in [Nodes -> [Index -> {0, 1}]]
      BY <3>1, <3>9, <3>10
    <3>6. cpc' \in [Nodes -> {"recv", "spin", "apply", "get", "cas", "count", "flag"}]
      BY <2>5 DEF TypeOK, CommitCount
    <3>7. cur' \in [Nodes -> Clients \cup {None}]
      BY <2>5 DEF TypeOK, CommitCount
    <3> QED BY <2>5, <3>3, <3>4, <3>5, <3>6, <3>7
            DEF TypeOK, CommitCount, clientVars, kvVars, rpcVars
  <2>6. CASE CommitFlag(n)
    <3>1. MsgIndex(n) \in Index
      BY <2>6, AnnouncedIndex DEF CommitFlag
    <3>2. Tail(mq[cur[n]]) \in Seq(Message)
      BY <2>6, HeadOfQueue DEF CommitFlag
    <3>3. mq' \in [Clients -> Seq(Message)]
      BY <2>6, <3>2 DEF TypeOK, CommitFlag
    <3>4. flag' \in [Nodes -> [Index -> {0, 1}]]
      BY <2>6, <3>1 DEF TypeOK, CommitFlag
    <3> QED BY <2>6, <3>3, <3>4 DEF TypeOK, CommitFlag, clientVars, nodeVars, rpcVars
  <2> QED BY <1>5, <2>1, <2>2, <2>3, <2>4, <2>5, <2>6 DEF CommitStep
<1>6. ASSUME NEW n \in Nodes, NEW c \in Clients, RpcRecv(n, c) PROVE TypeOK'
  BY <1>6 DEF TypeOK, RpcRecv, clientVars, nodeVars, kvVars, commitVars
<1>7. ASSUME NEW n \in Nodes, RpcStep(n) PROVE TypeOK'
  <2>1. CASE RpcLocal(n)
    BY <2>1 DEF TypeOK, RpcLocal, clientVars, nodeVars, kvVars, commitVars
  <2>2. CASE RpcExec(n)
    BY <2>2 DEF TypeOK, RpcExec, clientVars, nodeVars, kvVars, commitVars
  <2>3. CASE RpcGetCas(n)
    <3>1. RpcIndex(n) \in Index
      BY <2>3, RequestedIndex DEF RpcGetCas
    <3>2. rval' \in [Nodes -> Int]
      BY <2>3, <3>1 DEF TypeOK, RpcGetCas
    <3>3. token' \in [Index -> SUBSET Threads]
      BY <2>3, <3>1 DEF TypeOK, RpcGetCas, Threads
    <3> QED BY <2>3, <3>2, <3>3 DEF TypeOK, RpcGetCas, clientVars, nodeVars, commitVars
  <2>4. CASE RpcCas(n)
    <3>1. serving[n] \in Clients /\ RpcIndex(n) \in Index
      BY <2>4, RequestedIndex DEF RpcCas
    <3>2. todo[serving[n]] > 0
      BY <2>4 DEF RpcCas, CallInv
    <3>3. todo[serving[n]] - 1 \in 0 .. MaxOpt
      BY <3>1, <3>2 DEF TypeOK, MaxOpt
    <3>4. todo' \in [Clients -> 0 .. MaxOpt]
      BY <2>4, <3>1, <3>3 DEF TypeOK, RpcCas
    <3>5. opt_count' \in [Index -> Int]
      BY <2>4, <3>1 DEF TypeOK, RpcCas
    <3>6. token' \in [Index -> SUBSET Threads]
      BY <2>4, <3>1 DEF TypeOK, RpcCas
    <3>7. rpc' \in [Nodes -> {"recv", "local", "poll", "get", "cas", "lift", "unflag",
                              "bcast", "reply"}]
      BY <2>4 DEF TypeOK, RpcCas
    <3> QED BY <2>4, <3>4, <3>5, <3>6, <3>7 DEF TypeOK, RpcCas, nodeVars, commitVars
  <2>5. CASE RpcLift(n)
    BY <2>5 DEF TypeOK, RpcLift, clientVars, kvVars, commitVars
  <2>6. CASE RpcUnflag(n)
    BY <2>6 DEF TypeOK, RpcUnflag, clientVars, nodeVars, commitVars
  <2>7. CASE RpcIncr(n)
    BY <2>7 DEF TypeOK, RpcIncr, clientVars, kvVars, commitVars
  <2>8. CASE RpcReply(n)
    BY <2>8 DEF TypeOK, RpcReply, nodeVars, kvVars, commitVars
  <2>9. ASSUME NEW m \in Nodes, RpcPoll(n, m) PROVE TypeOK'
    BY <2>9 DEF TypeOK, RpcPoll, clientVars, nodeVars, kvVars, commitVars
  <2>10. ASSUME NEW m \in Nodes, RpcBcast(n, m) PROVE TypeOK'
    BY <2>10 DEF TypeOK, RpcBcast, clientVars, nodeVars, kvVars, commitVars
  <2> QED BY <1>7, <2>1, <2>2, <2>3, <2>4, <2>5, <2>6, <2>7, <2>8, <2>9, <2>10 DEF RpcStep
<1>8. ASSUME NEW m \in Nodes, ClusterStep(m) PROVE TypeOK'
  <2>1. CASE ClusterIncr(m)
    <3>1. out' \in [Nodes -> Nodes \cup {None}]
      BY <2>1 DEF TypeOK, ClusterIncr
    <3>2. waiting_barrier_id' \in [Nodes -> Nat]
      BY <2>1 DEF TypeOK, ClusterIncr
    <3>3. xserv' \in [Nodes -> Nodes \cup {None}]
      BY <2>1 DEF TypeOK, ClusterIncr
    <3> QED BY <2>1, <3>1, <3>2, <3>3 DEF TypeOK, ClusterIncr, clientVars, kvVars, commitVars
  <2>2. ASSUME NEW n \in Nodes, ClusterClear(m, n) PROVE TypeOK'
    BY <2>2 DEF TypeOK, ClusterClear, clientVars, kvVars, commitVars, rpcVars
  <2> QED BY <1>8, <2>1, <2>2 DEF ClusterStep
<1>9. CASE UNCHANGED vars
  BY <1>9 DEF TypeOK, vars, clientVars, nodeVars, kvVars, commitVars, rpcVars
<1> QED BY <1>1, <1>2, <1>3, <1>4, <1>5, <1>6, <1>7, <1>8, <1>9 DEF Next, Client

-----------------------------------------------------------------------------
(* Queues.                                                                 *)

\* What is left of a queue without its head.
LEMMA TailFacts ==
    ASSUME NEW S, NEW s \in Seq(S), s # <<>>
    PROVE  /\ Tail(s) \in Seq(S)
           /\ 1 \in DOMAIN s
           /\ \A i \in DOMAIN Tail(s) : i \in Nat /\ i >= 1 /\ i + 1 \in DOMAIN s /\ Tail(s)[i] = s[i + 1]
           /\ \A i \in DOMAIN s : i # 1 => i \in Nat /\ i > 1 /\ i - 1 \in DOMAIN Tail(s) /\ Tail(s)[i - 1] = s[i]
  OBVIOUS

\* What a queue is with one more message.
LEMMA AppendFacts ==
    ASSUME NEW S, NEW s \in Seq(S), NEW e \in S
    PROVE  /\ Append(s, e) \in Seq(S)
           /\ Len(s) + 1 \in DOMAIN Append(s, e) /\ Append(s, e)[Len(s) + 1] = e
           /\ Len(s) \in Nat
           /\ \A i \in DOMAIN s : /\ i \in Nat /\ i >= 1 /\ i < Len(s) + 1
                                  /\ i \in DOMAIN Append(s, e) /\ Append(s, e)[i] = s[i]
           /\ \A i \in DOMAIN Append(s, e) : i \in DOMAIN s \/ i = Len(s) + 1
  OBVIOUS

\* Which actions touch the queues, the commit threads and the ids.
LEMMA QueueActions ==
    ASSUME [Next]_vars
    PROVE  \/ \E c \in Clients : SendOp(c) \/ pacon_barrier(c)
           \/ \E n \in Nodes, c \in Clients : CommitRecv(n, c)
           \/ \E n \in Nodes : CommitStep(n)
           \/ UNCHANGED <<current_barrier_id, mq, cur, cpc>>
<1>1. ASSUME NEW c \in Clients, add_to_local_rpc(c)
      PROVE  UNCHANGED <<current_barrier_id, mq, cur, cpc>>
  BY <1>1 DEF add_to_local_rpc, commitVars
<1>2. ASSUME NEW n \in Nodes, NEW c \in Clients, RpcRecv(n, c)
      PROVE  UNCHANGED <<current_barrier_id, mq, cur, cpc>>
  BY <1>2 DEF RpcRecv, clientVars, commitVars
<1>3. ASSUME NEW n \in Nodes, RpcStep(n)
      PROVE  UNCHANGED <<current_barrier_id, mq, cur, cpc>>
  BY <1>3 DEF RpcStep, RpcLocal, RpcExec, RpcGetCas, RpcCas, RpcLift, RpcUnflag, RpcIncr,
              RpcReply, RpcPoll, RpcBcast, clientVars, commitVars
<1>4. ASSUME NEW n \in Nodes, ClusterStep(n)
      PROVE  UNCHANGED <<current_barrier_id, mq, cur, cpc>>
  BY <1>4 DEF ClusterStep, ClusterIncr, ClusterClear, clientVars, commitVars
<1>5. CASE UNCHANGED vars
  BY <1>5 DEF vars, clientVars, commitVars
<1> QED BY <1>1, <1>2, <1>3, <1>4, <1>5 DEF Next, Client

\* What a step does to one client's queue: nothing, append an operation,
\* announce a barrier (or fail to, past BARRIER_ID_MAX), or drop the head
\* the commit thread has finished with.
QueueKept(c) == mq'[c] = mq[c] /\ current_barrier_id'[c] = current_barrier_id[c]
OpQueued(c) ==
    /\ mq'[c] = Append(mq[c], OP(current_barrier_id[c]))
    /\ OP(current_barrier_id[c]) \in Message
    /\ current_barrier_id'[c] = current_barrier_id[c]
    /\ cur' = cur /\ cpc' = cpc
BarrierQueued(c) ==
    /\ current_barrier_id'[c] = current_barrier_id[c] + 1
    /\ \E a \in Message :
          /\ a.type = "BARRIER" /\ a.id = current_barrier_id[c] + 1 /\ a.id < BarrierIdMax
          /\ mq'[c] = Append(mq[c], a)
    /\ cur' = cur /\ cpc' = cpc
BarrierDropped(c) ==
    /\ current_barrier_id'[c] = current_barrier_id[c] + 1
    /\ current_barrier_id[c] + 1 >= BarrierIdMax
    /\ mq'[c] = mq[c]
    /\ cur' = cur /\ cpc' = cpc
HeadDropped(c) ==
    /\ mq[c] # <<>> /\ mq'[c] = Tail(mq[c])
    /\ current_barrier_id'[c] = current_barrier_id[c]
    /\ cur[NodeOf[c]] = c /\ cpc'[NodeOf[c]] = "recv"
    /\ \/ CommitApply(NodeOf[c]) \/ CommitCount(NodeOf[c]) \/ CommitFlag(NodeOf[c])

\* A step leaves the queue of a client alone, adds to it or drops its head.
LEMMA QueueStep ==
    ASSUME TypeOK, CommitInv, [Next]_vars, NEW c \in Clients
    PROVE  QueueKept(c) \/ OpQueued(c) \/ BarrierQueued(c) \/ BarrierDropped(c) \/ HeadDropped(c)
<1>1. ASSUME NEW d \in Clients, SendOp(d) PROVE QueueKept(c) \/ OpQueued(c)
  <2>1. OP(current_barrier_id[d]) \in Message
    BY ConstantsAssumption DEF TypeOK, OP, Message, MaxOpt
  <2> QED BY <1>1, <2>1 DEF TypeOK, SendOp, QueueKept, OpQueued, clientVars, commitVars
<1>2. ASSUME NEW d \in Clients, pacon_barrier(d)
      PROVE  QueueKept(c) \/ BarrierQueued(c) \/ BarrierDropped(c)
  <2> DEFINE k == current_barrier_id[d] + 1
             a == BARRIER(OptNum[k][d], k)
  <2>1. a \in Message /\ k \in 1 .. Rounds
    BY <1>2, NextBarrier
  <2>2. a.type = "BARRIER" /\ a.id = k
    BY DEF BARRIER
  <2>3. /\ current_barrier_id' = [current_barrier_id EXCEPT ![d] = k]
        /\ \/ k >= BarrierIdMax /\ mq' = mq
           \/ k < BarrierIdMax /\ mq' = [mq EXCEPT ![d] = Append(@, a)]
        /\ cur' = cur /\ cpc' = cpc
    BY <1>2 DEF pacon_barrier, commitVars
  <2> HIDE DEF a
  <2>4. /\ current_barrier_id'[c] = IF c = d THEN current_barrier_id[c] + 1 ELSE current_barrier_id[c]
        /\ \/ k >= BarrierIdMax /\ mq'[c] = mq[c]
           \/ k < BarrierIdMax /\ mq'[c] = IF c = d THEN Append(mq[c], a) ELSE mq[c]
        /\ cur' = cur /\ cpc' = cpc
    BY <2>3 DEF TypeOK
  <2>5. CASE c # d
    BY <2>4, <2>5 DEF QueueKept
  <2>6. CASE c = d
    BY <2>1, <2>2, <2>4, <2>6 DEF BarrierQueued, BarrierDropped
  <2> QED BY <2>5, <2>6
<1>3. ASSUME NEW n \in Nodes, NEW d \in Clients, CommitRecv(n, d) PROVE QueueKept(c)
  BY <1>3 DEF CommitRecv, QueueKept, clientVars
<1>4. ASSUME NEW n \in Nodes, CommitStep(n) PROVE QueueKept(c) \/ HeadDropped(c)
  <2>1. CASE CommitSpin(n) \/ CommitGetCas(n) \/ CommitCas(n)
    BY <2>1 DEF CommitSpin, CommitGetCas, CommitCas, QueueKept, clientVars
  <2>2. ASSUME CommitApply(n) \/ CommitCount(n) \/ CommitFlag(n),
               mq' = [mq EXCEPT ![cur[n]] = Tail(@)], cpc' = [cpc EXCEPT ![n] = "recv"],
               current_barrier_id' = current_barrier_id
        PROVE  QueueKept(c) \/ HeadDropped(c)
    <3>1. cpc[n] # "recv"
      BY <2>2 DEF CommitApply, CommitCount, CommitFlag
    <3>2. cur[n] \in Clients /\ NodeOf[cur[n]] = n /\ mq[cur[n]] # <<>>
      BY <3>1, HeadOfQueue
    <3> QED BY <2>2, <3>2 DEF TypeOK, QueueKept, HeadDropped
  <2>3. CASE CommitApply(n)
    BY <2>2, <2>3 DEF CommitApply, clientVars
  <2>4. CASE CommitCount(n)
    <3>1. /\ current_barrier_id' = current_barrier_id
          /\ \/ mq' = mq
             \/ mq' = [mq EXCEPT ![cur[n]] = Tail(@)] /\ cpc' = [cpc EXCEPT ![n] = "recv"]
      BY <2>4 DEF CommitCount, clientVars
    <3> QED BY <2>2, <2>4, <3>1 DEF QueueKept
  <2>5. CASE CommitFlag(n)
    BY <2>2, <2>5 DEF CommitFlag, clientVars
  <2> QED BY <1>4, <2>1, <2>3, <2>4, <2>5 DEF CommitStep
<1>5. CASE UNCHANGED <<current_barrier_id, mq, cur, cpc>>
  BY <1>5 DEF QueueKept
<1> QED BY <1>1, <1>2, <1>3, <1>4, <1>5, QueueActions

-----------------------------------------------------------------------------
(* The order of the queues.                                                *)

\* The fields of a message.
LEMMA MessageFields ==
    ASSUME NEW m \in Message
    PROVE  /\ m.id \in 0 .. Rounds /\ m.id \in Int /\ m.id >= 0
           /\ m.type \in {"OP", "BARRIER"} /\ m.opt \in 0 .. MaxOpt
<1>1. Rounds \in Nat
  BY ConstantsAssumption
<1> QED BY <1>1 DEF Message

\* A queue stays in order when its client queues an operation ...
LEMMA OrderedAfterOp ==
    ASSUME NEW q \in Seq(Message), NEW k \in 0 .. Rounds, Ordered(q, k), OP(k) \in Message
    PROVE  Ordered(Append(q, OP(k)), k)
<1> DEFINE a == OP(k)
           r == Append(q, a)
<1>1. a.type = "OP" /\ a.id = k /\ a \in Message
  BY DEF OP
<1> HIDE DEF a
<1>2. \A i \in DOMAIN q : q[i] \in Message /\ q[i].id \in Int
  BY MessageFields
<1>3. /\ Len(q) + 1 \in DOMAIN r /\ r[Len(q) + 1] = a /\ Len(q) \in Nat
      /\ \A i \in DOMAIN q : i \in Nat /\ i < Len(q) + 1 /\ i \in DOMAIN r /\ r[i] = q[i]
      /\ \A i \in DOMAIN r : i \in DOMAIN q \/ i = Len(q) + 1
  BY <1>1, AppendFacts
<1> HIDE DEF r
<1>4. k \in Int /\ Rounds \in Nat
  BY ConstantsAssumption
<1>5. ASSUME NEW i \in DOMAIN r
      PROVE  /\ r[i].id <= k
             /\ r[i].type = "BARRIER" => r[i].id >= 1 /\ r[i].id < BarrierIdMax
  BY <1>1, <1>3, <1>4 DEF Ordered
<1>6. ASSUME NEW i \in DOMAIN r, NEW j \in DOMAIN r, i < j
      PROVE  r[i].id <= r[j].id /\ (r[j].type = "BARRIER" => r[i].id < r[j].id)
  <2>1. i \in DOMAIN q
    BY <1>3, <1>6
  <2>2. CASE j \in DOMAIN q
    BY <1>3, <1>6, <2>1, <2>2 DEF Ordered
  <2>3. CASE j = Len(q) + 1
    BY <1>1, <1>3, <1>6, <2>1, <2>3 DEF Ordered
  <2> QED BY <1>3, <2>2, <2>3
<1>7. ASSUME NEW i \in DOMAIN r, NEW l \in 1 .. Rounds, r[i].id < l, l <= k, l < BarrierIdMax
      PROVE  \E j \in DOMAIN r : i < j /\ r[j].type = "BARRIER" /\ r[j].id = l
  <2>1. i \in DOMAIN q
    BY <1>1, <1>3, <1>4, <1>7
  <2>2. PICK j \in DOMAIN q : i < j /\ q[j].type = "BARRIER" /\ q[j].id = l
    BY <1>3, <1>7, <2>1 DEF Ordered
  <2> QED BY <1>3, <2>2
<1>8. Ordered(r, k)
  BY <1>5, <1>6, <1>7 DEF Ordered
<1> QED BY <1>8 DEF r, a

\* ... when it announces the next barrier ...
LEMMA OrderedAfterBarrier ==
    ASSUME NEW q \in Seq(Message), NEW k \in 0 .. Rounds, Ordered(q, k),
           NEW a \in Message, a.type = "BARRIER", a.id = k + 1, k + 1 < BarrierIdMax
    PROVE  Ordered(Append(q, a), k + 1)
<1> DEFINE r == Append(q, a)
<1>2. \A i \in DOMAIN q : q[i] \in Message /\ q[i].id \in Int
  BY MessageFields
<1>3. /\ Len(q) + 1 \in DOMAIN r /\ r[Len(q) + 1] = a /\ Len(q) \in Nat
      /\ \A i \in DOMAIN q : i \in Nat /\ i < Len(q) + 1 /\ i \in DOMAIN r /\ r[i] = q[i]
      /\ \A i \in DOMAIN r : i \in DOMAIN q \/ i = Len(q) + 1
  BY AppendFacts
<1> HIDE DEF r
<1>4. k \in Int /\ k >= 0 /\ Rounds \in Nat
  BY ConstantsAssumption
<1>5. ASSUME NEW i \in DOMAIN r
      PROVE  /\ r[i].id <= k + 1
             /\ r[i].type = "BARRIER" => r[i].id >= 1 /\ r[i].id < BarrierIdMax
  BY <1>2, <1>3, <1>4 DEF Ordered
<1>6. ASSUME NEW i \in DOMAIN r, NEW j \in DOMAIN r, i < j
      PROVE  r[i].id <= r[j].id /\ (r[j].type = "BARRIER" => r[i].id < r[j].id)
  <2>1. i \in DOMAIN q
    BY <1>3, <1>6
  <2>2. CASE j \in DOMAIN q
    BY <1>3, <1>6, <2>1, <2>2 DEF Ordered
  <2>3. CASE j = Len(q) + 1
    <3>1. q[i].id <= k /\ q[i].id \in Int
      BY <1>2, <2>1 DEF Ordered
    <3> QED BY <1>3, <1>4, <2>1, <2>3, <3>1
  <2> QED BY <1>3, <2>2, <2>3
<1>7. ASSUME NEW i \in DOMAIN r, NEW l \in 1 .. Rounds, r[i].id < l, l <= k + 1, l < BarrierIdMax
      PROVE  \E j \in DOMAIN r : i < j /\ r[j].type = "BARRIER" /\ r[j].id = l
  <2>1. i \in DOMAIN q
    BY <1>3, <1>4, <1>7
  <2>2. CASE l = k + 1
    BY <1>3, <2>1, <2>2
  <2>3. CASE l <= k
    <3>1. PICK j \in DOMAIN q : i < j /\ q[j].type = "BARRIER" /\ q[j].id = l
      BY <1>3, <1>7, <2>1, <2>3 DEF Ordered
    <3> QED BY <1>3, <3>1
  <2> QED BY <1>4, <1>7, <2>2, <2>3
<1>8. Ordered(r, k + 1)
  BY <1>5, <1>6, <1>7 DEF Ordered
<1> QED BY <1>8 DEF r

\* ... when its head is committed ...
LEMMA OrderedTail ==
    ASSUME NEW q \in Seq(Message), q # <<>>, NEW k \in 0 .. Rounds, Ordered(q, k)
    PROVE  Ordered(Tail(q), k)
<1> DEFINE r == Tail(q)
<1>1. /\ \A i \in DOMAIN r : i \in Nat /\ i + 1 \in DOMAIN q /\ r[i] = q[i + 1]
      /\ \A i \in DOMAIN q : i # 1 => i \in Nat /\ i > 1 /\ i - 1 \in DOMAIN r /\ r[i - 1] = q[i]
  BY TailFacts
<1> HIDE DEF r
<1>2. ASSUME NEW i \in DOMAIN r
      PROVE  /\ r[i].id <= k
             /\ r[i].type = "BARRIER" => r[i].id >= 1 /\ r[i].id < BarrierIdMax
  BY <1>1 DEF Ordered
<1>3. ASSUME NEW i \in DOMAIN r, NEW j \in DOMAIN r, i < j
      PROVE  r[i].id <= r[j].id /\ (r[j].type = "BARRIER" => r[i].id < r[j].id)
  <2>1. i + 1 \in DOMAIN q /\ j + 1 \in DOMAIN q /\ i + 1 < j + 1
    BY <1>1, <1>3
  <2>2. /\ q[i + 1].id <= q[j + 1].id
        /\ q[j + 1].type = "BARRIER" => q[i + 1].id < q[j + 1].id
    BY <2>1 DEF Ordered
  <2> QED BY <1>1, <2>2
<1>4. ASSUME NEW i \in DOMAIN r, NEW l \in 1 .. Rounds, r[i].id < l, l <= k, l < BarrierIdMax
      PROVE  \E j \in DOMAIN r : i < j /\ r[j].type = "BARRIER" /\ r[j].id = l
  <2>1. i + 1 \in DOMAIN q /\ q[i + 1].id < l /\ i \in Nat
    BY <1>1, <1>4
  <2>2. PICK j \in DOMAIN q : i + 1 < j /\ q[j].type = "BARRIER" /\ q[j].id = l
    BY <1>4, <2>1 DEF Ordered
  <2>3. j \in Nat /\ j # 1
    BY <2>1, <2>2
  <2>4. j - 1 \in DOMAIN r /\ r[j - 1] = q[j] /\ i < j - 1
    BY <1>1, <2>1, <2>2, <2>3
  <2> QED BY <2>2, <2>4
<1>5. Ordered(r, k)
  BY <1>2, <1>3, <1>4 DEF Ordered
<1> QED BY <1>5 DEF r

\* ... and when an announcement past BARRIER_ID_MAX is not queued.
LEMMA OrderedLater ==
    ASSUME NEW q \in Seq(Message), NEW k \in 0 .. Rounds, Ordered(q, k), k + 1 >= BarrierIdMax
    PROVE  Ordered(q, k + 1)
<1>1. \A i \in DOMAIN q : q[i] \in Message /\ q[i].id \in Int
  BY MessageFields
<1>2. k \in Int /\ BarrierIdMax \in Nat /\ Rounds \in Nat
  BY ConstantsAssumption
<1>3. \A l \in 1 .. Rounds : l <= k + 1 /\ l < BarrierIdMax => l <= k
  BY <1>2
<1>4. \A i \in DOMAIN q : q[i].id <= k => q[i].id <= k + 1
  BY <1>1, <1>2
<1> QED BY <1>3, <1>4 DEF Ordered

\* Every step keeps the queues in order.
LEMMA QueuePreserved ==
    ASSUME TypeOK, QueueInv, CommitInv, [Next]_vars
    PROVE  QueueInv'
<1> SUFFICES ASSUME NEW c \in Clients PROVE Ordered(mq'[c], current_barrier_id'[c])
  BY DEF QueueInv, Ordered
<1> DEFINE q == mq[c]
           k == current_barrier_id[c]
<1>1. q \in Seq(Message) /\ k \in 0 .. Rounds /\ Ordered(q, k)
  BY DEF TypeOK, QueueInv
<1>2. CASE QueueKept(c)
  BY <1>1, <1>2 DEF QueueKept
<1>3. CASE OpQueued(c)
  BY <1>1, <1>3, OrderedAfterOp DEF OpQueued
<1>4. CASE BarrierQueued(c)
  BY <1>1, <1>4, OrderedAfterBarrier DEF BarrierQueued
<1>5. CASE BarrierDropped(c)
  BY <1>1, <1>5, OrderedLater DEF BarrierDropped
<1>6. CASE HeadDropped(c)
  BY <1>1, <1>6, OrderedTail DEF HeadDropped
<1> QED BY <1>2, <1>3, <1>4, <1>5, <1>6, QueueStep

-----------------------------------------------------------------------------
(* The commit threads.                                                     *)

\* What a step does to the commit thread of node n and its client.
LEMMA ThreadStep ==
    ASSUME TypeOK, [Next]_vars, NEW n \in Nodes
    PROVE  \/ cur'[n] = cur[n] /\ cpc'[n] = cpc[n]
           \/ \E c \in Clients : CommitRecv(n, c)
           \/ CommitStep(n)
<1>1. ASSUME NEW c \in Clients, SendOp(c) \/ pacon_barrier(c)
      PROVE  cur' = cur /\ cpc' = cpc
  BY <1>1 DEF SendOp, pacon_barrier, commitVars
<1>2. ASSUME NEW m \in Nodes, NEW c \in Clients, CommitRecv(m, c), m # n
      PROVE  cur'[n] = cur[n] /\ cpc'[n] = cpc[n]
  BY <1>2 DEF TypeOK, CommitRecv
<1>3. ASSUME NEW m \in Nodes, CommitStep(m), m # n
      PROVE  cur'[n] = cur[n] /\ cpc'[n] = cpc[n]
  BY <1>3 DEF TypeOK, CommitStep, CommitSpin, CommitApply, CommitGetCas, CommitCas, CommitCount,
              CommitFlag
<1> QED BY <1>1, <1>2, <1>3, QueueActions

\* The head of the queue stays until the commit thread drops it.
LEMMA HeadKept ==
    ASSUME TypeOK, CommitInv, [Next]_vars, NEW n \in Nodes,
           cpc[n] # "recv", cpc'[n] # "recv", cur'[n] = cur[n]
    PROVE  /\ mq'[cur[n]] # <<>> /\ mq'[cur[n]][1] = mq[cur[n]][1]
           /\ Msg(n)' = Msg(n) /\ MsgIndex(n)' = MsgIndex(n)
<1> DEFINE c == cur[n]
<1>1. c \in Clients /\ NodeOf[c] = n /\ mq[c] \in Seq(Message) /\ mq[c] # <<>>
  BY HeadOfQueue
<1>2. mq'[c] # <<>> /\ mq'[c][1] = mq[c][1] /\ Head(mq'[c]) = Head(mq[c])
  <2>1. CASE mq'[c] = mq[c]
    BY <1>1, <2>1
  <2>2. ASSUME NEW a \in Message, mq'[c] = Append(mq[c], a)
        PROVE  mq'[c] # <<>> /\ mq'[c][1] = mq[c][1] /\ Head(mq'[c]) = Head(mq[c])
    <3> HIDE DEF c
    <3> QED BY <1>1, <2>2
  <2>3. ~ HeadDropped(c)
    BY <1>1 DEF HeadDropped
  <2> QED BY <1>1, <2>1, <2>2, <2>3, QueueStep
          DEF QueueKept, OpQueued, BarrierQueued, BarrierDropped
<1>3. Msg(n)' = Msg(n)
  BY <1>2 DEF Msg
<1> QED BY <1>2, <1>3 DEF MsgIndex

\* A commit thread keeps working on a message of the kind its step expects.
LEMMA CommitPreserved ==
    ASSUME TypeOK, QueueInv, CommitInv, [Next]_vars
    PROVE  CommitInv'
<1> SUFFICES ASSUME NEW n \in Nodes, cpc'[n] # "recv"
             PROVE  /\ cur'[n] \in Clients
                    /\ NodeOf[cur'[n]] = n
                    /\ mq'[cur'[n]] # <<>>
                    /\ cpc'[n] = "apply" => Msg(n)'.type = "OP"
                    /\ cpc'[n] \in {"get", "cas", "count", "flag"} => Msg(n)'.type = "BARRIER"
  BY DEF CommitInv
<1>1. CASE cur'[n] = cur[n] /\ cpc'[n] = cpc[n]
  <2>1. mq'[cur[n]] # <<>> /\ Msg(n)' = Msg(n)
    BY <1>1, HeadKept
  <2> QED BY <1>1, <2>1 DEF CommitInv
<1>2. ASSUME NEW c \in Clients, CommitRecv(n, c)
      PROVE  /\ cur'[n] = c /\ cpc'[n] = "spin"
             /\ NodeOf[c] = n /\ mq'[c] # <<>>
  BY <1>2 DEF TypeOK, CommitRecv
<1>3. CASE CommitStep(n)
  <2>1. cpc[n] # "recv"
    BY <1>3 DEF CommitStep, CommitSpin, CommitApply, CommitGetCas, CommitCas, CommitCount, CommitFlag
  <2>2. /\ cur'[n] = cur[n]
        /\ \/ cpc'[n] = "apply" /\ Msg(n).type = "OP"
           \/ cpc'[n] \in {"get", "cas", "count", "flag"} /\ Msg(n).type = "BARRIER"
    <3>1. CASE CommitSpin(n)
      BY <3>1 DEF TypeOK, CommitSpin
    <3>2. CASE CommitApply(n) \/ CommitFlag(n)
      BY <3>2 DEF TypeOK, CommitApply, CommitFlag
    <3>3. CASE CommitGetCas(n)
      BY <3>3 DEF TypeOK, CommitGetCas, CommitInv
    <3>4. CASE CommitCas(n)
      BY <3>4 DEF TypeOK, CommitCas, CommitInv
    <3>5. CASE CommitCount(n)
      BY <3>5 DEF TypeOK, CommitCount, CommitInv
    <3> QED BY <1>3, <3>1, <3>2, <3>3, <3>4, <3>5 DEF CommitStep
  <2>3. mq'[cur[n]] # <<>> /\ Msg(n)' = Msg(n)
    BY <2>1, <2>2, HeadKept
  <2> QED BY <2>1, <2>2, <2>3 DEF CommitInv
<1> QED BY <1>1, <1>2, <1>3, ThreadStep

-----------------------------------------------------------------------------
(* Calls.                                                                  *)

\* A call stays with the server that serves it until it is answered.
LEMMA CallPreserved ==
    ASSUME TypeOK, CallInv, [Next]_vars
    PROVE  CallInv'
<1>1. ASSUME NEW c \in Clients, SendOp(c) PROVE CallInv'
  BY <1>1 DEF CallInv, SendOp, clientVars, rpcVars
<1>2. ASSUME NEW c \in Clients, pacon_barrier(c) PROVE CallInv'
  <2>1. /\ c \notin calling /\ calling' = calling /\ serving' = serving /\ rpc' = rpc
        /\ current_barrier_id' = [current_barrier_id EXCEPT ![c] = current_barrier_id[c] + 1]
        /\ \A d \in Clients : d # c => todo'[d] = todo[d]
    BY <1>2 DEF TypeOK, pacon_barrier, AppMayBarrier, rpcVars
  <2>2. current_barrier_id[c] + 1 >= 1 /\ \A d \in Clients : current_barrier_id[d] \in Int
    <3>1. Rounds \in Nat
      BY ConstantsAssumption
    <3>2. \A d \in Clients : current_barrier_id[d] \in 0 .. Rounds
      BY DEF TypeOK
    <3> QED BY <3>1, <3>2
  <2>3. calling \subseteq Clients
    BY DEF TypeOK
  <2>4. \A d \in calling : current_barrier_id'[d] = current_barrier_id[d] /\ todo'[d] = todo[d]
    BY <2>1, <2>3 DEF TypeOK
  <2>5. \A d \in Clients : todo'[d] > 0 => current_barrier_id'[d] >= 1
    BY <2>1, <2>2 DEF TypeOK, CallInv
  <2> QED BY <2>1, <2>4, <2>5 DEF CallInv
<1>3. ASSUME NEW c \in Clients, add_to_local_rpc(c) PROVE CallInv'
  BY <1>3 DEF CallInv, add_to_local_rpc, rpcVars
<1>4. ASSUME NEW n \in Nodes, NEW c \in Clients, CommitRecv(n, c) PROVE CallInv'
  BY <1>4 DEF CallInv, CommitRecv, clientVars, rpcVars
<1>5. ASSUME NEW n \in Nodes, CommitStep(n) PROVE CallInv'
  <2>1. UNCHANGED <<clientVars, rpcVars>>
    BY <1>5 DEF CommitStep, CommitSpin, CommitApply, CommitGetCas, CommitCas, CommitCount, CommitFlag
  <2> QED BY <2>1 DEF CallInv, clientVars, rpcVars
<1>6. ASSUME NEW n \in Nodes, NEW c \in Clients, RpcRecv(n, c) PROVE CallInv'
  <2>1. /\ rpc[n] = "recv" /\ NodeOf[c] = n /\ c \in calling
        /\ calling' = calling /\ todo' = todo /\ current_barrier_id' = current_barrier_id
        /\ serving' = [serving EXCEPT ![n] = c] /\ rpc' = [rpc EXCEPT ![n] = "local"]
    BY <1>6 DEF RpcRecv, clientVars
  <2>2. /\ serving'[n] = c /\ rpc'[n] = "local"
        /\ \A m \in Nodes : m # n => serving'[m] = serving[m] /\ rpc'[m] = rpc[m]
    BY <2>1 DEF TypeOK
  <2>3. serving[n] = None /\ \A d \in calling : d # None /\ NodeOf[d] \in Nodes
    BY <2>1, ConstantsAssumption DEF TypeOK, CallInv
  <2>4. \A d \in calling : NodeOf[d] = n => todo[d] > 0
    BY <2>3 DEF CallInv
  <2>5. \A d \in calling : serving'[NodeOf[d]] # d => todo[d] > 0
    BY <2>2, <2>3, <2>4 DEF CallInv
  <2> QED BY <2>1, <2>2, <2>4, <2>5 DEF CallInv
<1>7. ASSUME NEW n \in Nodes, RpcStep(n) PROVE CallInv'
  <2>1. CASE RpcLocal(n)
    BY <2>1 DEF TypeOK, CallInv, RpcLocal, clientVars
  <2>2. CASE RpcExec(n)
    BY <2>2 DEF TypeOK, CallInv, RpcExec, Executing, clientVars
  <2>3. CASE RpcGetCas(n)
    BY <2>3 DEF TypeOK, CallInv, RpcGetCas, clientVars
  <2>4. CASE RpcCas(n)
    <3> DEFINE d == serving[n]
    <3>1. d \in calling /\ d \in Clients /\ NodeOf[d] = n
      BY <2>4, RequestedIndex DEF RpcCas
    <3>2. /\ calling' = calling /\ serving' = serving
          /\ current_barrier_id' = current_barrier_id
          /\ \A c \in Clients : c # d => todo'[c] = todo[c]
          /\ todo'[d] = todo[d] \/ todo'[d] = todo[d] - 1
      BY <2>4, <3>1 DEF TypeOK, RpcCas
    <3>9. /\ rpc'[n] \in {"lift", "reply", "get"} /\ (rpc'[n] = "get" => todo' = todo)
          /\ \A m \in Nodes : m # n => rpc'[m] = rpc[m]
      BY <2>4 DEF TypeOK, RpcCas
    <3>3. \A m \in Nodes : m # n /\ rpc[m] # "recv" => serving[m] # d /\ serving[m] \in Clients
      BY <3>1, RequestedIndex
    <3>4. todo[d] > 0 /\ todo[d] \in Int
      <4>1. todo[d] \in 0 .. 9
        BY <3>1 DEF TypeOK, MaxOpt
      <4>2. rpc[n] = "cas"
        BY <2>4 DEF RpcCas
      <4> QED BY <4>1, <4>2 DEF CallInv
    <3>5. \A c \in Clients : todo'[c] > 0 => current_barrier_id[c] >= 1
      BY <3>2, <3>4 DEF CallInv
    <3>6. \A c \in calling : serving[NodeOf[c]] # c => todo'[c] > 0
      <4>1. \A c \in calling : c \in Clients /\ (serving[NodeOf[c]] # c => todo[c] > 0)
        BY DEF TypeOK, CallInv
      <4>2. serving[NodeOf[d]] = d
        BY <3>1
      <4> QED BY <3>2, <4>1, <4>2
    <3>7. \A m \in Nodes : rpc'[m] # "recv" =>
             /\ serving[m] \in calling /\ NodeOf[serving[m]] = m
             /\ rpc'[m] \in {"local", "poll", "get", "cas"} => todo'[serving[m]] > 0
      BY <2>4, <3>1, <3>2, <3>9, <3>3, <3>4 DEF CallInv, RpcCas
    <3>8. \A m \in Nodes : rpc'[m] = "recv" => serving[m] = None
      BY <3>9 DEF CallInv
    <3> QED BY <3>2, <3>5, <3>6, <3>7, <3>8 DEF CallInv
  <2>5. CASE RpcLift(n) \/ RpcUnflag(n) \/ RpcIncr(n)
    BY <2>5 DEF TypeOK, CallInv, RpcLift, RpcUnflag, RpcIncr, clientVars
  <2>6. CASE RpcReply(n)
    BY <2>6 DEF TypeOK, CallInv, RpcReply
  <2>7. ASSUME NEW m \in Nodes, RpcPoll(n, m) \/ RpcBcast(n, m) PROVE CallInv'
    BY <2>7 DEF CallInv, RpcPoll, RpcBcast, clientVars
  <2> QED BY <1>7, <2>1, <2>2, <2>3, <2>4, <2>5, <2>6, <2>7 DEF RpcStep
<1>8. ASSUME NEW m \in Nodes, ClusterStep(m) PROVE CallInv'
  BY <1>8 DEF CallInv, ClusterStep, ClusterIncr, ClusterClear, clientVars, rpcVars
<1>9. CASE UNCHANGED vars
  BY <1>9 DEF CallInv, vars, clientVars, rpcVars
<1> QED BY <1>1, <1>2, <1>3, <1>4, <1>5, <1>6, <1>7, <1>8, <1>9 DEF Next, Client

-----------------------------------------------------------------------------
(* Clients that have passed a barrier.                                     *)

\* A counted announcement stays at the head until its node has published.
LEMMA CountedKept ==
    ASSUME TypeOK, CommitInv, [Next]_vars, NEW c \in Clients, NEW b \in Int, Counted(c, b)
    PROVE  Counted(c, b)' \/ HeadDropped(c)
<1> DEFINE n == NodeOf[c]
<1>1. n \in Nodes /\ cur[n] = c /\ cpc[n] = "flag" /\ mq[c][1].id = b + 1
  BY ConstantsAssumption DEF Counted
<1>2. CASE cur'[n] = cur[n] /\ cpc'[n] = cpc[n]
  <2>1. mq'[c][1] = mq[c][1]
    BY <1>1, <1>2, HeadKept
  <2> QED BY <1>1, <1>2, <2>1 DEF Counted
<1>3. ASSUME NEW d \in Clients, CommitRecv(n, d) PROVE FALSE
  BY <1>1, <1>3 DEF CommitRecv
<1>4. CASE CommitStep(n)
  <2>1. CommitFlag(n)
    BY <1>1, <1>4 DEF CommitStep, CommitSpin, CommitApply, CommitGetCas, CommitCas, CommitCount
  <2>2. mq[c] # <<>>
    BY <1>1, HeadOfQueue
  <2>3. mq'[c] = Tail(mq[c]) /\ current_barrier_id'[c] = current_barrier_id[c] /\ cpc'[n] = "recv"
    BY <1>1, <2>1 DEF CommitFlag, TypeOK, clientVars
  <2> QED BY <1>1, <2>1, <2>2, <2>3 DEF HeadDropped
<1> QED BY <1>1, <1>2, <1>3, <1>4, ThreadStep

\* A client that has passed a barrier index stays past it.
LEMMA PassedStable ==
    ASSUME TypeOK, QueueInv, CommitInv, [Next]_vars, NEW c \in Clients, NEW b \in Int,
           Passed(c, b)
    PROVE  Passed(c, b)'
<1> DEFINE q == mq[c]
           k == current_barrier_id[c]
<1>1. q \in Seq(Message) /\ k \in Int
  <2>1. k \in 0 .. Rounds /\ Rounds \in Nat
    BY ConstantsAssumption DEF TypeOK
  <2> QED BY <2>1 DEF TypeOK
<1>2. k > b /\ \A i \in DOMAIN q : Beyond(q[i], b) \/ (i = 1 /\ Counted(c, b))
  BY DEF Passed
<1>3. CASE HeadDropped(c)
  <2>1. q # <<>> /\ mq'[c] = Tail(q) /\ current_barrier_id'[c] = k
    BY <1>3 DEF HeadDropped
  <2>2. \A i \in DOMAIN Tail(q) : i \in Nat /\ i >= 1 /\ i + 1 \in DOMAIN q /\ Tail(q)[i] = q[i + 1]
    BY <1>1, <2>1, TailFacts
  <2>3. \A i \in DOMAIN Tail(q) : Beyond(Tail(q)[i], b)
    <3> TAKE i \in DOMAIN Tail(q)
    <3>1. i + 1 # 1 /\ i + 1 \in DOMAIN q /\ Tail(q)[i] = q[i + 1]
      BY <2>2
    <3> QED BY <1>2, <3>1
  <2> HIDE DEF q, k
  <2> QED BY <1>2, <2>1, <2>3 DEF Passed, Beyond
<1>4. CASE ~ HeadDropped(c)
  <2>1. Counted(c, b) => Counted(c, b)'
    BY <1>4, CountedKept
  <2>2. CASE mq'[c] = q /\ current_barrier_id'[c] >= k
    <3>1. current_barrier_id'[c] > b
      <4>1. current_barrier_id'[c] \in Int
        BY <2>2, <1>1, QueueStep, <1>4
           DEF QueueKept, OpQueued, BarrierQueued, BarrierDropped
      <4> QED BY <1>1, <1>2, <2>2, <4>1
    <3> QED BY <1>2, <2>1, <2>2, <3>1 DEF Passed, Beyond
  <2>3. ASSUME NEW a \in Message, mq'[c] = Append(q, a), Beyond(a, b), current_barrier_id'[c] > b
        PROVE  Passed(c, b)'
    <3>1. /\ \A i \in DOMAIN q : i \in DOMAIN Append(q, a) /\ Append(q, a)[i] = q[i]
          /\ \A i \in DOMAIN Append(q, a) : i \in DOMAIN q \/ i = Len(q) + 1
          /\ Append(q, a)[Len(q) + 1] = a
      BY <1>1, AppendFacts
    <3>2. \A i \in DOMAIN mq'[c] : Beyond(mq'[c][i], b) \/ (i = 1 /\ Counted(c, b)')
      BY <1>2, <2>1, <2>3, <3>1
    <3> QED BY <2>3, <3>2 DEF Passed, Beyond
  <2>4. CASE QueueKept(c) \/ BarrierDropped(c)
    BY <1>1, <2>2, <2>4 DEF QueueKept, BarrierDropped
  <2>5. CASE OpQueued(c)
    <3>1. Beyond(OP(k), b)
      BY <1>2 DEF Beyond, OP
    <3> QED BY <1>2, <2>3, <2>5, <3>1 DEF OpQueued
  <2>6. CASE BarrierQueued(c)
    <3>1. PICK a \in Message : a.type = "BARRIER" /\ a.id = k + 1 /\ mq'[c] = Append(q, a)
      BY <2>6 DEF BarrierQueued
    <3>2. k + 1 > b /\ k + 1 > b + 1 /\ current_barrier_id'[c] = k + 1
      BY <1>1, <1>2, <2>6 DEF BarrierQueued
    <3>3. Beyond(a, b)
      BY <3>1, <3>2 DEF Beyond
    <3> QED BY <2>3, <3>1, <3>2, <3>3
  <2> QED BY <1>4, <2>4, <2>5, <2>6, QueueStep
<1> QED BY <1>3, <1>4

\* Behind a message that is not beyond b sits the announcement of b, once
\* the client has made it.
LEMMA AnnouncementQueued ==
    ASSUME NEW q \in Seq(Message), NEW k \in 0 .. Rounds, Ordered(q, k),
           NEW b \in Index, b < BarrierIdMax - 1, k > b,
           NEW i \in DOMAIN q, ~ Beyond(q[i], b)
    PROVE  \E j \in DOMAIN q : /\ j = i \/ i < j
                               /\ q[j].type = "BARRIER" /\ q[j].id = b + 1
                               /\ ~ Beyond(q[j], b)
<1>1. Rounds \in Nat /\ BarrierIdMax \in Nat /\ b \in Int /\ b >= 0 /\ k \in Int /\ k <= Rounds
  BY ConstantsAssumption DEF Index
<1>2. q[i].id \in Int /\ q[i].type \in {"OP", "BARRIER"}
  BY MessageFields
<1>3. CASE q[i].id < b + 1
  <2>1. b + 1 \in 1 .. Rounds /\ b + 1 <= k /\ b + 1 < BarrierIdMax
    BY <1>1
  <2>2. PICK j \in DOMAIN q : i < j /\ q[j].type = "BARRIER" /\ q[j].id = b + 1
    BY <1>3, <2>1 DEF Ordered
  <2> QED BY <1>1, <2>2 DEF Beyond
<1>4. CASE q[i].type = "BARRIER" /\ q[i].id = b + 1
  BY <1>1, <1>4 DEF Beyond
<1> QED BY <1>1, <1>2, <1>3, <1>4 DEF Beyond

\* A client passes a barrier index only when its commit thread counts it.
LEMMA PassedOnlyByCount ==
    ASSUME TypeOK, QueueInv, CommitInv, [Next]_vars, NEW c \in Clients,
           NEW b \in Index, b < BarrierIdMax - 1, ~ Passed(c, b), Passed(c, b)'
    PROVE  CommitCount(NodeOf[c]) /\ cur[NodeOf[c]] = c /\ MsgIndex(NodeOf[c]) = b
<1> DEFINE n == NodeOf[c]
           q == mq[c]
           k == current_barrier_id[c]
<1>1. /\ n \in Nodes /\ q \in Seq(Message) /\ k \in 0 .. Rounds /\ Ordered(q, k)
      /\ k \in Int /\ b \in Int /\ BarrierIdMax \in Nat
  BY ConstantsAssumption DEF TypeOK, QueueInv, Index
<1>2. /\ current_barrier_id'[c] > b
      /\ \A i \in DOMAIN mq'[c] : Beyond(mq'[c][i], b) \/ (i = 1 /\ Counted(c, b)')
  BY DEF Passed, Beyond
<1>3. CASE ~ (k > b)
  <2>1. ~ (QueueKept(c) \/ OpQueued(c) \/ HeadDropped(c))
    BY <1>2, <1>3 DEF QueueKept, OpQueued, HeadDropped
  <2>2. ~ BarrierDropped(c)
    BY <1>1, <1>3 DEF BarrierDropped
  <2>3. CASE BarrierQueued(c)
    <3>1. PICK a \in Message : /\ a.type = "BARRIER" /\ a.id = k + 1 /\ mq'[c] = Append(q, a)
      BY <2>3 DEF BarrierQueued
    <3>2. ~ Beyond(a, b)
      BY <1>1, <1>3, <3>1 DEF Beyond
    <3>3. /\ Len(q) + 1 \in DOMAIN mq'[c] /\ mq'[c][Len(q) + 1] = a /\ Len(q) \in Nat
      BY <1>1, <3>1, AppendFacts
    <3>4. Len(q) + 1 = 1 /\ Counted(c, b)'
      BY <1>2, <3>2, <3>3
    <3>5. cur[n] = c /\ cpc[n] = "flag"
      BY <2>3, <3>4 DEF BarrierQueued, Counted
    <3>6. q # <<>>
      BY <1>1, <3>5 DEF CommitInv
    <3> QED BY <1>1, <3>3, <3>4, <3>6
  <2> QED BY <2>1, <2>2, <2>3, QueueStep
<1>4. CASE k > b
  <2>1. PICK i \in DOMAIN q : ~ Beyond(q[i], b) /\ ~ (i = 1 /\ Counted(c, b))
    BY <1>4 DEF Passed
  <2>2. PICK j \in DOMAIN q : /\ j = i \/ i < j
                              /\ q[j].type = "BARRIER" /\ q[j].id = b + 1
                              /\ ~ Beyond(q[j], b)
    BY <1>1, <1>4, <2>1, AnnouncementQueued
  <2>3. ~ (j = 1 /\ Counted(c, b)) /\ i \in Nat /\ j \in Nat /\ i >= 1
    BY <1>1, <2>1, <2>2
  <2>4. CASE HeadDropped(c)
    <3>1. q # <<>> /\ mq'[c] = Tail(q) /\ cur[n] = c /\ cpc'[n] = "recv"
      BY <2>4 DEF HeadDropped
    <3>2. ~ Counted(c, b)'
      BY <3>1 DEF Counted
    <3>3. j = 1
      <4>1. j # 1 => j - 1 \in DOMAIN Tail(q) /\ Tail(q)[j - 1] = q[j]
        BY <1>1, <3>1, TailFacts
      <4> QED BY <1>2, <2>2, <3>1, <3>2, <4>1
    <3>4. cpc[n] # "recv"
      BY <2>4 DEF HeadDropped, CommitApply, CommitCount, CommitFlag
    <3>5. Msg(n) = q[1]
      BY <1>1, <3>1, <3>4, HeadOfQueue
    <3>6. ~ CommitApply(n)
      BY <1>1, <2>2, <3>3, <3>5 DEF CommitApply, CommitInv
    <3>7. ~ CommitFlag(n)
      BY <2>2, <2>3, <3>1, <3>3 DEF CommitFlag, Counted
    <3>8. CommitCount(n)
      BY <2>4, <3>6, <3>7 DEF HeadDropped
    <3>9. MsgIndex(n) = b
      BY <1>1, <2>2, <3>3, <3>5 DEF MsgIndex
    <3> QED BY <3>1, <3>8, <3>9
  <2>5. CASE ~ HeadDropped(c)
    <3>1. j \in DOMAIN mq'[c] /\ mq'[c][j] = q[j]
      <4>1. mq'[c] = q \/ \E a \in Message : mq'[c] = Append(q, a)
        BY <2>5, QueueStep DEF QueueKept, OpQueued, BarrierQueued, BarrierDropped
      <4> QED BY <1>1, <4>1, AppendFacts
    <3>2. j = 1 /\ Counted(c, b)'
      BY <1>2, <2>2, <3>1
    <3>3. cur'[n] = c /\ cpc'[n] = "flag" /\ ~ (cur[n] = c /\ cpc[n] = "flag")
      BY <2>2, <2>3, <3>2 DEF Counted
    <3>4. ASSUME NEW d \in Clients, CommitRecv(n, d) PROVE FALSE
      BY <1>1, <3>3, <3>4 DEF CommitRecv, TypeOK
    <3>5. CommitStep(n)
      BY <1>1, <3>3, <3>4, ThreadStep
    <3>6. CommitCount(n) /\ cur[n] = c
      BY <1>1, <3>3, <3>5 DEF CommitStep, CommitSpin, CommitApply, CommitGetCas, CommitCas,
                              CommitCount, CommitFlag, TypeOK
    <3>7. Msg(n) = q[1]
      BY <1>1, <3>6, HeadOfQueue DEF CommitCount
    <3>8. MsgIndex(n) = b
      BY <1>1, <2>2, <3>2, <3>7 DEF MsgIndex
    <3> QED BY <3>6, <3>8
  <2> QED BY <2>4, <2>5
<1> QED BY <1>3, <1>4

\* The client a commit thread counts had not passed, and now it has.
LEMMA CountPasses ==
    ASSUME TypeOK, QueueInv, CommitInv, NEW n \in Nodes, CommitCount(n),
           NEW c, c = cur[n], NEW b, b = MsgIndex(n)
    PROVE  ~ Passed(c, b) /\ Passed(c, b)'
<1> DEFINE q == mq[c]
           k == current_barrier_id[c]
<1>1. cpc[n] = "count"
  BY DEF CommitCount
<1>2. /\ c \in Clients /\ NodeOf[c] = n /\ q \in Seq(Message) /\ q # <<>>
      /\ 1 \in DOMAIN q /\ Msg(n) = q[1]
  BY <1>1, HeadOfQueue
<1>3. b \in Int /\ q[1].type = "BARRIER" /\ q[1].id = b + 1
  BY <1>1, <1>2, AnnouncedIndex DEF Index
<1>4. k \in Int /\ k > b
  <2>1. k \in 0 .. Rounds /\ Rounds \in Nat
    BY <1>2, ConstantsAssumption DEF TypeOK
  <2>2. q[1].id <= k
    BY <1>2 DEF QueueInv, Ordered
  <2> QED BY <1>3, <2>1, <2>2
<1>5. ~ Passed(c, b)
  <2>1. ~ Beyond(q[1], b)
    BY <1>3 DEF Beyond
  <2>2. ~ Counted(c, b)
    BY <1>1, <1>2 DEF Counted
  <2> QED BY <1>2, <2>1, <2>2 DEF Passed
<1>6. \A j \in DOMAIN q : j # 1 => Beyond(q[j], b)
  <2> SUFFICES ASSUME NEW j \in DOMAIN q, j # 1 PROVE Beyond(q[j], b)
    OBVIOUS
  <2>1. 1 < j /\ q[j].id \in Int /\ q[j].type \in {"OP", "BARRIER"}
    BY <1>2, MessageFields
  <2>2. q[1].id <= q[j].id /\ (q[j].type = "BARRIER" => q[1].id < q[j].id)
    BY <1>2, <2>1 DEF QueueInv, Ordered
  <2> QED BY <1>3, <2>1, <2>2 DEF Beyond
<1>7. current_barrier_id'[c] = k
  BY DEF CommitCount, clientVars
<1>8. CASE mq' = mq /\ cur' = cur /\ cpc' = [cpc EXCEPT ![n] = "flag"]
  <2>1. cpc'[n] = "flag"
    BY <1>8 DEF TypeOK
  <2>2. \A i \in DOMAIN mq'[c] :
           \/ Beyond(mq'[c][i], b)
           \/ i = 1 /\ cur'[NodeOf[c]] = c /\ cpc'[NodeOf[c]] = "flag" /\ mq'[c][1].id = b + 1
    BY <1>2, <1>3, <1>6, <1>8, <2>1
  <2> QED BY <1>4, <1>5, <1>7, <2>2 DEF Passed, Beyond, Counted
<1>9. CASE mq' = [mq EXCEPT ![c] = Tail(@)]
  <2>1. mq'[c] = Tail(q)
    BY <1>2, <1>9 DEF TypeOK
  <2>2. \A i \in DOMAIN Tail(q) : i \in Nat /\ i >= 1 /\ i + 1 \in DOMAIN q /\ Tail(q)[i] = q[i + 1]
    BY <1>2, TailFacts
  <2>3. \A i \in DOMAIN mq'[c] : Beyond(mq'[c][i], b)
    <3> TAKE i \in DOMAIN mq'[c]
    <3>1. i + 1 # 1 /\ i + 1 \in DOMAIN q /\ mq'[c][i] = q[i + 1]
      BY <2>1, <2>2
    <3> QED BY <1>6, <3>1
  <2> QED BY <1>4, <1>5, <1>7, <2>3 DEF Passed, Beyond
<1> QED BY <1>8, <1>9 DEF CommitCount

-----------------------------------------------------------------------------
(* Counts, flags and polls.                                                *)

\* The clients of a node can be counted.
LEMMA ClientsFinite ==
    ASSUME NEW n \in Nodes
    PROVE  IsFiniteSet(ClientsOn(n)) /\ \A c \in Clients : NodeOf[c] = n <=> c \in ClientsOn(n)
<1>1. IsFiniteSet(Clients) /\ ClientsOn(n) \subseteq Clients
  BY ConstantsAssumption DEF ClientsOn
<1> QED BY <1>1, FS_Subset DEF ClientsOn

\* Which actions write barrier_info, barrier[] and the flags.
LEMMA InfoStep ==
    ASSUME TypeOK, [Next]_vars
    PROVE  UNCHANGED barrier_info \/ \E m \in Nodes : CommitCount(m)
<1>1. ASSUME NEW c \in Clients, Client(c) PROVE UNCHANGED barrier_info
  BY <1>1 DEF Client, SendOp, pacon_barrier, add_to_local_rpc, nodeVars
<1>2. ASSUME NEW n \in Nodes, NEW c \in Clients, CommitRecv(n, c) \/ RpcRecv(n, c)
      PROVE  UNCHANGED barrier_info
  BY <1>2 DEF CommitRecv, RpcRecv, nodeVars
<1>3. ASSUME NEW n \in Nodes, CommitStep(n), ~ CommitCount(n) PROVE UNCHANGED barrier_info
  BY <1>3 DEF CommitStep, CommitSpin, CommitApply, CommitGetCas, CommitCas, CommitFlag, nodeVars
<1>4. ASSUME NEW n \in Nodes, RpcStep(n) PROVE UNCHANGED barrier_info
  BY <1>4 DEF RpcStep, RpcLocal, RpcExec, RpcGetCas, RpcCas, RpcLift, RpcUnflag, RpcIncr,
              RpcReply, RpcPoll, RpcBcast, nodeVars
<1>5. ASSUME NEW n \in Nodes, ClusterStep(n) PROVE UNCHANGED barrier_info
  BY <1>5 DEF ClusterStep, ClusterIncr, ClusterClear
<1>6. CASE UNCHANGED vars
  BY <1>6 DEF vars, nodeVars
<1> QED BY <1>1, <1>2, <1>3, <1>4, <1>5, <1>6 DEF Next

\* Where the flags and the stop of a node come from.
LEMMA StopStep ==
    ASSUME TypeOK, QueueInv, CommitInv, CallInv, [Next]_vars, NEW n \in Nodes, NEW b \in Index
    PROVE  /\ barrier'[n][b] = 1 => \/ barrier[n][b] = 1
                                    \/ CommitCount(n) /\ cpc'[n] = "flag" /\ b = MsgIndex(n)
           /\ flag'[n][b] = 1 => \/ flag[n][b] = 1
                                 \/ CommitFlag(n) /\ b = MsgIndex(n)
<1>1. CASE UNCHANGED <<barrier, flag>>
  BY <1>1
<1>2. ASSUME NEW c \in Clients, Client(c) PROVE UNCHANGED <<barrier, flag>>
  BY <1>2 DEF Client, SendOp, pacon_barrier, add_to_local_rpc, nodeVars, kvVars
<1>3. ASSUME NEW m \in Nodes, NEW c \in Clients, CommitRecv(m, c) \/ RpcRecv(m, c)
      PROVE  UNCHANGED <<barrier, flag>>
  BY <1>3 DEF CommitRecv, RpcRecv, nodeVars, kvVars
<1>4. ASSUME NEW m \in Nodes, CommitStep(m), ~ CommitCount(m), ~ CommitFlag(m)
      PROVE  UNCHANGED <<barrier, flag>>
  BY <1>4 DEF CommitStep, CommitSpin, CommitApply, CommitGetCas, CommitCas, nodeVars, kvVars
<1>5. ASSUME NEW m \in Nodes, CommitCount(m)
      PROVE  /\ flag' = flag
             /\ barrier'[n][b] = barrier[n][b] \/ (m = n /\ b = MsgIndex(n) /\ cpc'[n] = "flag")
  <2>1. flag' = flag /\ (barrier' = barrier \/ (/\ barrier' = [barrier EXCEPT ![m][MsgIndex(m)] = 1]
                                                /\ cpc' = [cpc EXCEPT ![m] = "flag"]))
    BY <1>5 DEF CommitCount, kvVars
  <2>2. barrier \in [Nodes -> [Index -> {0, 1}]]
    BY DEF TypeOK
  <2>3. cpc' = [cpc EXCEPT ![m] = "flag"] => cpc'[m] = "flag"
    BY DEF TypeOK
  <2> QED BY <2>1, <2>2, <2>3
<1>6. ASSUME NEW m \in Nodes, CommitFlag(m)
      PROVE  /\ barrier' = barrier
             /\ flag'[n][b] = flag[n][b] \/ (m = n /\ b = MsgIndex(n))
  <2>1. barrier' = barrier /\ flag' = [flag EXCEPT ![m][MsgIndex(m)] = 1]
    BY <1>6 DEF CommitFlag, nodeVars
  <2> QED BY <2>1 DEF TypeOK
<1>7. ASSUME NEW m \in Nodes, RpcStep(m)
      PROVE  /\ barrier'[n][b] = 1 => barrier[n][b] = 1
             /\ flag'[n][b] = 1 => flag[n][b] = 1
  <2>1. CASE RpcLift(m)
    <3>1. barrier' = [barrier EXCEPT ![m][RpcIndex(m)] = 0] /\ flag' = flag
      BY <2>1 DEF RpcLift, kvVars
    <3> QED BY <3>1 DEF TypeOK
  <2>2. CASE RpcUnflag(m)
    <3>1. flag' = [flag EXCEPT ![m][RpcIndex(m)] = 0] /\ barrier' = barrier
      BY <2>2 DEF RpcUnflag, nodeVars
    <3> QED BY <3>1 DEF TypeOK
  <2>3. CASE ~ RpcLift(m) /\ ~ RpcUnflag(m)
    <3>1. UNCHANGED <<barrier, flag>>
      BY <1>7, <2>3 DEF RpcStep, RpcLocal, RpcExec, RpcGetCas, RpcCas, RpcIncr, RpcReply, RpcPoll,
                        RpcBcast, nodeVars, kvVars
    <3> QED BY <3>1
  <2> QED BY <2>1, <2>2, <2>3
<1>8. ASSUME NEW m \in Nodes, ClusterStep(m)
      PROVE  /\ barrier'[n][b] = 1 => barrier[n][b] = 1
             /\ flag'[n][b] = 1 => flag[n][b] = 1
  <2>1. CASE ClusterIncr(m)
    BY <2>1 DEF ClusterIncr, kvVars
  <2>2. ASSUME NEW o \in Nodes, ClusterClear(m, o)
        PROVE  /\ barrier'[n][b] = 1 => barrier[n][b] = 1
               /\ flag'[n][b] = 1 => flag[n][b] = 1
    <3>1. barrier' = [barrier EXCEPT ![m][waiting_barrier_id[m]] = 0] /\ flag' = flag
      BY <2>2 DEF ClusterClear, kvVars
    <3> QED BY <3>1 DEF TypeOK
  <2> QED BY <1>8, <2>1, <2>2 DEF ClusterStep
<1>9. CASE UNCHANGED vars
  BY <1>1, <1>9 DEF vars, nodeVars, kvVars
<1> QED BY <1>1, <1>2, <1>3, <1>4, <1>5, <1>6, <1>7, <1>8, <1>9 DEF Next

\* barrier_info goes on counting the clients that have passed.
LEMMA CountPreserved ==
    ASSUME TypeOK, QueueInv, CommitInv, CountInv, [Next]_vars
    PROVE  CountInv'
<1> SUFFICES ASSUME NEW n \in Nodes, NEW b \in Index, b < BarrierIdMax - 1
             PROVE  barrier_info'[n][b] = Cardinality({c \in ClientsOn(n) : Passed(c, b)'})
  BY DEF CountInv, ClientsOn
<1> DEFINE P == {c \in ClientsOn(n) : Passed(c, b)}
           R == {c \in ClientsOn(n) : Passed(c, b)'}
<1>1. b \in Int /\ ClientsOn(n) \subseteq Clients
  BY ConstantsAssumption DEF Index, ClientsOn
<1>2. barrier_info[n][b] = Cardinality(P)
  BY DEF CountInv
<1>3. P \subseteq R
  BY <1>1, PassedStable
<1>4. \A c \in R \ P : CommitCount(n) /\ cur[n] = c /\ MsgIndex(n) = b
  BY <1>1, PassedOnlyByCount DEF ClientsOn
<1>5. IsFiniteSet(P)
  BY ClientsFinite, FS_Subset
<1>6. CASE CommitCount(n) /\ MsgIndex(n) = b
  <2>1. cur[n] \in ClientsOn(n)
    BY <1>6, HeadOfQueue DEF CommitCount, ClientsOn
  <2>2. cur[n] \notin P /\ cur[n] \in R
    BY <1>6, <2>1, CountPasses
  <2>3. R = P \cup {cur[n]}
    BY <1>3, <1>4, <2>2
  <2>4. Cardinality(R) = Cardinality(P) + 1
    BY <1>5, <2>2, <2>3, FS_AddElement
  <2>5. barrier_info'[n][b] = barrier_info[n][b] + 1
    BY <1>6 DEF CommitCount, TypeOK
  <2> QED BY <1>2, <2>4, <2>5
<1>7. CASE ~ (CommitCount(n) /\ MsgIndex(n) = b)
  <2>1. R = P
    BY <1>3, <1>4, <1>7
  <2>2. barrier_info'[n][b] = barrier_info[n][b]
    <3>1. ASSUME NEW m \in Nodes, CommitCount(m) PROVE barrier_info'[n][b] = barrier_info[n][b]
      <4>1. barrier_info' = [barrier_info EXCEPT ![m][MsgIndex(m)] = barrier_info[m][MsgIndex(m)] + 1]
        BY <3>1 DEF CommitCount
      <4>2. m # n \/ MsgIndex(m) # b
        BY <1>7, <3>1
      <4> QED BY <4>1, <4>2 DEF TypeOK
    <3> QED BY <3>1, InfoStep
  <2> QED BY <1>2, <2>1, <2>2
<1> QED BY <1>6, <1>7

\* The last announcement a node counts finds every client of it past the
\* barrier.
LEMMA LastCount ==
    ASSUME TypeOK, QueueInv, CommitInv, CountInv', NEW n \in Nodes, CommitCount(n),
           cpc'[n] = "flag", NEW b, b = MsgIndex(n), NEW c \in ClientsOn(n)
    PROVE  Passed(c, b)'
<1>1. cpc[n] = "count"
  BY DEF CommitCount
<1>2. b \in Index /\ b < BarrierIdMax - 1
  BY <1>1, AnnouncedIndex
<1>3. barrier_info'[n][b] = Cardinality(ClientsOn(n))
  <2>1. barrier_info' = [barrier_info EXCEPT ![n][b] = barrier_info[n][b] + 1]
    BY DEF CommitCount
  <2>2. barrier_info'[n][b] = barrier_info[n][b] + 1
    BY <1>2, <2>1 DEF TypeOK
  <2>3. barrier_info[n][b] + 1 = Cardinality(ClientsOn(n))
    BY DEF CommitCount, TypeOK
  <2> QED BY <2>2, <2>3
<1> DEFINE R == {d \in ClientsOn(n) : Passed(d, b)'}
<1>4. barrier_info'[n][b] = Cardinality(R)
  BY <1>2 DEF CountInv, ClientsOn
<1>5. R = ClientsOn(n)
  BY <1>3, <1>4, ClientsFinite, FS_Subset
<1> QED BY <1>5

\* A node that stops has all its clients at the barrier.
LEMMA StopPreserved ==
    ASSUME TypeOK, QueueInv, CommitInv, CallInv, CountInv, StopInv, [Next]_vars
    PROVE  StopInv'
<1>1. CountInv'
  BY CountPreserved
<1>2. ASSUME NEW n \in Nodes, NEW b \in Index, barrier'[n][b] = 1 \/ flag'[n][b] = 1,
             NEW c \in ClientsOn(n)
      PROVE  Passed(c, b)'
  <2>1. b \in Int /\ c \in Clients
    BY ConstantsAssumption DEF Index, ClientsOn
  <2>2. CASE barrier[n][b] = 1 \/ flag[n][b] = 1
    BY <2>1, <2>2, PassedStable DEF StopInv
  <2>3. CASE CommitCount(n) /\ cpc'[n] = "flag" /\ b = MsgIndex(n)
    BY <1>1, <2>3, LastCount
  <2>4. CASE CommitFlag(n) /\ b = MsgIndex(n)
    <3>1. Passed(c, b)
      BY <2>4 DEF StopInv, CommitFlag
    <3> QED BY <2>1, <3>1, PassedStable
  <2> QED BY <1>2, <2>2, <2>3, <2>4, StopStep
<1>3. ASSUME NEW n \in Nodes, cpc'[n] = "flag", NEW c \in ClientsOn(n),
             NEW b, b = MsgIndex(n)'
      PROVE  Passed(c, b)'
  <2>1. CASE cur'[n] = cur[n] /\ cpc'[n] = cpc[n]
    <3>1. b = MsgIndex(n)
      BY <1>3, <2>1, HeadKept
    <3>2. b \in Int /\ c \in Clients
      BY <1>3, <2>1, <3>1, AnnouncedIndex, ConstantsAssumption DEF Index, ClientsOn
    <3>3. Passed(c, b)
      BY <1>3, <2>1, <3>1 DEF StopInv
    <3> QED BY <3>2, <3>3, PassedStable
  <2>2. ASSUME NEW d \in Clients, CommitRecv(n, d) PROVE FALSE
    BY <1>3, <2>2 DEF CommitRecv, TypeOK
  <2>3. CASE CommitStep(n)
    <3>1. CommitCount(n) /\ cur'[n] = cur[n] /\ cpc[n] # "recv"
      BY <1>3, <2>3 DEF CommitStep, CommitSpin, CommitApply, CommitGetCas, CommitCas, CommitCount,
                        CommitFlag, TypeOK
    <3>2. b = MsgIndex(n)
      BY <1>3, <3>1, HeadKept
    <3> QED BY <1>1, <1>3, <3>1, <3>2, LastCount
  <2> QED BY <2>1, <2>2, <2>3, ThreadStep
<1> QED BY <1>2, <1>3 DEF StopInv, ClientsOn

\* Which actions move a local RPC thread into or along its polling.
LEMMA PollStep ==
    ASSUME TypeOK, CallInv, [Next]_vars, NEW n \in Nodes, rpc'[n] = "poll"
    PROVE  \/ RpcLocal(n)
           \/ \E m \in Nodes : RpcPoll(n, m)
           \/ rpc[n] = "poll" /\ UNCHANGED <<rpc[n], poll[n], serving[n]>>
<1>1. CASE UNCHANGED <<rpc, poll, serving>>
  BY <1>1
<1>2. ASSUME NEW c \in Clients, Client(c) PROVE UNCHANGED <<rpc, poll, serving>>
  BY <1>2 DEF Client, SendOp, pacon_barrier, add_to_local_rpc, rpcVars
<1>3. ASSUME NEW m \in Nodes, CommitStep(m) PROVE UNCHANGED <<rpc, poll, serving>>
  BY <1>3 DEF CommitStep, CommitSpin, CommitApply, CommitGetCas, CommitCas, CommitCount,
              CommitFlag, rpcVars
<1>4. ASSUME NEW m \in Nodes, ClusterStep(m) PROVE UNCHANGED <<rpc, poll, serving>>
  BY <1>4 DEF ClusterStep, ClusterIncr, ClusterClear, rpcVars
<1>5. ASSUME NEW m \in Nodes, NEW c \in Clients, CommitRecv(m, c)
      PROVE  UNCHANGED <<rpc, poll, serving>>
  BY <1>5 DEF CommitRecv, rpcVars
<1>6. ASSUME NEW m \in Nodes, NEW c \in Clients, RpcRecv(m, c)
      PROVE  m # n /\ UNCHANGED <<rpc[n], poll[n], serving[n]>>
  BY <1>6 DEF RpcRecv, TypeOK
<1>7. ASSUME NEW m \in Nodes, RpcStep(m), m # n
      PROVE  UNCHANGED <<rpc[n], poll[n], serving[n]>>
  BY <1>7 DEF RpcStep, RpcLocal, RpcExec, RpcGetCas, RpcCas, RpcLift, RpcUnflag, RpcIncr,
              RpcReply, RpcPoll, RpcBcast, TypeOK
<1>8. ASSUME RpcStep(n), ~ RpcLocal(n), ~ \E m \in Nodes : RpcPoll(n, m) PROVE FALSE
  <2>1. CASE RpcExec(n) \/ RpcGetCas(n) \/ RpcLift(n) \/ RpcUnflag(n) \/ RpcIncr(n) \/ RpcReply(n)
    BY <2>1 DEF RpcExec, RpcGetCas, RpcLift, RpcUnflag, RpcIncr, RpcReply, TypeOK
  <2>2. CASE RpcCas(n)
    BY <2>2 DEF RpcCas, TypeOK
  <2>3. ASSUME NEW m \in Nodes, RpcBcast(n, m) PROVE FALSE
    BY <2>3 DEF RpcBcast
  <2> QED BY <1>8, <2>1, <2>2, <2>3 DEF RpcStep
<1>9. CASE UNCHANGED vars
  BY <1>1, <1>9 DEF vars, rpcVars
<1> QED BY <1>1, <1>2, <1>3, <1>4, <1>5, <1>6, <1>7, <1>8, <1>9 DEF Next

\* A client in a call announces no barrier: the index of its request stays.
LEMMA RequestKept ==
    ASSUME TypeOK, CallInv, [Next]_vars, NEW n \in Nodes, rpc[n] # "recv",
           serving'[n] = serving[n]
    PROVE  RpcIndex(n)' = RpcIndex(n)
<1>1. serving[n] \in calling /\ serving[n] \in Clients
  BY RequestedIndex
<1>2. current_barrier_id'[serving[n]] = current_barrier_id[serving[n]]
  <2>1. ASSUME NEW c \in Clients, pacon_barrier(c)
        PROVE  current_barrier_id'[serving[n]] = current_barrier_id[serving[n]]
    BY <1>1, <2>1 DEF pacon_barrier, AppMayBarrier, TypeOK
  <2>2. ASSUME NEW c \in Clients, SendOp(c) PROVE current_barrier_id' = current_barrier_id
    BY <2>2 DEF SendOp, clientVars
  <2>3. ASSUME NEW m \in Nodes, CommitStep(m) PROVE current_barrier_id' = current_barrier_id
    BY <2>3 DEF CommitStep, CommitSpin, CommitApply, CommitGetCas, CommitCas, CommitCount,
                CommitFlag, clientVars
  <2>4. ASSUME NEW m \in Nodes, NEW c \in Clients, CommitRecv(m, c)
        PROVE  current_barrier_id' = current_barrier_id
    BY <2>4 DEF CommitRecv, clientVars
  <2> QED BY <2>1, <2>2, <2>3, <2>4, QueueActions
<1> QED BY <1>2 DEF RpcIndex

\* The nodes that were found stopped have all their clients at the barrier.
LEMMA PollPreserved ==
    ASSUME TypeOK, QueueInv, CommitInv, CallInv, StopInv, PollInv, [Next]_vars
    PROVE  PollInv'
<1> SUFFICES ASSUME NEW n \in Nodes, rpc'[n] = "poll", NEW m \in Nodes \ poll'[n],
                    NEW c \in ClientsOn(m), NEW b, b = RpcIndex(n)'
             PROVE  Passed(c, b)'
  BY DEF PollInv, ClientsOn
<1>1. c \in Clients
  BY DEF ClientsOn
<1>2. CASE RpcLocal(n)
  <2>1. rpc[n] # "recv" /\ serving'[n] = serving[n] /\ poll'[n] = Nodes \ {n}
    BY <1>2 DEF RpcLocal, TypeOK
  <2>2. b = RpcIndex(n) /\ b \in Index
    BY <2>1, RequestKept, RequestedIndex
  <2>3. m = n /\ barrier[n][b] = 1
    BY <1>2, <2>1, <2>2 DEF RpcLocal, TypeOK
  <2>4. Passed(c, b) /\ b \in Int
    BY <2>2, <2>3, ConstantsAssumption DEF StopInv, Index
  <2> QED BY <1>1, <2>4, PassedStable
<1>3. ASSUME NEW o \in Nodes, RpcPoll(n, o) PROVE Passed(c, b)'
  <2>1. rpc[n] = "poll" /\ serving'[n] = serving[n] /\ poll'[n] = poll[n] \ {o}
    BY <1>3 DEF RpcPoll, TypeOK
  <2>2. b = RpcIndex(n) /\ b \in Index /\ b \in Int
    <3>1. b = RpcIndex(n)
      BY <2>1, RequestKept
    <3>2. RpcIndex(n) \in Index
      BY <2>1, RequestedIndex
    <3> QED BY <3>1, <3>2, ConstantsAssumption DEF Index
  <2>3. CASE m \notin poll[n]
    <3>1. Passed(c, b)
      BY <2>1, <2>2, <2>3 DEF PollInv
    <3> QED BY <1>1, <2>2, <3>1, PassedStable
  <2>4. CASE m \in poll[n]
    <3>1. m = o /\ flag[m][b] = 1
      BY <1>3, <2>1, <2>2, <2>4 DEF RpcPoll
    <3>2. Passed(c, b)
      BY <2>2, <3>1 DEF StopInv
    <3> QED BY <1>1, <2>2, <3>2, PassedStable
  <2> QED BY <2>3, <2>4
<1>4. CASE rpc[n] = "poll" /\ UNCHANGED <<rpc[n], poll[n], serving[n]>>
  <2>1. b = RpcIndex(n) /\ b \in Int
    BY <1>4, RequestKept, RequestedIndex, ConstantsAssumption DEF Index
  <2>2. Passed(c, b)
    BY <1>4, <2>1 DEF PollInv
  <2> QED BY <1>1, <2>1, <2>2, PassedStable
<1> QED BY <1>2, <1>3, <1>4, PollStep

-----------------------------------------------------------------------------
(* The theorems.                                                           *)

\* The invariant holds before anything happens.
LEMMA InitInductive ==
    ASSUME Init
    PROVE  IInv
<1>1. BarrierIdMax \in Nat \ {0} /\ Rounds \in Nat
  BY ConstantsAssumption
<1>2. TypeOK
  <2>1. 0 \in 0 .. Rounds /\ 0 \in 0 .. MaxOpt
    BY <1>1 DEF MaxOpt
  <2> QED BY <2>1 DEF Init, TypeOK
<1>3. QueueInv
  BY DEF Init, QueueInv, Ordered
<1>4. CommitInv
  BY DEF Init, CommitInv
<1>5. CallInv
  BY DEF Init, CallInv
<1>6. CountInv
  <2> SUFFICES ASSUME NEW n \in Nodes, NEW b \in Index
               PROVE  barrier_info[n][b] = Cardinality({c \in ClientsOn(n) : Passed(c, b)})
    BY DEF CountInv
  <2>1. b \in Nat
    BY <1>1 DEF Index
  <2>2. \A c \in ClientsOn(n) : ~ Passed(c, b)
    BY <2>1 DEF Init, Passed, ClientsOn
  <2>3. {c \in ClientsOn(n) : Passed(c, b)} = {}
    BY <2>2
  <2> QED BY <2>3, FS_EmptySet DEF Init
<1>7. StopInv
  BY DEF Init, StopInv
<1>8. PollInv
  BY DEF Init, PollInv
<1> QED BY <1>2, <1>3, <1>4, <1>5, <1>6, <1>7, <1>8 DEF IInv

\* The inductive invariant holds: queues are ordered, each node's count is
\* the number of its clients past the barrier, a node says it has stopped
\* only when all of them are.
THEOREM InductiveInvariant == Spec => []IInv
<1>1. Init => IInv
  BY InitInductive
<1>2. IInv /\ [Next]_vars => IInv'
  <2> SUFFICES ASSUME IInv, [Next]_vars PROVE IInv'
    OBVIOUS
  <2> USE DEF IInv
  <2>1. TypeOK'
    BY TypePreserved
  <2>2. QueueInv' /\ CommitInv'
    BY QueuePreserved, CommitPreserved
  <2>3. CallInv'
    BY CallPreserved
  <2>4. CountInv' /\ StopInv'
    BY CountPreserved, StopPreserved
  <2>5. PollInv'
    BY PollPreserved
  <2> QED BY <2>1, <2>2, <2>3, <2>4, <2>5
<1> QED BY <1>1, <1>2, PTL DEF Spec

\* Every variable keeps its type: in particular every barrier index used
\* lies within the barrier arrays, and no client's count of announced
\* operations falls below zero, although retries, polls and lifts interleave.
THEOREM TypeCorrect == Spec => []TypeOK
<1>1. IInv => TypeOK
  BY DEF IInv
<1> QED BY <1>1, InductiveInvariant, PTL

\* When the poll has ended with no node left, everything queued before is committed.
LEMMA InvImpliesSeesEarlier ==
    ASSUME IInv
    PROVE  BarrierOpSeesEarlierOps
<1> SUFFICES ASSUME NEW n \in Nodes, Executing(n), NEW c \in Clients
             PROVE  /\ current_barrier_id[c] >= current_barrier_id[serving[n]]
                    /\ \A i \in DOMAIN mq[c] :
                          mq[c][i].type = "OP" => mq[c][i].id >= current_barrier_id[serving[n]]
  BY DEF BarrierOpSeesEarlierOps
<1> USE DEF IInv
<1> DEFINE b == RpcIndex(n)
<1>1. rpc[n] = "poll" /\ poll[n] = {}
  BY DEF Executing
<1>2. b \in Int /\ current_barrier_id[serving[n]] = b + 1
  BY <1>1, RequestedIndex, ConstantsAssumption DEF Index
<1>3. NodeOf[c] \in Nodes /\ c \in ClientsOn(NodeOf[c])
  BY ConstantsAssumption DEF ClientsOn
<1>4. Passed(c, b)
  BY <1>1, <1>3 DEF PollInv
<1> HIDE DEF b
<1>5. current_barrier_id[c] >= b + 1
  <2>1. current_barrier_id[c] \in 0 .. Rounds /\ Rounds \in Nat
    BY ConstantsAssumption DEF TypeOK
  <2> QED BY <1>2, <1>4, <2>1 DEF Passed
<1>6. ASSUME NEW i \in DOMAIN mq[c], mq[c][i].type = "OP" PROVE mq[c][i].id >= b + 1
  <2>1. mq[c] \in Seq(Message)
    BY DEF TypeOK
  <2>2. mq[c][i].id \in Int
    BY <2>1, MessageFields
  <2>3. CASE Beyond(mq[c][i], b)
    BY <1>2, <1>6, <2>2, <2>3 DEF Beyond
  <2>4. CASE i = 1 /\ Counted(c, b)
    <3>1. cur[NodeOf[c]] = c /\ cpc[NodeOf[c]] = "flag"
      BY <2>4 DEF Counted
    <3>2. Msg(NodeOf[c]) = mq[c][1] /\ Msg(NodeOf[c]).type = "BARRIER"
      BY <1>3, <3>1, HeadOfQueue, AnnouncedIndex
    <3> QED BY <1>6, <2>4, <3>2
  <2> QED BY <1>4, <2>3, <2>4 DEF Passed
<1> QED BY <1>2, <1>5, <1>6

\* A barrier operation (commit_to_fs_barrier once broadcast_barrier_begin_new
\* returned) runs only when every client of the cluster has announced its
\* barrier and every operation queued before an announcement is committed;
\* it needs no synchronisation of the application between barriers.
THEOREM BarrierOrder == Spec => []BarrierOpSeesEarlierOps
<1>1. IInv => BarrierOpSeesEarlierOps
  BY InvImpliesSeesEarlier
<1> QED BY <1>1, InductiveInvariant, PTL
=============================================================================
