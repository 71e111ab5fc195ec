-------------------------- MODULE PaconStartProofs --------------------------
(***************************************************************************)
(* Proofs about PaconStart, for every number of nodes, clients and         *)
(* barriers, every configuration and every program of the applications.    *)
(***************************************************************************)
EXTENDS PaconStart, FiniteSetTheorems, TLAPS

\* The keys of the barrier counts are not those of init_pacon and
\* pacon_set_permission.
LEMMA KeysDiffer ==
    ASSUME NEW id \in Ids
    PROVE  /\ CountKey(id) \in Keys /\ Lock \in Keys
           /\ CountKey(id) # Lock /\ CountKey(id) # Record
           /\ CountKey(id) \notin Modes /\ Lock # Record /\ Lock \notin Modes
           /\ \A n \in Nodes : Lock # FlagKey(n, id)
  BY DEF CountKey, FlagKey, Lock, Record, Modes, Keys

-----------------------------------------------------------------------------
(* The counts of the barriers.                                             *)

\* Some server is still within start_pacon_server.
StartingUp == \E n \in Nodes : server[n] \notin {"run", "failed", "dead"}

Shapes ==
    /\ setup.ordered \in BOOLEAN
    /\ DOMAIN kv = Keys /\ DOMAIN counted = Ids /\ DOMAIN mq = Clients
    /\ DOMAIN pc = Clients /\ DOMAIN server = Nodes

\* In an ordered start nothing is published or counted until all servers are
\* up: the reset finds the counts at zero.
Untouched ==
    setup.ordered /\ StartingUp =>
        /\ \A c \in Clients : pc[c] = "kv" /\ mq[c] = <<>>
        /\ \A id \in Ids : counted[id] = 0

CountsInv == Shapes /\ Untouched /\ CountsKept

\* Nothing is counted at the start.
LEMMA CountsInit == ASSUME Init PROVE CountsInv
<1>1. PICK s \in Setups : setup = s
  BY DEF Init
<1>2. setup.ordered \in BOOLEAN
  BY <1>1, StartAssumption
<1> QED BY <1>2, KeysDiffer DEF Init, CountsInv, Shapes, Untouched, CountsKept

\* Steps that leave the counts, the servers and the queues alone, of a client
\* that has started.
LEMMA ClientStep ==
    ASSUME CountsInv, NEW c \in Clients, pc[c] # "kv",
           UNCHANGED <<setup, server, counted>>,
           DOMAIN kv' = Keys, DOMAIN mq' = Clients, DOMAIN pc' = Clients,
           \A id \in Ids : kv'[CountKey(id)] = kv[CountKey(id)]
    PROVE  CountsInv'
  BY DEF CountsInv, Shapes, Untouched, CountsKept, StartingUp

\* Every step keeps the counts.
LEMMA CountsStep ==
    ASSUME CountsInv, [Next]_vars
    PROVE  CountsInv'
<1> USE DEF clientVars, serverVars
<1>1. ASSUME NEW n \in Nodes, StartKv(n) \/ StartBind(n) \/ StartComm(n)
      PROVE  CountsInv'
  BY <1>1 DEF StartKv, StartBind, StartComm, Step, CountsInv, Shapes, Untouched, CountsKept, StartingUp
<1>2. ASSUME NEW n \in Nodes, StartCounts(n)
      PROVE  CountsInv'
  <2>1. StartingUp
    BY <1>2 DEF StartCounts, StartingUp
  <2>2. setup.ordered => \A id \in Ids : kv'[CountKey(id)] \in {Null, counted[id]}
    BY <1>2, <2>1, KeysDiffer DEF StartCounts, dmkv_set, CountsInv, Shapes, Untouched, CountsKept
  <2> QED BY <1>2, <2>1, <2>2 DEF StartCounts, Step, dmkv_set, CountsInv, Shapes, Untouched, CountsKept, StartingUp
<1>3. ASSUME NEW n \in Nodes, StartFlags(n)
      PROVE  CountsInv'
  <2>1. StartingUp
    BY <1>3 DEF StartFlags, StartingUp
  <2>2. setup.ordered => \A id \in Ids : kv'[CountKey(id)] \in {Null, counted[id]}
    BY <1>3, <2>1, KeysDiffer DEF StartFlags, CountsInv, Shapes, Untouched, CountsKept
  <2>3. DOMAIN kv' = Keys
    BY <1>3 DEF StartFlags
  <2> QED BY <1>3, <2>1, <2>2, <2>3 DEF StartFlags, Step, CountsInv, Shapes, Untouched, CountsKept, StartingUp
<1>4. ASSUME NEW n \in Nodes, GetMode(n) \/ GetSpPath(n) \/ RpcStart(n) \/ Broadcast(n)
      PROVE  CountsInv'
  <2>1. /\ UNCHANGED <<setup, kv, counted, pc, mq>>
        /\ server[n] = "run" /\ (UNCHANGED server \/ server' = [server EXCEPT ![n] = "dead"])
    BY <1>4 DEF GetMode, GetSpPath, RpcStart, Broadcast, Serve, Running, Step
  <2> QED BY <2>1 DEF CountsInv, Shapes, Untouched, CountsKept, StartingUp
<1>5. ASSUME NEW n \in Nodes, Commit(n)
      PROVE  CountsInv'
  <2>1. PICK c \in Clients :
          /\ Waiting(n, c)
          /\ mq' = [mq EXCEPT ![c] = Tail(@)]
          /\ LET m == Head(mq[c]) IN
             IF m.op = "commit"
               THEN UNCHANGED <<kv, counted>>
               ELSE /\ kv[CountKey(m.id)] # Null
                    /\ kv' = [kv EXCEPT ![CountKey(m.id)] = kv[CountKey(m.id)] + m.opt]
                    /\ counted' = [counted EXCEPT ![m.id] = @ + m.opt]
    BY <1>5 DEF Commit, dmkv_set, dmkv_get
  <2>2. UNCHANGED <<setup, server, pc>> /\ DOMAIN mq' = Clients /\ DOMAIN kv' = Keys /\ DOMAIN counted' = Ids
    BY <1>5, <2>1 DEF Commit, CountsInv, Shapes
  <2>3. setup.ordered => ~ StartingUp
    BY <2>1 DEF CountsInv, Untouched, Waiting
  <2>4. setup.ordered => \A id \in Ids : kv'[CountKey(id)] \in {Null, counted'[id]}
    <3>1. SUFFICES ASSUME setup.ordered, NEW id \in Ids
                   PROVE  kv'[CountKey(id)] \in {Null, counted'[id]}
      OBVIOUS
    <3> DEFINE m == Head(mq[c])
    <3>2. kv[CountKey(id)] \in {Null, counted[id]}
      BY <3>1 DEF CountsInv, CountsKept
    <3>3. CASE m.op = "commit"
      BY <3>2, <3>3, <2>1
    <3>4. CASE m.op # "commit" /\ m.id = id
      <4>1. kv'[CountKey(id)] = kv[CountKey(id)] + m.opt
        BY <2>1, <3>4, KeysDiffer DEF CountsInv, Shapes
      <4>2. counted'[id] = counted[id] + m.opt
        BY <2>1, <3>4 DEF CountsInv, Shapes
      <4>3. kv[CountKey(id)] = counted[id]
        BY <2>1, <3>2, <3>4
      <4> QED BY <4>1, <4>2, <4>3
    <3>5. CASE m.op # "commit" /\ m.id # id
      <4>1. CountKey(m.id) # CountKey(id)
        BY <3>5 DEF CountKey
      <4> QED BY <2>1, <3>2, <3>5, <4>1, KeysDiffer DEF CountsInv, Shapes
    <3> QED BY <3>3, <3>4, <3>5
  <2> QED BY <2>2, <2>3, <2>4 DEF CountsInv, Shapes, Untouched, CountsKept, StartingUp
<1>6. ASSUME NEW c \in Clients, InitKv(c)
      PROVE  CountsInv'
  <2>1. setup.ordered => ~ StartingUp
    BY <1>6 DEF InitKv, Running, StartingUp
  <2>2. UNCHANGED <<setup, server, kv, counted, mq>> /\ DOMAIN pc' = Clients
    BY <1>6 DEF InitKv, Goto, Fail, CountsInv, Shapes
  <2> QED BY <2>1, <2>2 DEF CountsInv, Shapes, Untouched, CountsKept, StartingUp
<1>7. ASSUME NEW c \in Clients, InitRoot(c) \/ InitLock(c) \/ InitRecord(c)
      PROVE  CountsInv'
  <2>1. /\ pc[c] # "kv" /\ UNCHANGED <<setup, server, counted, mq>>
        /\ DOMAIN kv' = Keys /\ DOMAIN pc' = Clients
        /\ \A id \in Ids : kv'[CountKey(id)] = kv[CountKey(id)]
    BY <1>7, KeysDiffer DEF InitRoot, InitLock, InitRecord, Goto, Fail, dmkv_add, CountsInv, Shapes
  <2> QED BY <2>1, ClientStep DEF CountsInv, Shapes
<1>8. ASSUME NEW c \in Clients, SetPermission(c) \/ AddModes(c)
      PROVE  CountsInv'
  <2>1. /\ pc[c] # "kv" /\ UNCHANGED <<setup, server, counted, mq>>
        /\ DOMAIN kv' = Keys /\ DOMAIN pc' = Clients
        /\ \A id \in Ids : kv'[CountKey(id)] = kv[CountKey(id)]
    <3>1. CASE SetPermission(c)
      BY <3>1 DEF SetPermission, Calls, Goto, Fail, CountsInv, Shapes
    <3>2. CASE AddModes(c)
      <4>1. pc[c] # "kv"
        BY <3>2 DEF AddModes, Modes
      <4> QED BY <4>1, <3>2, KeysDiffer DEF AddModes, Goto, Return, dmkv_add, CountsInv, Shapes
    <3> QED BY <1>8, <3>1, <3>2
  <2> QED BY <2>1, ClientStep DEF CountsInv, Shapes
<1>9. ASSUME NEW c \in Clients, Operate(c) \/ Announce(c) \/ Request(c) \/ Reply(c)
      PROVE  CountsInv'
  <2>1. /\ pc[c] # "kv" /\ UNCHANGED <<setup, server, counted, kv>>
        /\ DOMAIN mq' = Clients /\ DOMAIN pc' = Clients
    BY <1>9 DEF Operate, Announce, Request, Reply, Publish, Calls, Goto, Return, CountsInv, Shapes
  <2> QED BY <2>1, ClientStep DEF CountsInv, Shapes
<1>10. ASSUME NEW c \in Clients, Acquire(c) \/ Release(c)
       PROVE  CountsInv'
  <2>1. /\ pc[c] # "kv" /\ UNCHANGED <<setup, server, counted, mq>>
        /\ DOMAIN kv' = Keys /\ DOMAIN pc' = Clients
        /\ \A id \in Ids : kv'[CountKey(id)] = kv[CountKey(id)]
    BY <1>10, KeysDiffer DEF Acquire, Release, Calls, Return, dmkv_set, CountsInv, Shapes
  <2> QED BY <2>1, ClientStep DEF CountsInv, Shapes
<1>11. ASSUME NEW c \in Clients, JointRegion(c) \/ SplitRegion(c) \/ Lookup(c) \/ Free(c)
       PROVE  CountsInv'
  <2>1. /\ pc[c] # "kv" /\ UNCHANGED <<setup, server, counted, kv, mq>>
        /\ DOMAIN pc' = Clients
    BY <1>11 DEF JointRegion, SplitRegion, Lookup, Free, Calls, Goto, Return, Fail, CountsInv, Shapes
  <2> QED BY <2>1, ClientStep DEF CountsInv, Shapes
<1>12. ASSUME NEW c \in Clients, Join(c)
       PROVE  CountsInv'
  BY <1>12 DEF Join, CountsInv, Shapes, Untouched, CountsKept, StartingUp
<1>13. ASSUME UNCHANGED vars
       PROVE  CountsInv'
  BY <1>13 DEF vars, CountsInv, Shapes, Untouched, CountsKept, StartingUp
<1> QED
  BY <1>1, <1>2, <1>3, <1>4, <1>5, <1>6, <1>7, <1>8, <1>9, <1>10, <1>11, <1>12, <1>13
  DEF Next, Server, Client

\* When every server is up before the first client starts, the reset of the
\* counts in start_pacon_server never wipes out an operation that was counted.
THEOREM CountsSafe == Spec => []CountsKept
<1>1. Init => CountsInv
  BY CountsInit
<1>2. CountsInv /\ [Next]_vars => CountsInv'
  BY CountsStep
<1>3. CountsInv => CountsKept
  BY DEF CountsInv
<1> QED BY <1>1, <1>2, <1>3, PTL DEF Spec

-----------------------------------------------------------------------------
(* The evict lock.                                                         *)

Other(first) == IF first = "lock" THEN "unlock" ELSE "lock"

\* Taking turns goes on behind a call that neither locks nor unlocks.
LEMMA TurnsKept ==
    ASSUME NEW s \in Seq(AllCalls), s # <<>>, NEW first, TakeTurns(s, first),
           Head(s).op \notin {"lock", "unlock"}
    PROVE  TakeTurns(Tail(s), first)
<1> DEFINE t == Tail(s)
<1>1. /\ t \in Seq(AllCalls) /\ Len(t) = Len(s) - 1
      /\ \A i \in DOMAIN t : i \in Nat /\ i >= 1 /\ i + 1 \in DOMAIN s /\ t[i] = s[i + 1]
      /\ \A i \in DOMAIN s : i \in Nat /\ i >= 1 /\ (i # 1 => i - 1 \in DOMAIN t /\ i - 1 >= 1)
  OBVIOUS
<1>2. 1 \notin LockCalls(s)
  BY DEF LockCalls
<1>3. \A i \in LockCalls(t) : i \in Nat /\ i + 1 \in LockCalls(s) /\ t[i] = s[i + 1]
  BY <1>1 DEF LockCalls
<1>4. \A i \in LockCalls(s) : i \in Nat /\ i >= 2 /\ i - 1 \in LockCalls(t)
  <2>1. SUFFICES ASSUME NEW i \in LockCalls(s)
                 PROVE  i \in Nat /\ i >= 2 /\ i - 1 \in LockCalls(t)
    OBVIOUS
  <2>2. i \in Nat /\ i >= 2 /\ i - 1 \in DOMAIN t
    BY <1>1, <1>2 DEF LockCalls
  <2>3. t[i - 1] = s[i]
    BY <1>1, <2>2
  <2> QED BY <2>2, <2>3 DEF LockCalls
<1> HIDE DEF t
<1>5. ASSUME NEW i \in LockCalls(t)
      PROVE  t[i].op = first \/ \E j \in LockCalls(t) : j < i
  <2>1. s[i + 1].op = first \/ \E j \in LockCalls(s) : j < i + 1
    BY <1>3 DEF TakeTurns
  <2>2. ASSUME NEW j \in LockCalls(s), j < i + 1
        PROVE  j - 1 \in LockCalls(t) /\ j - 1 < i
    BY <1>3, <1>4, <2>2
  <2> QED BY <1>3, <2>1, <2>2
<1>6. ASSUME NEW i \in LockCalls(t), NEW j \in LockCalls(t), i < j
      PROVE  t[i].op # t[j].op \/ \E k \in LockCalls(t) : i < k /\ k < j
  <2>1. /\ i \in Nat /\ j \in Nat /\ t[i] = s[i + 1] /\ t[j] = s[j + 1]
        /\ i + 1 \in LockCalls(s) /\ j + 1 \in LockCalls(s) /\ i + 1 < j + 1
    BY <1>3, <1>6
  <2>2. s[i + 1].op # s[j + 1].op \/ \E k \in LockCalls(s) : i + 1 < k /\ k < j + 1
    BY <2>1 DEF TakeTurns
  <2>3. ASSUME NEW k \in LockCalls(s), i + 1 < k, k < j + 1
        PROVE  k - 1 \in LockCalls(t) /\ i < k - 1 /\ k - 1 < j
    BY <1>4, <2>1, <2>3
  <2> QED BY <2>1, <2>2, <2>3
<1> QED BY <1>5, <1>6 DEF TakeTurns, t

\* A call that locks or unlocks is the one whose turn it is.
LEMMA TurnTaken ==
    ASSUME NEW s \in Seq(AllCalls), s # <<>>, NEW first \in {"lock", "unlock"},
           TakeTurns(s, first), Head(s).op \in {"lock", "unlock"}
    PROVE  Head(s).op = first /\ TakeTurns(Tail(s), Other(first))
<1> DEFINE t == Tail(s)
<1>1. /\ t \in Seq(AllCalls) /\ Len(t) = Len(s) - 1
      /\ \A i \in DOMAIN t : i \in Nat /\ i >= 1 /\ i + 1 \in DOMAIN s /\ t[i] = s[i + 1]
      /\ \A i \in DOMAIN s : i \in Nat /\ i >= 1 /\ (i # 1 => i - 1 \in DOMAIN t /\ i - 1 >= 1)
      /\ 1 \in DOMAIN s /\ s[1] = Head(s)
  OBVIOUS
<1>2. 1 \in LockCalls(s)
  BY <1>1 DEF LockCalls
<1>3. \A i \in LockCalls(t) : i \in Nat /\ i >= 1 /\ i + 1 \in LockCalls(s) /\ t[i] = s[i + 1]
  BY <1>1 DEF LockCalls
<1>4. \A i \in LockCalls(s) : i \in Nat /\ i >= 1 /\ (i # 1 => i - 1 \in LockCalls(t))
  <2>1. SUFFICES ASSUME NEW i \in LockCalls(s)
                 PROVE  i \in Nat /\ i >= 1 /\ (i # 1 => i - 1 \in LockCalls(t))
    OBVIOUS
  <2>2. i \in Nat /\ i >= 1 /\ (i # 1 => i - 1 \in DOMAIN t)
    BY <1>1 DEF LockCalls
  <2>3. i # 1 => t[i - 1] = s[i]
    BY <1>1, <2>2
  <2> QED BY <2>2, <2>3 DEF LockCalls
<1>5. Head(s).op = first
  <2>1. ~ \E j \in LockCalls(s) : j < 1
    BY <1>4
  <2> QED BY <1>1, <1>2, <2>1 DEF TakeTurns
<1> HIDE DEF t
<1>6. ASSUME NEW i \in LockCalls(t)
      PROVE  t[i].op = Other(first) \/ \E j \in LockCalls(t) : j < i
  <2>1. s[1].op # s[i + 1].op \/ \E k \in LockCalls(s) : 1 < k /\ k < i + 1
    BY <1>2, <1>3 DEF TakeTurns
  <2>2. CASE s[1].op # s[i + 1].op
    <3>1. t[i].op \in {"lock", "unlock"}
      BY DEF LockCalls
    <3> QED BY <1>1, <1>3, <1>5, <2>2, <3>1 DEF Other
  <2>3. CASE \E k \in LockCalls(s) : 1 < k /\ k < i + 1
    BY <1>3, <1>4, <2>3
  <2> QED BY <2>1, <2>2, <2>3
<1>7. ASSUME NEW i \in LockCalls(t), NEW j \in LockCalls(t), i < j
      PROVE  t[i].op # t[j].op \/ \E k \in LockCalls(t) : i < k /\ k < j
  <2>1. /\ i \in Nat /\ i >= 1 /\ j \in Nat /\ t[i] = s[i + 1] /\ t[j] = s[j + 1]
        /\ i + 1 \in LockCalls(s) /\ j + 1 \in LockCalls(s) /\ i + 1 < j + 1
    BY <1>3, <1>7
  <2>2. s[i + 1].op # s[j + 1].op \/ \E k \in LockCalls(s) : i + 1 < k /\ k < j + 1
    BY <2>1 DEF TakeTurns
  <2>3. ASSUME NEW k \in LockCalls(s), i + 1 < k, k < j + 1
        PROVE  k - 1 \in LockCalls(t) /\ i < k - 1 /\ k - 1 < j
    BY <1>4, <2>1, <2>3
  <2> QED BY <2>1, <2>2, <2>3
<1> QED BY <1>5, <1>6, <1>7 DEF TakeTurns, t

\* One client at most holds the lock, which is then 1, and a client has an
\* unlock before it exactly when it holds the lock.
Turn(c) == IF c \in holder THEN "unlock" ELSE "lock"
LockInv ==
    /\ DOMAIN kv = Keys /\ DOMAIN todo = Clients /\ holder \in SUBSET Clients
    /\ holder # {} => kv[Lock] = 1
    /\ \A c, d \in holder : c = d
    /\ \A c \in Clients : todo[c] \in Seq(AllCalls) /\ TakeTurns(todo[c], Turn(c))

\* A program that has been given up is in order.
LEMMA NoTurns == ASSUME NEW first PROVE TakeTurns(<<>>, first)
  BY DEF TakeTurns, LockCalls

\* A call that neither locks nor unlocks returns or fails.
LEMMA CallKeeps ==
    ASSUME LockInv, NEW c \in Clients, UNCHANGED holder,
           UNCHANGED todo \/ todo' = [todo EXCEPT ![c] = <<>>]
           \/ /\ todo' = [todo EXCEPT ![c] = Tail(@)]
              /\ todo[c] # <<>> /\ Head(todo[c]).op \notin {"lock", "unlock"},
           DOMAIN kv' = Keys, holder # {} => kv'[Lock] = kv[Lock]
    PROVE  LockInv'
<1>1. \A d \in Clients : todo[d] \in Seq(AllCalls) /\ TakeTurns(todo[d], Turn(d))
  BY DEF LockInv
<1>2. ASSUME todo[c] # <<>>, Head(todo[c]).op \notin {"lock", "unlock"}
      PROVE  Tail(todo[c]) \in Seq(AllCalls) /\ TakeTurns(Tail(todo[c]), Turn(c))
  <2>1. TakeTurns(Tail(todo[c]), Turn(c))
    BY <1>1, <1>2, TurnsKept
  <2> QED BY <1>1, <1>2, <2>1
<1>3. TakeTurns(<<>>, Turn(c)) /\ <<>> \in Seq(AllCalls)
  BY NoTurns
<1>4. \A d \in Clients : todo'[d] \in Seq(AllCalls) /\ TakeTurns(todo'[d], Turn(d))
  BY <1>1, <1>2, <1>3 DEF LockInv
<1> QED BY <1>4 DEF LockInv, Turn

\* The client is in the middle of pacon_set_permission or add_to_local_rpc,
\* and the first of its calls is that one.
Within ==
    /\ DOMAIN pc = Clients /\ DOMAIN todo = Clients
    /\ \A c \in Clients :
         /\ <<pc[c]>> \in Modes => todo[c] # <<>> /\ Call(c).op = "perm"
         /\ pc[c] = "rpc" => todo[c] # <<>> /\ Call(c).op = "rpc"

\* Calls of several steps return at the last.
LEMMA WithinStep ==
    ASSUME Within, [Next]_vars
    PROVE  Within'
<1> USE DEF clientVars, serverVars, Within, Call, Modes
<1>1. ASSUME NEW n \in Nodes, Server(n)
      PROVE  Within'
  BY <1>1 DEF Server, StartKv, StartBind, StartComm, StartCounts, StartFlags, GetMode, GetSpPath,
              Commit, RpcStart, Broadcast
<1>2. ASSUME NEW c \in Clients, NEW step, step \notin {"nom_dir_mode", "nom_f_mode", "sp_path", "rpc"},
             pc' = [pc EXCEPT ![c] = step],
             UNCHANGED todo \/ \E s : todo' = [todo EXCEPT ![c] = s]
      PROVE  Within'
  BY <1>2
<1>3. ASSUME NEW c \in Clients, InitKv(c) \/ InitRoot(c) \/ InitLock(c) \/ InitRecord(c) \/ Free(c)
      PROVE  Within'
  <2>1. \E step \in {"root", "lock", "record", "idle", "failed", "freed"} : pc' = [pc EXCEPT ![c] = step]
    BY <1>3 DEF InitKv, InitRoot, InitLock, InitRecord, Free, Goto, Fail
  <2>2. UNCHANGED todo \/ todo' = [todo EXCEPT ![c] = <<>>]
    BY <1>3 DEF InitKv, InitRoot, InitLock, InitRecord, Free, Goto, Fail
  <2> QED BY <1>2, <2>1, <2>2
<1>4. ASSUME NEW c \in Clients, SetPermission(c)
      PROVE  Within'
  BY <1>4 DEF SetPermission, Calls, Goto, Fail
<1>5. ASSUME NEW c \in Clients, AddModes(c)
      PROVE  Within'
  BY <1>5 DEF AddModes, Goto, Return
<1>6. ASSUME NEW c \in Clients, Request(c)
      PROVE  Within'
  BY <1>6 DEF Request, Calls, Goto
<1>7. ASSUME NEW c \in Clients,
             Operate(c) \/ Announce(c) \/ Reply(c) \/ Acquire(c) \/ Release(c) \/ JointRegion(c)
             \/ SplitRegion(c)
      PROVE  Within'
  <2>1. pc' = [pc EXCEPT ![c] = "idle"] /\ todo' = [todo EXCEPT ![c] = Tail(@)]
    BY <1>7 DEF Operate, Announce, Reply, Acquire, Release, JointRegion, SplitRegion, Return
  <2> QED BY <1>2, <2>1
<1>8. ASSUME NEW c \in Clients, Lookup(c)
      PROVE  Within'
  <2>1. \/ pc' = [pc EXCEPT ![c] = "idle"] /\ todo' = [todo EXCEPT ![c] = Tail(@)]
        \/ pc' = [pc EXCEPT ![c] = "failed"] /\ todo' = [todo EXCEPT ![c] = <<>>]
    BY <1>8 DEF Lookup, Return, Fail
  <2> QED BY <1>2, <2>1
<1>9. ASSUME (\E c \in Clients : Join(c)) \/ UNCHANGED vars
      PROVE  Within'
  BY <1>9 DEF Join, vars
<1> QED BY <1>1, <1>3, <1>4, <1>5, <1>6, <1>7, <1>8, <1>9 DEF Next, Client

\* Nobody holds the lock at the start.
LEMMA LockInit == ASSUME Init PROVE LockInv /\ Within
<1>1. PICK s \in Setups : todo = s.todo
  BY DEF Init
<1>2. /\ DOMAIN todo = Clients
      /\ \A c \in Clients : todo[c] \in Seq(AllCalls) /\ TakeTurns(todo[c], "lock")
  BY <1>1, StartAssumption
<1> QED BY <1>2 DEF Init, LockInv, Within, Turn, Modes

\* Every step keeps the lock with its holder.
LEMMA LockStep ==
    ASSUME LockInv, Within, [Next]_vars
    PROVE  LockInv'
<1> USE DEF clientVars, serverVars
<1>1. ASSUME UNCHANGED <<todo, holder>>, DOMAIN kv' = Keys, kv'[Lock] = kv[Lock]
      PROVE  LockInv'
  BY <1>1 DEF LockInv, Turn
<1>2. Lock \in Keys /\ Lock # Record /\ Lock \notin Modes /\ \A x : Lock # CountKey(x)
  BY DEF CountKey, Lock, Record, Modes, Keys
<1>3. ASSUME NEW n \in Nodes, Server(n)
      PROVE  LockInv'
  <2>1. CASE StartCounts(n)
    BY <1>1, <1>2, <2>1 DEF StartCounts, dmkv_set, LockInv
  <2>2. CASE StartFlags(n)
    <3>1. \A id \in Ids : Lock # FlagKey(n, id)
      BY DEF Lock, FlagKey
    <3> QED BY <1>1, <1>2, <2>2, <3>1 DEF StartFlags
  <2>3. CASE Commit(n)
    <3>1. UNCHANGED <<todo, holder>>
      BY <2>3 DEF Commit
    <3>2. kv' = kv \/ \E x, v : kv' = [kv EXCEPT ![CountKey(x)] = v]
      BY <2>3 DEF Commit, dmkv_set
    <3> QED BY <1>1, <1>2, <3>1, <3>2 DEF LockInv
  <2>4. CASE StartKv(n) \/ StartBind(n) \/ StartComm(n) \/ GetMode(n) \/ GetSpPath(n)
             \/ RpcStart(n) \/ Broadcast(n)
    BY <1>1, <2>4 DEF StartKv, StartBind, StartComm, GetMode, GetSpPath, RpcStart, Broadcast, LockInv
  <2> QED BY <1>3, <2>1, <2>2, <2>3, <2>4 DEF Server
<1>4. ASSUME NEW c \in Clients, InitKv(c) \/ InitRoot(c) \/ Free(c)
      PROVE  LockInv'
  <2>1. UNCHANGED <<kv, holder>> /\ (UNCHANGED todo \/ todo' = [todo EXCEPT ![c] = <<>>])
    BY <1>4 DEF InitKv, InitRoot, Free, Goto, Fail
  <2> QED BY <2>1, CallKeeps DEF LockInv
<1>5. ASSUME NEW c \in Clients, InitLock(c) \/ InitRecord(c)
      PROVE  LockInv'
  <2>1. UNCHANGED <<todo, holder>> /\ DOMAIN kv' = Keys
    BY <1>5 DEF InitLock, InitRecord, Goto, dmkv_add, LockInv
  <2>2. holder # {} => kv'[Lock] = kv[Lock]
    BY <1>2, <1>5, StartAssumption DEF InitLock, InitRecord, dmkv_add, LockInv
  <2> QED BY <2>1, <2>2, CallKeeps
<1>6. ASSUME NEW c \in Clients, SetPermission(c)
      PROVE  LockInv'
  <2>1. UNCHANGED <<kv, holder>> /\ (UNCHANGED todo \/ todo' = [todo EXCEPT ![c] = <<>>])
    BY <1>6 DEF SetPermission, Goto, Fail
  <2> QED BY <2>1, CallKeeps DEF LockInv
<1>7. ASSUME NEW c \in Clients, AddModes(c)
      PROVE  LockInv'
  <2>1. todo[c] # <<>> /\ Head(todo[c]).op = "perm"
    BY <1>7 DEF AddModes, Within, Call
  <2>2. UNCHANGED holder /\ DOMAIN kv' = Keys /\ kv'[Lock] = kv[Lock]
    BY <1>2, <1>7 DEF AddModes, dmkv_add, LockInv
  <2>3. UNCHANGED todo \/ todo' = [todo EXCEPT ![c] = Tail(@)]
    BY <1>7 DEF AddModes, Goto, Return
  <2> QED BY <2>1, <2>2, <2>3, CallKeeps
<1>8. ASSUME NEW c \in Clients,
             Operate(c) \/ Announce(c) \/ Request(c) \/ Reply(c) \/ SplitRegion(c) \/ JointRegion(c)
      PROVE  LockInv'
  <2>1. todo[c] # <<>> /\ Head(todo[c]).op \notin {"lock", "unlock"}
    BY <1>8 DEF Operate, Announce, Request, Reply, SplitRegion, JointRegion, Calls, Call, Within
  <2>2. UNCHANGED <<kv, holder>> /\ (UNCHANGED todo \/ todo' = [todo EXCEPT ![c] = Tail(@)])
    BY <1>8 DEF Operate, Announce, Request, Reply, SplitRegion, JointRegion, Goto, Return
  <2> QED BY <2>1, <2>2, CallKeeps DEF LockInv
<1>9. ASSUME NEW c \in Clients, Lookup(c)
      PROVE  LockInv'
  <2>1. todo[c] # <<>> /\ Head(todo[c]).op \notin {"lock", "unlock"}
    BY <1>9 DEF Lookup, Calls, Call
  <2>2. /\ UNCHANGED <<kv, holder>>
        /\ todo' = [todo EXCEPT ![c] = <<>>] \/ todo' = [todo EXCEPT ![c] = Tail(@)]
    BY <1>9 DEF Lookup, Return, Fail
  <2> QED BY <2>1, <2>2, CallKeeps DEF LockInv
<1>10. ASSUME NEW c \in Clients, Acquire(c)
       PROVE  LockInv'
  <2>1. todo[c] # <<>> /\ Head(todo[c]).op = "lock" /\ todo' = [todo EXCEPT ![c] = Tail(@)]
    BY <1>10 DEF Acquire, Calls, Call, Return
  <2>2. holder = {} /\ holder' = {c}
    BY <1>10 DEF Acquire, dmkv_get, LockInv
  <2>3. todo[c] \in Seq(AllCalls) /\ TakeTurns(todo[c], "lock")
    BY <2>2 DEF LockInv, Turn
  <2>4. TakeTurns(Tail(todo[c]), "unlock") /\ Tail(todo[c]) \in Seq(AllCalls)
    BY <2>1, <2>3, TurnTaken DEF Other
  <2>5. DOMAIN kv' = Keys /\ kv'[Lock] = 1
    BY <1>2, <1>10 DEF Acquire, dmkv_set, LockInv
  <2> QED BY <2>1, <2>2, <2>4, <2>5 DEF LockInv, Turn
<1>11. ASSUME NEW c \in Clients, Release(c)
       PROVE  LockInv'
  <2>1. todo[c] # <<>> /\ Head(todo[c]).op = "unlock" /\ todo' = [todo EXCEPT ![c] = Tail(@)]
    BY <1>11 DEF Release, Calls, Call, Return
  <2>2. todo[c] \in Seq(AllCalls) /\ TakeTurns(todo[c], Turn(c)) /\ Turn(c) \in {"lock", "unlock"}
    BY DEF LockInv, Turn
  <2>3. Turn(c) = "unlock" /\ TakeTurns(Tail(todo[c]), "lock") /\ Tail(todo[c]) \in Seq(AllCalls)
    BY <2>1, <2>2, TurnTaken DEF Other
  <2>4. holder' = {}
    BY <1>11, <2>3 DEF Release, LockInv, Turn
  <2>5. \A d \in Clients \ {c} : TakeTurns(todo[d], "lock")
    BY <2>3 DEF LockInv, Turn
  <2>6. DOMAIN kv' = Keys
    BY <1>11 DEF Release, dmkv_set, LockInv
  <2> QED BY <2>1, <2>3, <2>4, <2>5, <2>6 DEF LockInv, Turn
<1>12. ASSUME (\E c \in Clients : Join(c)) \/ UNCHANGED vars
       PROVE  LockInv'
  BY <1>12 DEF Join, vars, LockInv, Turn
<1> QED
  BY <1>3, <1>4, <1>5, <1>6, <1>7, <1>8, <1>9, <1>10, <1>11, <1>12 DEF Next, Client

\* A client that initialises late never takes the evict lock from an eviction
\* that holds it, and two clients never hold it.
THEOREM LockSafe == Spec => []LockKept
<1>1. Init => LockInv /\ Within
  BY LockInit
<1>2. LockInv /\ Within /\ [Next]_vars => LockInv' /\ Within'
  BY LockStep, WithinStep
<1>3. LockInv => LockKept
  <2>1. SUFFICES ASSUME LockInv PROVE Cardinality(holder) <= 1
    BY DEF LockInv, LockKept
  <2>2. CASE holder = {}
    BY <2>2, FS_EmptySet
  <2>3. CASE holder # {}
    <3>1. PICK c \in holder : TRUE
      BY <2>3
    <3>2. holder = {c}
      BY <2>1 DEF LockInv
    <3>3. Cardinality({c}) = 1
      BY FS_Singleton, Zenon
    <3> QED BY <3>2, <3>3
  <2> QED BY <2>2, <2>3
<1> QED BY <1>1, <1>2, <1>3, PTL DEF Spec

-----------------------------------------------------------------------------
(* The broadcasts between the servers.                                     *)

\* What setup_servers_comm has connected to, once it is done.
Connected(n) == server[n] \in {"counts", "flags", "run", "dead"}

\* The entries that a broadcast has passed have all handled it.
Passed(n) ==
    rpc[n] > 0 => n \in told[n] /\ \A i \in DOMAIN List : i < rpc[n] => List[i] \in told[n]

BroadcastInv ==
    /\ setup \in Setups
    /\ DOMAIN server = Nodes /\ DOMAIN conn = Nodes /\ DOMAIN rpc = Nodes /\ DOMAIN told = Nodes
    /\ \A n \in Nodes :
         /\ server[n] \notin {"kv", "failed"} => dmkv_init(setup.lines)
         /\ rpc[n] \in Nat \cup {Refused} /\ (rpc[n] # 0 => Connected(n))
         /\ Connected(n) => conn[n] = Connections(get_cluster_info_comm(setup.lines), n)
         /\ Small => Passed(n)

\* A configuration that the KV store accepts and whose addresses are all copied
\* gives a connection to every other node.
LEMMA AllConnected ==
    ASSUME NEW s \in Setups, NEW n, dmkv_init(s.lines), Len(Addresses(s.lines)) <= CopyMax
    PROVE  LET list == Addresses(s.lines)
               links == Connections(get_cluster_info_comm(s.lines), n) IN
           /\ list \in Seq(ToSet(list)) /\ DOMAIN list = 1 .. Len(list)
           /\ links \in Seq(ToSet(list) \cup {Null}) /\ Len(links) = Len(list)
           /\ \A i \in DOMAIN list : /\ links[i] = IF n = list[i] THEN Null ELSE list[i]
                                     /\ list[i] \notin {Null, Wild, NoAddr}
<1> DEFINE list == Addresses(s.lines)
           links == Connections(get_cluster_info_comm(s.lines), n)
<1>1. list \in Seq(ToSet(list)) /\ {Null, Wild, NoAddr} \cap ToSet(list) = {}
  BY StartAssumption
<1>2. DOMAIN list = 1 .. Len(list) /\ Len(list) \in Nat
  BY <1>1
<1>3. \A i \in DOMAIN list : list[i] \in ToSet(list) /\ list[i] \notin {Null, Wild, NoAddr}
  BY <1>1 DEF ToSet
<1>4. get_cluster_info_comm(s.lines) = Copied(list)
  BY DEF get_cluster_info_comm, get_cluster_info, dmkv_init
<1>5. DOMAIN Copied(list) = DOMAIN list /\ \A i \in DOMAIN list : Copied(list)[i] = list[i]
  <2>1. \A i \in DOMAIN list : i <= CopyMax
    BY <1>2, StartAssumption
  <2> QED BY <2>1 DEF Copied
<1>6. \A i \in DOMAIN list : \A j \in 1 .. i : Copied(list)[j] # NoAddr
  BY <1>2, <1>3, <1>5
<1>7. DOMAIN links = DOMAIN list /\ \A i \in DOMAIN list : links[i] = IF n = list[i] THEN Null ELSE list[i]
  <2> HIDE DEF list
  <2> QED BY <1>4, <1>5, <1>6 DEF Connections, is_loacl_addr
<1> HIDE DEF list, links
<1>8. links \in Seq(ToSet(list) \cup {Null}) /\ Len(links) = Len(list)
  <2>1. links = [i \in 1 .. Len(list) |-> links[i]]
    <3>1. links = [i \in DOMAIN list |-> links[i]]
      BY <1>4, <1>5, <1>7 DEF links, Connections
    <3> QED BY <3>1, <1>2
  <2>2. \A i \in 1 .. Len(list) : links[i] \in ToSet(list) \cup {Null}
    BY <1>2, <1>3, <1>7
  <2> QED BY <1>2, <2>1, <2>2
<1> QED BY <1>1, <1>2, <1>3, <1>7, <1>8 DEF list, links

\* The same of the configuration that was chosen.
LEMMA ListConnected ==
    ASSUME BroadcastInv, Small, NEW n \in Nodes, Connected(n), dmkv_init(setup.lines)
    PROVE  /\ List \in Seq(ToSet(List)) /\ DOMAIN List = 1 .. Len(List) /\ Len(List) \in Nat
           /\ conn[n] \in Seq(ToSet(List) \cup {Null}) /\ Len(conn[n]) = Len(List)
           /\ \A i \in DOMAIN List : /\ conn[n][i] = IF n = List[i] THEN Null ELSE List[i]
                                     /\ List[i] \notin {Null, Wild, NoAddr}
<1>1. /\ setup \in Setups /\ Len(Addresses(setup.lines)) <= CopyMax
      /\ conn[n] = Connections(get_cluster_info_comm(setup.lines), n)
  BY DEF BroadcastInv, Small, List
<1> DEFINE lst == Addresses(setup.lines)
           links == Connections(get_cluster_info_comm(setup.lines), n)
<1>2. /\ lst \in Seq(ToSet(lst)) /\ DOMAIN lst = 1 .. Len(lst)
      /\ links \in Seq(ToSet(lst) \cup {Null}) /\ Len(links) = Len(lst)
      /\ \A i \in DOMAIN lst : /\ links[i] = IF n = lst[i] THEN Null ELSE lst[i]
                               /\ lst[i] \notin {Null, Wild, NoAddr}
  BY <1>1, AllConnected, Zenon
<1>3. Len(lst) \in Nat
  <2> HIDE DEF lst
  <2> QED BY <1>2
<1> HIDE DEF links
<1>4. conn[n] = links
  BY <1>1 DEF links
<1> QED BY <1>2, <1>3, <1>4, Zenon DEF List

\* No server is connected at the start.
LEMMA BroadcastInit == ASSUME Init PROVE BroadcastInv
  BY DEF Init, BroadcastInv, Connected, Passed

\* Every step keeps what a broadcast has behind it.
LEMMA BroadcastStep ==
    ASSUME BroadcastInv, [Next]_vars
    PROVE  BroadcastInv'
<1> USE DEF clientVars, serverVars
<1>1. ASSUME UNCHANGED <<setup, server, conn, told>>, DOMAIN rpc' = Nodes,
             \A n \in Nodes : rpc'[n] \in {0, rpc[n]}
      PROVE  BroadcastInv'
  BY <1>1 DEF BroadcastInv, Connected, Passed, Small, List
<1>2. ASSUME NEW n \in Nodes, StartKv(n) \/ StartBind(n)
      PROVE  BroadcastInv'
  <2>1. rpc[n] = 0
    BY <1>2 DEF StartKv, StartBind, BroadcastInv, Connected
  <2>2. /\ UNCHANGED <<setup, conn, told, rpc>>
        /\ \/ server' = [server EXCEPT ![n] = "failed"]
           \/ server' = [server EXCEPT ![n] = "bind"] /\ dmkv_init(setup.lines)
           \/ server' = [server EXCEPT ![n] = "comm"] /\ dmkv_init(setup.lines)
    BY <1>2 DEF StartKv, StartBind, Step, BroadcastInv
  <2> QED BY <2>1, <2>2 DEF BroadcastInv, Connected, Passed, Small, List
<1>3. ASSUME NEW n \in Nodes, StartComm(n)
      PROVE  BroadcastInv'
  BY <1>3 DEF StartComm, Step, BroadcastInv, Connected, Passed, Small, List
<1>4. ASSUME NEW n \in Nodes, StartCounts(n) \/ StartFlags(n) \/ GetSpPath(n)
      PROVE  BroadcastInv'
  <2>1. Connected(n)
    BY <1>4 DEF StartCounts, StartFlags, GetSpPath, Serve, Running, Connected
  <2>2. UNCHANGED <<setup, conn, told, rpc>> /\ DOMAIN server' = Nodes
    BY <1>4 DEF StartCounts, StartFlags, GetSpPath, Step, BroadcastInv
  <2>3. \A d \in Nodes : Connected(d)' = Connected(d) /\ (d # n => server'[d] = server[d])
    BY <1>4, <2>1 DEF StartCounts, StartFlags, GetSpPath, Step, Connected, BroadcastInv
  <2> QED BY <2>1, <2>2, <2>3 DEF BroadcastInv, Passed, Small, List, Connected
<1>5. ASSUME NEW n \in Nodes, GetMode(n) \/ Commit(n)
      PROVE  BroadcastInv'
  BY <1>1, <1>5 DEF GetMode, Commit, BroadcastInv
<1>6. ASSUME NEW n \in Nodes, RpcStart(n)
      PROVE  BroadcastInv'
  <2>1. /\ Connected(n) /\ UNCHANGED <<setup, server, conn>>
        /\ rpc' = [rpc EXCEPT ![n] = 1] /\ told' = [told EXCEPT ![n] = {n}]
    BY <1>6 DEF RpcStart, Serve, Running, Connected
  <2>2. Small => \A i \in DOMAIN List : ~ i < 1
    <3>1. dmkv_init(setup.lines)
      BY <2>1 DEF BroadcastInv, Connected
    <3> QED BY <3>1, AllConnected DEF BroadcastInv, Small, List
  <2> QED BY <2>1, <2>2 DEF BroadcastInv, Passed, Small, List, Connected
<1>7. ASSUME NEW n \in Nodes, Broadcast(n)
      PROVE  BroadcastInv'
  <2> DEFINE peer == conn[n][rpc[n]]
  <2>1. /\ server[n] = "run" /\ rpc[n] \in DOMAIN conn[n] /\ UNCHANGED <<setup, conn>>
        /\ \/ /\ peer \in {Null, Wild} \/ peer \in Nodes
              /\ rpc' = [rpc EXCEPT ![n] = rpc[n] + 1]
              /\ UNCHANGED server
              /\ IF peer \in {Null, Wild} /\ told' = told THEN TRUE
                 ELSE told' = [told EXCEPT ![n] = told[n] \cup {peer}]
           \/ server' = [server EXCEPT ![n] = "dead"] /\ UNCHANGED <<rpc, told>>
           \/ rpc' = [rpc EXCEPT ![n] = Refused] /\ UNCHANGED <<server, told>>
    BY <1>7 DEF Broadcast, Serve, Running, Step
  <2>2. CASE server' = [server EXCEPT ![n] = "dead"] /\ UNCHANGED <<rpc, told>>
    BY <2>1, <2>2 DEF BroadcastInv, Passed, Small, List, Connected
  <2>3. CASE /\ rpc' = [rpc EXCEPT ![n] = rpc[n] + 1] /\ UNCHANGED server
             /\ IF peer \in {Null, Wild} /\ told' = told THEN TRUE
                ELSE told' = [told EXCEPT ![n] = told[n] \cup {peer}]
    <3>1. /\ Connected(n) /\ dmkv_init(setup.lines) /\ rpc[n] \in Int
          /\ conn[n] = Connections(get_cluster_info_comm(setup.lines), n)
      BY <2>1 DEF BroadcastInv, Connected, Refused
    <3>2. /\ DOMAIN told' = Nodes /\ \A d \in Nodes \ {n} : told'[d] = told[d]
          /\ told[n] \subseteq told'[n]
          /\ told'[n] = told[n] \cup {peer} \/ (peer \in {Null, Wild} /\ told'[n] = told[n])
      BY <2>3 DEF BroadcastInv
    <3>3. ASSUME Small PROVE Passed(n)'
      <4>1. /\ List \in Seq(ToSet(List)) /\ DOMAIN List = 1 .. Len(List)
            /\ conn[n] \in Seq(ToSet(List) \cup {Null}) /\ Len(conn[n]) = Len(List)
            /\ \A i \in DOMAIN List : /\ conn[n][i] = IF n = List[i] THEN Null ELSE List[i]
                                      /\ List[i] \notin {Null, Wild, NoAddr}
        BY <3>1, <3>3, ListConnected
      <4>2. rpc[n] \in DOMAIN List /\ rpc[n] > 0
        BY <2>1, <4>1
      <4>3. n \in told[n] /\ \A i \in DOMAIN List : i < rpc[n] => List[i] \in told[n]
        BY <3>3, <4>2 DEF BroadcastInv, Passed
      <4>4. List[rpc[n]] \in told'[n]
        BY <3>2, <4>1, <4>2, <4>3
      <4>5. rpc'[n] = rpc[n] + 1 /\ List' = List
        BY <2>1, <2>3 DEF BroadcastInv, List
      <4>6. \A i \in DOMAIN List : i < rpc[n] + 1 => i < rpc[n] \/ i = rpc[n]
        BY <4>1, <4>2
      <4>7. \A i \in DOMAIN List : i < rpc[n] + 1 => List[i] \in told'[n]
        BY <3>2, <4>3, <4>4, <4>6
      <4> QED BY <3>2, <4>3, <4>5, <4>7 DEF Passed
    <3>4. /\ DOMAIN rpc' = Nodes /\ rpc'[n] = rpc[n] + 1 /\ \A d \in Nodes \ {n} : rpc'[d] = rpc[d]
          /\ rpc'[n] \in Nat
      BY <2>3, <3>1 DEF BroadcastInv, Refused
    <3>5. UNCHANGED <<setup, conn, server>>
      BY <2>1, <2>3
    <3>6. Small' = Small /\ List' = List /\ \A d \in Nodes : Connected(d)' = Connected(d)
      BY <3>5 DEF Small, List, Connected
    <3>7. \A d \in Nodes \ {n} : Passed(d)' = Passed(d)
      BY <3>2, <3>4, <3>6 DEF Passed
    <3> QED BY <3>1, <3>2, <3>3, <3>4, <3>5, <3>6, <3>7 DEF BroadcastInv
  <2>4. CASE rpc' = [rpc EXCEPT ![n] = Refused] /\ UNCHANGED <<server, told>>
    <3>1. Connected(n) /\ ~ Refused > 0
      BY <2>1 DEF Connected, Refused
    <3>2. DOMAIN rpc' = Nodes /\ rpc'[n] = Refused /\ \A d \in Nodes \ {n} : rpc'[d] = rpc[d]
      BY <2>4 DEF BroadcastInv
    <3>3. \A d \in Nodes : Connected(d)' = Connected(d)
      BY <2>4 DEF Connected
    <3>4. \A d \in Nodes : Passed(d) => Passed(d)'
      BY <2>1, <2>4, <3>1, <3>2 DEF Passed, List
    <3> QED BY <2>1, <2>4, <3>1, <3>2, <3>3, <3>4 DEF BroadcastInv, Small, List
  <2> QED BY <2>1, <2>2, <2>3, <2>4
<1>8. ASSUME NEW c \in Clients, Client(c)
      PROVE  BroadcastInv'
  <2>1. CASE Reply(c)
    BY <1>1, <2>1 DEF Reply, BroadcastInv
  <2>2. CASE ~ Reply(c)
    <3>1. UNCHANGED <<setup, server, conn, told, rpc>>
      BY <1>8, <2>2 DEF Client, InitKv, InitRoot, InitLock, InitRecord, SetPermission, AddModes, Operate,
         Announce, Request, Acquire, Release, JointRegion, SplitRegion, Lookup, Free
    <3> QED BY <1>1, <3>1 DEF BroadcastInv
  <2> QED BY <2>1, <2>2
<1>9. ASSUME (\E c \in Clients : Join(c)) \/ UNCHANGED vars
      PROVE  BroadcastInv'
  BY <1>1, <1>9 DEF Join, vars, BroadcastInv
<1> QED BY <1>2, <1>3, <1>4, <1>5, <1>6, <1>7, <1>8, <1>9 DEF Next, Server

\* When server_broadcast returns 0, every server that the configuration names
\* has handled the message, whenever it was started.
THEOREM BroadcastSafe == Spec => []BroadcastComplete
<1>1. Init => BroadcastInv
  BY BroadcastInit
<1>2. BroadcastInv /\ [Next]_vars => BroadcastInv'
  BY BroadcastStep
<1>3. BroadcastInv => BroadcastComplete
  <2>1. SUFFICES ASSUME BroadcastInv, Small, NEW n \in Nodes, Serve(n), rpc[n] > Len(conn[n])
                 PROVE  ToSet(List) \subseteq told[n]
    BY DEF BroadcastComplete
  <2>2. Connected(n) /\ dmkv_init(setup.lines)
    BY <2>1 DEF BroadcastInv, Serve, Running, Connected
  <2>3. /\ DOMAIN List = 1 .. Len(List) /\ Len(conn[n]) = Len(List) /\ Len(List) \in Nat
    BY <2>1, <2>2, ListConnected
  <2>4. rpc[n] \in Int /\ \A i \in DOMAIN List : i < rpc[n]
    BY <2>1, <2>3 DEF BroadcastInv, Refused
  <2>5. rpc[n] > 0
    BY <2>1, <2>3, <2>4
  <2>6. \A i \in DOMAIN List : List[i] \in told[n]
    BY <2>1, <2>4, <2>5 DEF BroadcastInv, Passed
  <2> QED BY <2>6 DEF ToSet
<1> QED BY <1>1, <1>2, <1>3, PTL DEF Spec

-----------------------------------------------------------------------------
(* The modes of the batch permissions.                                     *)

DirMode == <<"nom_dir_mode">>
FileMode == <<"nom_f_mode">>
SpPath == <<"sp_path">>

Stored == kv[DirMode] # Null /\ kv[FileMode] # Null /\ kv[SpPath] # Null

\* The client is still before or within its first pacon_set_permission, with
\* what that has stored so far, or has failed; it has published nothing.
Before(c) ==
    /\ mq[c] = <<>>
    /\ \/ pc[c] = "failed" /\ todo[c] = <<>>
       \/ /\ todo[c] = setup.todo[c]
          /\ pc[c] \in {"kv", "root", "lock", "record", "idle", "nom_dir_mode", "nom_f_mode", "sp_path"}
          /\ pc[c] \in {"nom_f_mode", "sp_path"} => kv[DirMode] # Null
          /\ pc[c] = "sp_path" => kv[FileMode] # Null

ModesInv ==
    /\ setup \in Setups
    /\ DOMAIN kv = Keys /\ DOMAIN pc = Clients /\ DOMAIN todo = Clients /\ DOMAIN mq = Clients
    /\ DOMAIN sp = Nodes /\ DOMAIN server = Nodes
    /\ AllSet => /\ \A c \in Clients : Stored \/ Before(c)
                 /\ \A n \in Nodes : sp[n] # "default" /\ (sp[n] # "unknown" => Stored)
    /\ AllSet /\ Small => \A n \in Nodes : server[n] # "dead"

\* No client has set permissions at the start.
LEMMA ModesInit == ASSUME Init PROVE ModesInv
<1>1. PICK s \in Setups : setup = s /\ todo = s.todo
  BY DEF Init
<1>2. DOMAIN todo = Clients /\ setup \in Setups /\ todo = setup.todo
  BY <1>1, StartAssumption
<1> QED BY <1>2 DEF Init, ModesInv, Before

\* What a step may do to the KV store: a mode that is there stays there.
ModesKept == /\ DOMAIN kv' = Keys
             /\ kv[DirMode] # Null => kv'[DirMode] # Null
             /\ kv[FileMode] # Null => kv'[FileMode] # Null
             /\ kv[SpPath] # Null => kv'[SpPath] # Null

\* The stores of the code never take a mode away.
LEMMA StoreKeepsModes ==
    ASSUME ModesInv,
           \/ UNCHANGED kv
           \/ \E k, v : kv' = [kv EXCEPT ![k] = v] /\ k \notin Modes
           \/ \E k, v : kv' = [kv EXCEPT ![k] = IF @ = Null THEN v ELSE @]
           \/ \E n : kv' = [k \in Keys |-> IF \E id \in Ids : k = FlagKey(n, id) THEN 0 ELSE kv[k]]
    PROVE  ModesKept
<1>1. /\ DOMAIN kv = Keys /\ DirMode \in Keys /\ FileMode \in Keys /\ SpPath \in Keys
      /\ DirMode \in Modes /\ FileMode \in Modes /\ SpPath \in Modes
  BY DEF ModesInv, Keys, Modes, DirMode, FileMode, SpPath
<1>2. \A n, id : DirMode # FlagKey(n, id) /\ FileMode # FlagKey(n, id) /\ SpPath # FlagKey(n, id)
  BY DEF DirMode, FileMode, SpPath, FlagKey
<1> HIDE DEF DirMode, FileMode, SpPath, FlagKey, Modes, Keys
<1> QED BY <1>1, <1>2 DEF ModesKept

\* A step of a server that publishes nothing.
LEMMA ServerKeepsModes ==
    ASSUME ModesInv, ModesKept, UNCHANGED <<setup, pc, todo>>, DOMAIN mq' = Clients,
           \A c \in Clients : mq[c] = <<>> => mq'[c] = <<>>,
           DOMAIN sp' = Nodes, DOMAIN server' = Nodes,
           AllSet => \A n \in Nodes : sp'[n] # "default" /\ (sp'[n] # "unknown" => Stored),
           AllSet /\ Small => \A n \in Nodes : server'[n] # "dead"
    PROVE  ModesInv'
  BY DEF ModesInv, ModesKept, AllSet, Small, List, Stored, Before

\* A step of a client that leaves it before its first pacon_set_permission is
\* done, or that is taken after that.
LEMMA ClientKeepsModes ==
    ASSUME ModesInv, ModesKept, UNCHANGED <<setup, sp, server>>,
           NEW c \in Clients,
           DOMAIN pc' = Clients /\ DOMAIN todo' = Clients /\ DOMAIN mq' = Clients,
           \A d \in Clients \ {c} : pc'[d] = pc[d] /\ todo'[d] = todo[d] /\ mq'[d] = mq[d],
           AllSet => Stored' \/ Before(c)'
    PROVE  ModesInv'
<1>1. AllSet' = AllSet /\ Small' = Small
  BY DEF AllSet, Small, List
<1>2. Stored => Stored'
  BY DEF Stored, ModesKept
<1>3. ASSUME NEW d \in Clients \ {c}, Before(d) PROVE Before(d)'
  BY <1>3 DEF Before, ModesKept
<1> QED BY <1>1, <1>2, <1>3 DEF ModesInv, ModesKept

\* Before the first pacon_set_permission is done, no other call is possible.
LEMMA PermFirst ==
    ASSUME ModesInv, AllSet, NEW c \in Clients, Before(c), todo[c] # <<>>
    PROVE  Call(c) = Head(setup.todo[c]) /\ Call(c).op = "perm" /\ Call(c).perm # Null
<1>1. todo[c] = setup.todo[c] /\ setup.todo[c] # <<>>
  BY DEF Before
<1>2. setup.todo[c] \in Seq(AllCalls)
  BY StartAssumption DEF ModesInv
<1>3. Head(setup.todo[c]) \in AllCalls
  BY <1>1, <1>2
<1> QED BY <1>1, <1>3, StartAssumption DEF AllSet, Call

\* Every step keeps the modes.
LEMMA ModesStep ==
    ASSUME ModesInv, BroadcastInv, [Next]_vars
    PROVE  ModesInv'
<1> USE DEF clientVars, serverVars
<1>1. ASSUME NEW n \in Nodes,
             StartKv(n) \/ StartBind(n) \/ StartComm(n) \/ StartCounts(n) \/ StartFlags(n) \/ RpcStart(n)
      PROVE  ModesInv'
  <2>1. UNCHANGED <<setup, pc, todo, mq, sp>>
    BY <1>1 DEF StartKv, StartBind, StartComm, StartCounts, StartFlags, RpcStart
  <2>2. DOMAIN server' = Nodes /\ \A d \in Nodes : server[d] # "dead" => server'[d] # "dead"
    BY <1>1 DEF StartKv, StartBind, StartComm, StartCounts, StartFlags, RpcStart, Step, ModesInv
  <2>3. \/ UNCHANGED kv
        \/ \E k, v : kv' = [kv EXCEPT ![k] = v] /\ k \notin Modes
        \/ \E d : kv' = [k \in Keys |-> IF \E id \in Ids : k = FlagKey(d, id) THEN 0 ELSE kv[k]]
    <3>1. \A id : CountKey(id) \notin Modes
      BY DEF CountKey, Modes
    <3> QED BY <1>1, <3>1 DEF StartKv, StartBind, StartComm, StartCounts, StartFlags, RpcStart, dmkv_set
  <2>4. ModesKept
    BY <2>3, StoreKeepsModes
  <2> QED BY <2>1, <2>2, <2>4, ServerKeepsModes DEF ModesInv
<1>2. ASSUME NEW n \in Nodes, GetMode(n)
      PROVE  ModesInv'
  <2>1. UNCHANGED <<setup, pc, todo, mq, kv, server>> /\ DOMAIN sp' = Nodes
    BY <1>2 DEF GetMode, ModesInv
  <2>2. AllSet => Stored
    BY <1>2 DEF GetMode, Waiting, ModesInv, Before
  <2>3. AllSet => \A d \in Nodes : sp'[d] # "default" /\ (sp'[d] # "unknown" => Stored)
    BY <1>2, <2>2 DEF GetMode, dmkv_get, Stored, DirMode, ModesInv
  <2> QED BY <2>1, <2>3, StoreKeepsModes, ServerKeepsModes DEF ModesInv
<1>3. ASSUME NEW n \in Nodes, GetSpPath(n)
      PROVE  ModesInv'
  <2>1. UNCHANGED <<setup, pc, todo, mq, kv>> /\ DOMAIN sp' = Nodes /\ DOMAIN server' = Nodes
    BY <1>3 DEF GetSpPath, Step, ModesInv
  <2>2. AllSet => Stored
    BY <1>3 DEF GetSpPath, ModesInv
  <2>3. AllSet => /\ \A d \in Nodes : sp'[d] # "default" /\ (sp'[d] # "unknown" => Stored)
                  /\ UNCHANGED server
    BY <1>3, <2>2 DEF GetSpPath, dmkv_get, Stored, SpPath, ModesInv
  <2> QED BY <2>1, <2>3, StoreKeepsModes, ServerKeepsModes DEF ModesInv
<1>4. ASSUME NEW n \in Nodes, Commit(n)
      PROVE  ModesInv'
  <2>1. UNCHANGED <<setup, pc, todo, sp, server>>
    BY <1>4 DEF Commit
  <2>2. PICK c \in Clients : mq[c] # <<>> /\ mq' = [mq EXCEPT ![c] = Tail(mq[c])]
    BY <1>4 DEF Commit, Waiting
  <2>3. UNCHANGED kv \/ \E k, v : kv' = [kv EXCEPT ![k] = v] /\ k \notin Modes
    <3>1. \A id : CountKey(id) \notin Modes
      BY DEF CountKey, Modes
    <3> QED BY <1>4, <3>1 DEF Commit, dmkv_set
  <2>4. ModesKept
    BY <2>3, StoreKeepsModes
  <2>5. DOMAIN mq' = Clients /\ \A d \in Clients : mq[d] = <<>> => mq'[d] = <<>>
    BY <2>2 DEF ModesInv
  <2> QED BY <2>1, <2>4, <2>5, ServerKeepsModes DEF ModesInv
<1>5. ASSUME NEW n \in Nodes, Broadcast(n)
      PROVE  ModesInv'
  <2>1. UNCHANGED <<setup, pc, todo, mq, sp, kv>> /\ DOMAIN server' = Nodes
    BY <1>5 DEF Broadcast, Step, ModesInv
  <2>2. server[n] = "run" /\ rpc[n] \in DOMAIN conn[n]
    BY <1>5 DEF Broadcast, Serve, Running
  <2>3. Small => conn[n][rpc[n]] # Wild
    <3>1. ASSUME Small PROVE conn[n][rpc[n]] # Wild
      <4>1. Connected(n) /\ dmkv_init(setup.lines)
        BY <2>2 DEF BroadcastInv, Connected
      <4>2. /\ List \in Seq(ToSet(List)) /\ conn[n] \in Seq(ToSet(List) \cup {Null})
            /\ DOMAIN List = 1 .. Len(List) /\ Len(conn[n]) = Len(List)
            /\ \A i \in DOMAIN List : /\ conn[n][i] = IF n = List[i] THEN Null ELSE List[i]
                                      /\ List[i] \notin {Null, Wild, NoAddr}
        BY <3>1, <4>1, ListConnected
      <4>3. rpc[n] \in DOMAIN List
        BY <2>2, <4>2
      <4> QED BY <4>2, <4>3, StartAssumption
    <3> QED BY <3>1
  <2>4. Small => UNCHANGED server
    BY <1>5, <2>3 DEF Broadcast
  <2> QED BY <2>1, <2>4, StoreKeepsModes, ServerKeepsModes DEF ModesInv
<1>6. ASSUME NEW c \in Clients, InitKv(c) \/ InitRoot(c) \/ InitLock(c) \/ InitRecord(c)
      PROVE  ModesInv'
  <2>1. /\ UNCHANGED <<setup, sp, server, mq>>
        /\ \/ /\ \E step \in {"root", "lock", "record", "idle"} : pc' = [pc EXCEPT ![c] = step]
              /\ UNCHANGED todo
           \/ pc' = [pc EXCEPT ![c] = "failed"] /\ todo' = [todo EXCEPT ![c] = <<>>]
    BY <1>6 DEF InitKv, InitRoot, InitLock, InitRecord, Goto, Fail
  <2>2. UNCHANGED kv \/ \E k, v : kv' = [kv EXCEPT ![k] = IF @ = Null THEN v ELSE @]
    BY <1>6 DEF InitKv, InitRoot, InitLock, InitRecord, dmkv_add
  <2>3. ModesKept
    BY <2>2, StoreKeepsModes
  <2>4. pc[c] \in {"kv", "root", "lock", "record"}
    BY <1>6 DEF InitKv, InitRoot, InitLock, InitRecord
  <2>5. AllSet => Stored' \/ Before(c)'
    <3>1. Stored => Stored'
      BY <2>3 DEF Stored, ModesKept
    <3>2. Before(c) => Before(c)'
      BY <2>1, <2>4 DEF Before, ModesInv
    <3> QED BY <3>1, <3>2 DEF ModesInv
  <2>6. DOMAIN pc' = Clients /\ DOMAIN todo' = Clients /\ DOMAIN mq' = Clients
    BY <2>1 DEF ModesInv
  <2>7. \A d \in Clients \ {c} : pc'[d] = pc[d] /\ todo'[d] = todo[d] /\ mq'[d] = mq[d]
    BY <2>1 DEF ModesInv
  <2> QED BY <2>1, <2>3, <2>5, <2>6, <2>7, ClientKeepsModes
<1>7. ASSUME NEW c \in Clients, SetPermission(c)
      PROVE  ModesInv'
  <2>1. /\ UNCHANGED <<setup, sp, server, mq, kv>>
        /\ \/ pc' = [pc EXCEPT ![c] = "nom_dir_mode"] /\ UNCHANGED todo
           \/ pc' = [pc EXCEPT ![c] = "failed"] /\ todo' = [todo EXCEPT ![c] = <<>>]
    BY <1>7 DEF SetPermission, Goto, Fail
  <2>2. ModesKept
    BY <2>1, StoreKeepsModes
  <2>3. pc[c] = "idle" /\ todo[c] # <<>>
    BY <1>7 DEF SetPermission, Calls
  <2>4. AllSet => Stored' \/ Before(c)'
    <3>1. Stored => Stored'
      BY <2>2 DEF Stored, ModesKept
    <3>2. Before(c) => Before(c)'
      BY <2>1, <2>3 DEF Before, ModesInv
    <3> QED BY <3>1, <3>2 DEF ModesInv
  <2>5. DOMAIN pc' = Clients /\ DOMAIN todo' = Clients /\ DOMAIN mq' = Clients
    BY <2>1 DEF ModesInv
  <2>6. \A d \in Clients \ {c} : pc'[d] = pc[d] /\ todo'[d] = todo[d] /\ mq'[d] = mq[d]
    BY <2>1 DEF ModesInv
  <2> QED BY <2>1, <2>2, <2>4, <2>5, <2>6, ClientKeepsModes
<1>8. ASSUME NEW c \in Clients, AddModes(c)
      PROVE  ModesInv'
  <2>1. /\ UNCHANGED <<setup, sp, server, mq>>
        /\ kv' = [kv EXCEPT ![<<pc[c]>>] = IF @ = Null THEN Call(c).perm ELSE @]
        /\ \/ pc[c] = "nom_dir_mode" /\ pc' = [pc EXCEPT ![c] = "nom_f_mode"] /\ UNCHANGED todo
           \/ pc[c] = "nom_f_mode" /\ pc' = [pc EXCEPT ![c] = "sp_path"] /\ UNCHANGED todo
           \/ /\ pc[c] = "sp_path" /\ pc' = [pc EXCEPT ![c] = "idle"]
              /\ todo' = [todo EXCEPT ![c] = Tail(@)]
    BY <1>8 DEF AddModes, dmkv_add, Goto, Return, Modes
  <2>2. ModesKept
    BY <2>1, StoreKeepsModes
  <2>3. AllSet => Stored' \/ Before(c)'
    <3>1. Stored => Stored'
      BY <2>2 DEF Stored, ModesKept
    <3>2. ASSUME AllSet, Before(c) PROVE Stored' \/ Before(c)'
      <4>1. mq[c] = <<>> /\ todo[c] = setup.todo[c] /\ todo[c] # <<>>
        BY <2>1, <3>2 DEF Before, AllSet
      <4>2. Call(c).perm # Null
        BY <3>2, <4>1, PermFirst
      <4>3. kv'[<<pc[c]>>] # Null
        <5>1. <<pc[c]>> \in Keys
          BY <1>8 DEF AddModes, Keys
        <5> QED BY <2>1, <4>2, <5>1 DEF ModesInv
      <4>4. CASE pc[c] = "nom_dir_mode"
        BY <2>1, <4>1, <4>3, <4>4 DEF Before, DirMode, ModesInv
      <4>5. CASE pc[c] = "nom_f_mode"
        BY <2>1, <2>2, <3>2, <4>1, <4>3, <4>5 DEF Before, ModesKept, FileMode, ModesInv
      <4>6. CASE pc[c] = "sp_path"
        BY <2>2, <3>2, <4>3, <4>6 DEF Before, ModesKept, SpPath, Stored
      <4> QED BY <2>1, <4>4, <4>5, <4>6
    <3> QED BY <3>1, <3>2 DEF ModesInv
  <2>4. DOMAIN pc' = Clients /\ DOMAIN todo' = Clients /\ DOMAIN mq' = Clients
    BY <2>1 DEF ModesInv
  <2>5. \A d \in Clients \ {c} : pc'[d] = pc[d] /\ todo'[d] = todo[d] /\ mq'[d] = mq[d]
    BY <2>1 DEF ModesInv
  <2> QED BY <2>1, <2>2, <2>3, <2>4, <2>5, ClientKeepsModes
<1>9. ASSUME NEW c \in Clients,
             Operate(c) \/ Announce(c) \/ Request(c) \/ Reply(c) \/ Acquire(c) \/ Release(c)
             \/ JointRegion(c) \/ SplitRegion(c) \/ Lookup(c) \/ Free(c)
      PROVE  ModesInv'
  <2>1. UNCHANGED <<setup, sp, server>>
    BY <1>9 DEF Operate, Announce, Request, Reply, Acquire, Release, JointRegion, SplitRegion, Lookup, Free
  <2>2. /\ UNCHANGED pc \/ \E step : pc' = [pc EXCEPT ![c] = step]
        /\ UNCHANGED todo \/ \E rest : todo' = [todo EXCEPT ![c] = rest]
    BY <1>9 DEF Operate, Announce, Request, Reply, Acquire, Release, JointRegion, SplitRegion, Lookup,
                Free, Goto, Return, Fail
  <2>3. UNCHANGED mq \/ \E queue : mq' = [mq EXCEPT ![c] = queue]
    BY <1>9 DEF Operate, Announce, Request, Reply, Acquire, Release, JointRegion, SplitRegion, Lookup,
                Free, Publish
  <2>4. UNCHANGED kv \/ \E k, v : kv' = [kv EXCEPT ![k] = v] /\ k \notin Modes
    BY <1>9 DEF Operate, Announce, Request, Reply, Acquire, Release, JointRegion, SplitRegion, Lookup,
                Free, dmkv_set, Lock, Modes
  <2>5. ModesKept
    BY <2>4, StoreKeepsModes
  <2>6. AllSet => Stored
    <3>1. ASSUME AllSet, Before(c) PROVE FALSE
      <4>1. setup.todo[c] # <<>>
        BY <3>1 DEF AllSet
      <4>2. CASE Free(c)
        BY <3>1, <4>1, <4>2 DEF Free, Before
      <4>3. CASE Reply(c)
        BY <3>1, <4>3 DEF Reply, Before
      <4>4. CASE ~ Free(c) /\ ~ Reply(c)
        <5>1. todo[c] # <<>> /\ Call(c).op # "perm"
          BY <1>9, <4>4 DEF Operate, Announce, Request, Acquire, Release, JointRegion, SplitRegion, Lookup, Calls
        <5> QED BY <3>1, <5>1, PermFirst
      <4> QED BY <4>2, <4>3, <4>4
    <3> QED BY <3>1 DEF ModesInv
  <2>7. Stored => Stored'
    BY <2>5 DEF Stored, ModesKept
  <2>8. DOMAIN pc' = Clients /\ DOMAIN todo' = Clients /\ DOMAIN mq' = Clients
    BY <2>2, <2>3 DEF ModesInv
  <2>9. \A d \in Clients \ {c} : pc'[d] = pc[d] /\ todo'[d] = todo[d] /\ mq'[d] = mq[d]
    BY <2>2, <2>3 DEF ModesInv
  <2> QED BY <2>1, <2>5, <2>6, <2>7, <2>8, <2>9, ClientKeepsModes
<1>10. ASSUME (\E c \in Clients : Join(c)) \/ UNCHANGED vars
       PROVE  ModesInv'
  <2>1. UNCHANGED <<setup, kv, pc, todo, mq, sp, server>>
    BY <1>10 DEF Join, vars
  <2> QED BY <2>1, StoreKeepsModes, ServerKeepsModes DEF ModesInv
<1> QED BY <1>1, <1>2, <1>3, <1>4, <1>5, <1>6, <1>7, <1>8, <1>9, <1>10 DEF Next, Server, Client

\* If every client sets its permissions before it does anything else, no
\* commit thread finds the modes half stored and dies in strlen of NULL, nor
\* settles on the default setting, in whatever order servers and clients start.
THEOREM ModesSafe == Spec => []ServerFindsModes
<1>1. Init => ModesInv /\ BroadcastInv
  BY ModesInit, BroadcastInit
<1>2. ModesInv /\ BroadcastInv /\ [Next]_vars => ModesInv' /\ BroadcastInv'
  BY ModesStep, BroadcastStep
<1>3. ModesInv => ServerFindsModes
  BY DEF ModesInv, ServerFindsModes
<1> QED BY <1>1, <1>2, <1>3, PTL DEF Spec
=============================================================================
