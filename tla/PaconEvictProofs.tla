-------------------------- MODULE PaconEvictProofs --------------------------
(***************************************************************************)
(* Proofs about PaconEvict, for every number of clients, nodes, files and  *)
(* rounds, and whatever the application does meanwhile.                    *)
(***************************************************************************)
EXTENDS PaconEvict, TLAPS

\* The steps of clients that do not evict and of the commit threads.
Others ==
    \/ \E c \in Clients, f \in Files : MarkRemoved(c, f) \/ Reload(c, f)
    \/ \E c \in Clients : Commit(c)
    \/ \E n \in Nodes : CommitRmDel(n)

\* They leave the lock and the evicting clients alone.
LEMMA OthersStep ==
    ASSUME Others
    PROVE  UNCHANGED <<evict_lock, token, evict_record, appVars, pc, rr, sel, rest>>
  BY DEF Others, MarkRemoved, Commit, CommitBarrier, CommitRm, CommitRmDel, Reload, appVars

\* A step is one of a client in its call, of the server that answers it, of
\* the others, or the beginning of a round.
LEMMA NextCases ==
    ASSUME [Next]_vars
    PROVE  \/ NextRound \/ \E c \in Clients : Calls(c) \/ ServeReaddir(c)
           \/ Others \/ UNCHANGED vars
  BY DEF Next, Server, Others

\* Every step leaves the types as they are; what List selects is checked by
\* its own guards, whatever readdir returns.
LEMMA TypePreserved ==
    ASSUME TypeOK, [Next]_vars
    PROVE  TypeOK'
<1> USE DEF TypeOK, Critical, cacheVars, serverVars, appVars, Go
<1>1. CASE NextRound
  <2>1. round + 1 \in 0 .. MaxRounds
    BY <1>1, EvictAssumption DEF NextRound
  <2> QED BY <1>1, <2>1 DEF NextRound
<1>11. ASSUME NEW c \in Clients, NEW m \in Message, Send(c, m) PROVE mq' \in [Clients -> Seq(Message)]
  BY <1>11 DEF Send
<1>12. ASSUME NEW c \in Clients, Announce(c) PROVE TypeOK'
  <2>1. [op |-> "barrier", opt |-> IF c \in who THEN 1 ELSE 0] \in Message
    BY DEF Message
  <2>2. mq' \in [Clients -> Seq(Message)]
    BY <1>11, <1>12, <2>1 DEF Announce
  <2> QED BY <1>12, <2>2 DEF Announce
<1>13. ASSUME NEW c \in Clients, Opendir(c) PROVE TypeOK'
  BY <1>13 DEF Opendir
<1>14. ASSUME NEW c \in Clients, ServeReaddir(c) PROVE TypeOK'
  BY <1>14 DEF ServeReaddir
<1>2. ASSUME NEW c \in Clients, GetLock(c) \/ CasLock(c) PROVE TypeOK'
  BY <1>2 DEF GetLock, CasLock
<1>3. ASSUME NEW c \in Clients, ReadRecord(c) PROVE TypeOK'
  <2>1. Atoi(evict_record) \in Nat
    BY DEF Atoi, Unset
  <2> QED BY <1>3, <2>1 DEF ReadRecord
<1>4. ASSUME NEW c \in Clients, List(c) PROVE TypeOK'
  <2>1. rr[c] + 1 \in Nat /\ {f \in dfs : DirOf[f] = Listing[rr[c] + 1]} \in SUBSET Files
    OBVIOUS
  <2>2. rr' \in [Clients -> Nat] /\ sel' \in [Clients -> Files \cup {Null}]
    <3>1. rr' = rr \/ rr' = [rr EXCEPT ![c] = rr[c] + 1]
      BY <1>4 DEF List
    <3>2. sel' = sel \/ \E f \in Files : sel' = [sel EXCEPT ![c] = f]
      BY <1>4 DEF List
    <3>3. rr' \in [Clients -> Nat]
      BY <2>1, <3>1
    <3>4. sel' \in [Clients -> Files \cup {Null}]
      BY <3>2
    <3> QED BY <3>3, <3>4
  <2>3. rest' \in [Clients -> SUBSET Files]
    <3>1. rest' = rest \/ rest' = [rest EXCEPT ![c] = {f \in dfs : DirOf[f] = Listing[rr[c] + 1]}]
      BY <1>4 DEF List
    <3> QED BY <2>1, <3>1
  <2>4. pc' \in [Clients -> {"idle", "announce", "get", "cas"} \cup Critical]
    <3>1. \E step \in {"put", "stat", "visit"} : pc' = [pc EXCEPT ![c] = step]
      BY <1>4 DEF List
    <3> QED BY <3>1
  <2> QED BY <1>4, <2>2, <2>3, <2>4 DEF List
<1>5. ASSUME NEW c \in Clients, Stat(c) \/ TestEntryExist(c) PROVE TypeOK'
  BY <1>5 DEF Stat, TestEntryExist
<1>6. ASSUME NEW c \in Clients, DelFile(c) \/ DelInDir(c) PROVE TypeOK'
  <2>2. kv' \in [Files -> {"none", "live", "rm"}]
    BY <1>6 DEF DelFile, DelInDir
  <2>3. pc' \in [Clients -> {"idle", "announce", "get", "cas"} \cup Critical]
    <3>1. \E step \in {"put", "idle", "visit"} : pc' = [pc EXCEPT ![c] = step]
      BY <1>6 DEF DelFile, DelInDir
    <3> QED BY <3>1
  <2>4. sel' \in [Clients -> Files \cup {Null}]
    BY <1>6 DEF DelFile, DelInDir
  <2> QED BY <1>6, <2>2, <2>3, <2>4 DEF DelFile, DelInDir
<1>7. ASSUME NEW c \in Clients, VisitDir(c) PROVE TypeOK'
  <2>1. pc' \in [Clients -> {"idle", "announce", "get", "cas"} \cup Critical]
    BY <1>7 DEF VisitDir
  <2>2. sel' \in [Clients -> Files \cup {Null}] /\ rest' \in [Clients -> SUBSET Files]
    <3>1. CASE \E f \in rest[c] : /\ sel' = [sel EXCEPT ![c] = f]
                                 /\ rest' = [rest EXCEPT ![c] = rest[c] \ {f}]
      BY <3>1
    <3>2. CASE UNCHANGED <<sel, rest>>
      BY <3>2
    <3> QED BY <1>7, <3>1, <3>2 DEF VisitDir
  <2> QED BY <1>7, <2>1, <2>2 DEF VisitDir
<1>8. ASSUME NEW c \in Clients, PutRecord(c) PROVE TypeOK'
  <2>1. rr[c] \in Nat
    OBVIOUS
  <2>2. pc' \in [Clients -> {"idle", "announce", "get", "cas"} \cup Critical]
    BY <1>8 DEF PutRecord
  <2> QED BY <1>8, <2>1, <2>2 DEF PutRecord
<1>15. ASSUME NEW c \in Clients, FreeLock(c) PROVE TypeOK'
  <2>1. pc' \in [Clients -> {"idle", "announce", "get", "cas"} \cup Critical]
    BY <1>15 DEF FreeLock
  <2>2. sel' \in [Clients -> Files \cup {Null}]
    BY <1>15 DEF FreeLock
  <2> QED BY <1>15, <2>1, <2>2 DEF FreeLock
<1>9. CASE Others
  <2>1. ASSUME NEW c \in Clients, NEW f \in Files, MarkRemoved(c, f) PROVE TypeOK'
    <3>1. [op |-> "rm", file |-> f] \in Message
      BY DEF Message
    <3>2. mq' \in [Clients -> Seq(Message)]
      BY <1>11, <2>1, <3>1 DEF MarkRemoved
    <3> QED BY <2>1, <3>2 DEF MarkRemoved
  <2>2. ASSUME NEW c \in Clients, NEW f \in Files, Reload(c, f) PROVE TypeOK'
    BY <2>2 DEF Reload
  <2>3. ASSUME NEW c \in Clients, Commit(c) PROVE TypeOK'
    <3>1. PICK m \in Message : CommitBarrier(c, m) \/ CommitRm(c, m)
      BY <2>3 DEF Commit
    <3>2. mq' \in [Clients -> Seq(Message)]
      <4>1. mq[c] \in Seq(Message) /\ mq[c] # <<>> /\ mq' = [mq EXCEPT ![c] = Tail(mq[c])]
        BY <3>1 DEF CommitBarrier, CommitRm, Takes
      <4>2. Tail(mq[c]) \in Seq(Message)
        BY <4>1
      <4> QED BY <4>1, <4>2
    <3>3. NodeOf[c] \in Nodes
      BY EvictAssumption
    <3>4. CASE CommitBarrier(c, m)
      <4>1. m.opt \in {0, 1}
        BY <3>4 DEF CommitBarrier, Message
      <4> QED BY <3>2, <3>4, <4>1 DEF CommitBarrier
    <3>5. CASE CommitRm(c, m)
      <4>1. m.file \in Files
        BY <3>5 DEF CommitRm, Message
      <4>2. gone' \in [Nodes -> Files \cup {Null, Retry}] /\ dfs' \in SUBSET Files
        BY <3>3, <3>5, <4>1 DEF CommitRm
      <4> QED BY <3>2, <3>5, <4>2 DEF CommitRm
    <3> QED BY <3>1, <3>4, <3>5
  <2>4. ASSUME NEW n \in Nodes, CommitRmDel(n) PROVE TypeOK'
    BY <2>4 DEF CommitRmDel
  <2> QED BY <1>9, <2>1, <2>2, <2>3, <2>4 DEF Others
<1>10. CASE UNCHANGED vars
  BY <1>10 DEF vars
<1> QED
  BY <1>1, <1>2, <1>3, <1>4, <1>5, <1>6, <1>7, <1>8, <1>9, <1>10, <1>12, <1>13, <1>14, <1>15,
     NextCases
  DEF Calls, Evict

\* What a step of client c does to its program counter and to the lock.
LEMMA PcStep ==
    ASSUME TypeOK, NEW c \in Clients, Calls(c) \/ ServeReaddir(c)
    PROVE  /\ \A d \in Clients : d # c => pc'[d] = pc[d] /\ rr'[d] = rr[d]
           /\ \/ ~ Holds(c) /\ ~ Holds(c)' /\ evict_lock' = evict_lock
                 /\ evict_record' = evict_record
                 /\ (token' = token \/ evict_lock = "0")
                 /\ pc'[c] \notin {"opendir", "request", "list"}
              \/ /\ CasLock(c) /\ c \in token /\ token' = {} /\ evict_lock' = "1"
                 /\ evict_record' = evict_record /\ pc'[c] = "record"
              \/ Holds(c) /\ Holds(c)' /\ evict_lock' = evict_lock /\ token' = token
              \/ /\ Holds(c) /\ ~ Holds(c)' /\ evict_record' = evict_record
                 /\ \/ evict_lock' = evict_lock /\ token' = token
                    \/ evict_lock' = "0" /\ token' = {}
<1> USE DEF TypeOK, Critical, Go, Holds
<1>1. CASE Announce(c) \/ ServeReaddir(c)
  BY <1>1 DEF Announce, ServeReaddir
<1>2. CASE GetLock(c) \/ CasLock(c)
  BY <1>2 DEF GetLock, CasLock
<1>3. CASE ReadRecord(c) \/ Opendir(c) \/ Stat(c) \/ TestEntryExist(c) \/ DelInDir(c) \/ PutRecord(c)
  BY <1>3 DEF ReadRecord, Opendir, Stat, TestEntryExist, DelInDir, PutRecord
<1>4. CASE List(c)
  BY <1>4 DEF List
<1>5. CASE VisitDir(c) \/ DelFile(c) \/ FreeLock(c)
  BY <1>5 DEF VisitDir, DelFile, FreeLock
<1> QED BY <1>1, <1>2, <1>3, <1>4, <1>5 DEF Calls, Evict

\* A round begins when no client is in the call.
LEMMA RoundStep ==
    ASSUME NextRound
    PROVE  /\ \A c \in Clients : ~ Holds(c) /\ ~ Holds(c)' /\ pc'[c] = "announce"
           /\ UNCHANGED <<evict_lock, token, evict_record>>
  BY DEF NextRound, Holds, Critical

\* Only the client whose cas value is current enters, and only from a free lock.
LEMMA LockPreserved ==
    ASSUME TypeOK, LockInv, [Next]_vars
    PROVE  LockInv'
<1>1. ASSUME NEW c \in Clients, Calls(c) \/ ServeReaddir(c) PROVE LockInv'
  <2>1. \A d \in Clients : d # c => (Holds(d)' <=> Holds(d))
    BY <1>1, PcStep DEF Holds
  <2>2. CASE ~ Holds(c) /\ ~ Holds(c)' /\ evict_lock' = evict_lock /\ (token' = token \/ evict_lock = "0")
    BY <2>1, <2>2 DEF LockInv, EvictExclusive
  <2>3. CASE c \in token /\ token' = {} /\ evict_lock' = "1"
    <3>1. \A d \in Clients : ~ Holds(d)
      BY <2>3 DEF LockInv
    <3> QED BY <2>1, <2>3, <3>1 DEF LockInv, EvictExclusive
  <2>4. CASE Holds(c) /\ evict_lock' = evict_lock /\ token' = token
    BY <2>1, <2>4 DEF LockInv, EvictExclusive
  <2>5. CASE Holds(c) /\ ~ Holds(c)' /\ evict_lock' = "0" /\ token' = {}
    <3>1. \A d \in Clients : ~ Holds(d)'
      BY <2>1, <2>5 DEF LockInv, EvictExclusive
    <3> QED BY <2>5, <3>1 DEF LockInv, EvictExclusive
  <2> QED BY <1>1, <2>2, <2>3, <2>4, <2>5, PcStep
<1>2. CASE Others
  BY <1>2, OthersStep DEF LockInv, EvictExclusive, Holds
<1>3. CASE UNCHANGED vars
  BY <1>3 DEF vars, LockInv, EvictExclusive, Holds
<1>4. CASE NextRound
  BY <1>4, RoundStep DEF LockInv, EvictExclusive
<1> QED BY <1>1, <1>2, <1>3, <1>4, NextCases

\* The client that stores a record stores the one it read, or the next.
LEMMA RecordWritten ==
    ASSUME TypeOK, RecordInv, NEW c \in Clients, PutRecord(c)
    PROVE  /\ Atoi(evict_record') \in {Atoi(evict_record), Atoi(evict_record) + 1}
           /\ pc'[c] = "free"
<1>1. rr[c] \in Nat /\ evict_record' = rr[c] /\ pc[c] = "put" /\ pc'[c] = "free"
  BY DEF PutRecord, TypeOK, Go
<1>2. Atoi(rr[c]) = rr[c]
  BY <1>1 DEF Atoi, Unset
<1> QED BY <1>1, <1>2 DEF RecordInv

\* No other step stores a record.
LEMMA RecordKept ==
    ASSUME [Next]_vars, \A c \in Clients : ~ PutRecord(c)
    PROVE  evict_record' = evict_record
<1>1. ASSUME NEW c \in Clients, Calls(c) \/ ServeReaddir(c) PROVE evict_record' = evict_record
  BY <1>1 DEF Calls, Announce, ServeReaddir, Evict, GetLock, CasLock, ReadRecord, Opendir, List,
              Stat, TestEntryExist, DelFile, VisitDir, DelInDir, FreeLock
<1>2. CASE UNCHANGED vars
  BY <1>2 DEF vars
<1> QED BY <1>1, <1>2, OthersStep, RoundStep, NextCases

\* The copies stay in step: while a client works on its copy nobody else stores.
LEMMA RecordPreserved ==
    ASSUME TypeOK, LockInv, RecordInv, [Next]_vars
    PROVE  RecordInv'
<1>1. ASSUME NEW c \in Clients, PutRecord(c) PROVE RecordInv'
  <2>1. Holds(c) /\ pc'[c] = "free"
    BY <1>1, RecordWritten DEF PutRecord, Holds, Critical
  <2>2. \A d \in Clients : d # c => ~ Holds(d) /\ pc'[d] = pc[d]
    BY <1>1, <2>1, PcStep DEF LockInv, EvictExclusive, Calls, Evict
  <2>3. \A d \in Clients : ~ (pc'[d] \in ({"opendir", "request", "list"} \cup
            {"stat", "test", "del", "visit", "dtest", "ddel", "put"}))
    BY <2>1, <2>2 DEF Holds, Critical
  <2> QED BY <2>3 DEF RecordInv
<1>2. ASSUME NEW c \in Clients, Calls(c) \/ ServeReaddir(c), evict_record' = evict_record PROVE RecordInv'
  <2>1. \A d \in Clients : d # c => pc'[d] = pc[d] /\ rr'[d] = rr[d]
    BY <1>2, PcStep
  <2>2. /\ pc'[c] \in {"opendir", "request", "list"} => rr'[c] = Atoi(evict_record)
        /\ pc'[c] \in {"stat", "test", "del", "visit", "dtest", "ddel", "put"} =>
              rr'[c] \in {Atoi(evict_record), Atoi(evict_record) + 1}
    <3> USE DEF TypeOK, Go
    <3>1. CASE Announce(c) \/ GetLock(c) \/ CasLock(c) \/ ReadRecord(c) \/ PutRecord(c) \/ FreeLock(c)
      BY <3>1 DEF Announce, GetLock, CasLock, ReadRecord, PutRecord, FreeLock
    <3>2. CASE List(c)
      <4>1. /\ pc[c] = "list" /\ rr[c] = Atoi(evict_record)
            /\ pc'[c] \notin {"opendir", "request", "list"}
        BY <3>2 DEF List, RecordInv
      <4>2. rr'[c] = rr[c] \/ rr'[c] = rr[c] + 1
        BY <3>2 DEF List
      <4> QED BY <4>1, <4>2
    <3>3. CASE Stat(c) \/ TestEntryExist(c) \/ DelFile(c) \/ VisitDir(c) \/ DelInDir(c)
      <4>1. /\ rr' = rr /\ pc'[c] \notin {"opendir", "request", "list"}
            /\ pc[c] \in {"stat", "test", "del", "visit", "dtest", "ddel", "put"}
        BY <3>3 DEF Stat, TestEntryExist, DelFile, VisitDir, DelInDir
      <4> QED BY <4>1 DEF RecordInv
    <3>4. CASE Opendir(c) \/ ServeReaddir(c)
      <4>1. rr' = rr /\ pc[c] \in {"opendir", "request"} /\ pc'[c] \in {"request", "list"}
        BY <3>4 DEF Opendir, ServeReaddir
      <4> QED BY <4>1 DEF RecordInv
    <3> QED BY <1>2, <3>1, <3>2, <3>3, <3>4 DEF Calls, Evict
  <2> QED BY <1>2, <2>1, <2>2 DEF RecordInv
<1>3. CASE Others
  BY <1>3, OthersStep DEF RecordInv
<1>4. CASE UNCHANGED vars
  BY <1>4 DEF vars, RecordInv
<1>5. ASSUME NEW c \in Clients, Calls(c) \/ ServeReaddir(c) PROVE RecordInv'
  <2>1. CASE \A d \in Clients : ~ PutRecord(d)
    <3>1. evict_record' = evict_record
      BY <1>5, <2>1, RecordKept DEF Next, Server
    <3> QED BY <1>2, <1>5, <3>1
  <2> QED BY <1>1, <2>1
<1>6. CASE NextRound
  BY <1>6, RoundStep DEF RecordInv
<1> QED BY <1>3, <1>4, <1>5, <1>6, NextCases

\* The lock of init_pacon and the cas loop are the whole of what the
\* exclusion of evictions rests on.
THEOREM EvictInductive == Spec => []EvictInv
<1>1. Init => EvictInv
  <2> SUFFICES ASSUME Init PROVE EvictInv
    OBVIOUS
  <2>1. TypeOK
    BY EvictAssumption DEF Init, TypeOK, Critical
  <2>2. LockInv /\ RecordInv
    BY DEF Init, LockInv, RecordInv, EvictExclusive, Holds, Critical
  <2> QED BY <2>1, <2>2 DEF EvictInv
<1>2. EvictInv /\ [Next]_vars => EvictInv'
  BY TypePreserved, LockPreserved, RecordPreserved DEF EvictInv
<1> QED BY <1>1, <1>2, PTL DEF Spec

\* Two evictions never overlap, for any number of clients, removals and
\* evictions that fail half-way.
THEOREM Exclusion == Spec => []EvictExclusive
<1>1. EvictInv => EvictExclusive
  BY DEF EvictInv, LockInv
<1> QED BY <1>1, EvictInductive, PTL

\* evict_record moves on by one entry or stays: no eviction overwrites the
\* progress of another one.
THEOREM RecordOrder == Spec => RecordInStep
<1>1. EvictInv /\ [Next]_vars =>
        [evict_record' # evict_record =>
            Atoi(evict_record') \in {Atoi(evict_record), Atoi(evict_record) + 1}]_vars
  BY RecordWritten, RecordKept DEF EvictInv
<1> QED BY <1>1, EvictInductive, PTL DEF Spec, RecordInStep
=============================================================================
