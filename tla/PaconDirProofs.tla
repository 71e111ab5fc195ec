--------------------------- MODULE PaconDirProofs ----------------------------
(***************************************************************************)
(* PaconDir: what an application that follows the notes in pacon.h gets    *)
(* from rmdir and readdir, for every program, cluster and directory tree.  *)
(***************************************************************************)
EXTENDS PaconDirInv, FiniteSetTheorems, SequenceTheorems, TLAPS

-----------------------------------------------------------------------------
(* Paths.                                                                  *)

\* The first k elements of a sequence.
LEMMA PrefixFacts ==
    ASSUME NEW S, NEW s \in Seq(S), NEW k \in 0 .. Len(s)
    PROVE  /\ SubSeq(s, 1, k) \in Seq(S) /\ Len(SubSeq(s, 1, k)) = k
           /\ \A i \in 1 .. k : SubSeq(s, 1, k)[i] = s[i]
  <1>1. k \in Nat /\ Len(s) \in Nat /\ k <= Len(s)
    OBVIOUS
  <1> QED
    BY <1>1, SubSeqProperties

\* A path lies within another one if it agrees with it as far as that goes.
LEMMA WithinIndex ==
    ASSUME NEW p \in Paths, NEW q \in Paths
    PROVE  Within(p, q) <=> Len(q) <= Len(p) /\ \A i \in 1 .. Len(q) : q[i] = p[i]
  <1>1. p \in Seq(STRING) /\ q \in Seq(STRING)
    BY ConstantsAssumption
  <1>2. SubSeq(q, 1, Len(q)) = q
    BY <1>1
  <1>3. CASE Len(q) <= Len(p)
    <2>1. SubSeq(p, 1, Len(q)) \in Seq(STRING) /\ Len(SubSeq(p, 1, Len(q))) = Len(q)
          /\ \A i \in 1 .. Len(q) : SubSeq(p, 1, Len(q))[i] = p[i]
      BY <1>1, <1>3
    <2>2. (q = SubSeq(p, 1, Len(q))) <=> \A i \in 1 .. Len(q) : q[i] = SubSeq(p, 1, Len(q))[i]
      BY <1>1, <2>1
    <2> QED
      BY <1>2, <1>3, <2>1, <2>2 DEF Within, IsPrefix
  <1> QED
    BY <1>3 DEF Within, IsPrefix

\* A path has a parent, which it lies in and which does not lie in it.
LEMMA FrontFacts ==
    ASSUME NEW p \in Paths \ {Root}
    PROVE  /\ Front(p) \in Paths /\ Len(Front(p)) = Len(p) - 1 /\ Len(p) \in Nat \ {0}
           /\ \A i \in 1 .. Len(p) - 1 : Front(p)[i] = p[i]
  <1>1. p \in Seq(STRING) /\ Len(p) \in Nat /\ Len(p) # 0
    BY ConstantsAssumption DEF Root
  <1>2. Front(p) = SubSeq(p, 1, Len(p) - 1)
    BY DEF Front
  <1>3. Len(p) - 1 \in 0 .. Len(p)
    BY <1>1
  <1>4. Front(p) \in Paths
    BY <1>2, <1>3, ConstantsAssumption
  <1>5. Len(Front(p)) = Len(p) - 1 /\ \A i \in 1 .. Len(p) - 1 : Front(p)[i] = p[i]
    <2>1. \A k \in 0 .. Len(p) : /\ Len(SubSeq(p, 1, k)) = k
                                 /\ \A i \in 1 .. k : SubSeq(p, 1, k)[i] = p[i]
      BY <1>1, PrefixFacts
    <2> QED
      BY <1>2, <1>3, <2>1
  <1> QED
    BY <1>1, <1>4, <1>5

\* Within is an order on the paths.
LEMMA WithinOrder ==
    ASSUME NEW p \in Paths, NEW q \in Paths, NEW r \in Paths
    PROVE  /\ Within(p, p)
           /\ Within(p, q) /\ Within(q, r) => Within(p, r)
           /\ Within(p, q) /\ Within(q, p) => p = q
           /\ Within(r, p) /\ Within(r, q) => Within(p, q) \/ Within(q, p)
  <1>1. p \in Seq(STRING) /\ q \in Seq(STRING) /\ r \in Seq(STRING)
    BY ConstantsAssumption
  <1>2. Len(p) \in Nat /\ Len(q) \in Nat /\ Len(r) \in Nat
    BY <1>1
  <1>3. Within(p, q) /\ Within(q, r) => Within(p, r)
    BY <1>2, WithinIndex
  <1>4. Within(p, q) /\ Within(q, p) => p = q
    <2> SUFFICES ASSUME Within(p, q), Within(q, p) PROVE p = q
      OBVIOUS
    <2>1. Len(p) = Len(q) /\ \A i \in 1 .. Len(q) : q[i] = p[i]
      BY <1>2, WithinIndex
    <2> QED
      BY <1>1, <2>1
  <1>5. Within(r, p) /\ Within(r, q) => Within(p, q) \/ Within(q, p)
    BY <1>2, WithinIndex
  <1> QED
    BY <1>2, <1>3, <1>4, <1>5, WithinIndex

\* The order and the parent.
LEMMA WithinFront ==
    ASSUME NEW p \in Paths \ {Root}, NEW q \in Paths
    PROVE  /\ Front(p) \in Paths
           /\ Within(p, Front(p)) /\ ~Within(Front(p), p) /\ p # Front(p)
           /\ Within(p, q) /\ p # q => Within(Front(p), q)
           /\ Within(Front(p), q) => Within(p, q)
  <1>1. p \in Seq(STRING) /\ q \in Seq(STRING) /\ Len(q) \in Nat
    BY ConstantsAssumption
  <1>2. /\ Front(p) \in Paths /\ Len(Front(p)) = Len(p) - 1 /\ Len(p) \in Nat \ {0}
        /\ \A i \in 1 .. Len(p) - 1 : Front(p)[i] = p[i]
    BY FrontFacts
  <1>3. Within(p, Front(p)) /\ ~Within(Front(p), p) /\ p # Front(p)
    <2>1. Within(p, Front(p))
      BY <1>2, WithinIndex
    <2>2. ~Within(Front(p), p)
      <3>1. ~(Len(p) <= Len(Front(p)))
        BY <1>2
      <3> QED
        BY <1>2, <3>1, WithinIndex
    <2> QED
      BY <2>1, <2>2
  <1>4. ASSUME Within(p, q), p # q PROVE Within(Front(p), q)
    <2>1. Len(q) <= Len(p) /\ \A i \in 1 .. Len(q) : q[i] = p[i]
      BY <1>4, WithinIndex
    <2>2. Len(q) # Len(p)
      BY <1>1, <1>4, <2>1
    <2> QED
      BY <1>1, <1>2, <2>1, <2>2, WithinIndex
  <1>5. Within(Front(p), q) => Within(p, q)
    BY <1>2, <1>3, WithinOrder
  <1> QED
    BY <1>2, <1>3, <1>4, <1>5

\* Two entries of a directory that hold the same path are one.
LEMMA SameEntry ==
    ASSUME NEW p \in Paths, NEW q \in Paths \ {Root}, NEW r \in Paths \ {Root},
           Within(p, q), Within(p, r), Front(q) = Front(r)
    PROVE  q = r
  <1>1. q \in Seq(STRING) /\ r \in Seq(STRING)
    BY ConstantsAssumption
  <1>2. Len(q) = Len(r) /\ Len(q) \in Nat
    BY FrontFacts
  <1>3. \A i \in 1 .. Len(q) : q[i] = r[i]
    BY <1>2, WithinIndex
  <1> QED
    BY <1>1, <1>2, <1>3

\* What lies below a directory lies within one of its entries.
LEMMA EntryTowards ==
    ASSUME NEW p \in Paths, NEW q \in Paths, Within(p, q), p # q
    PROVE  \E r \in Paths \ {Root} : Front(r) = q /\ Within(p, r)
  <1> DEFINE r == SubSeq(p, 1, Len(q) + 1)
  <1>1. p \in Seq(STRING) /\ q \in Seq(STRING) /\ Len(q) \in Nat /\ Len(p) \in Nat
    BY ConstantsAssumption
  <1>2. Len(q) <= Len(p) /\ \A i \in 1 .. Len(q) : q[i] = p[i]
    BY WithinIndex
  <1>3. Len(q) + 1 \in 0 .. Len(p)
    BY <1>1, <1>2
  <1>4. r \in Paths
    BY <1>3, ConstantsAssumption
  <1>5. r \in Seq(STRING) /\ Len(r) = Len(q) + 1 /\ \A i \in 1 .. Len(q) + 1 : r[i] = p[i]
    BY <1>1, <1>3, PrefixFacts
  <1> HIDE DEF r
  <1>6. r # Root
    BY <1>1, <1>5 DEF Root
  <1>7. Front(r) \in Paths /\ Len(Front(r)) = Len(r) - 1
        /\ \A i \in 1 .. Len(r) - 1 : Front(r)[i] = r[i]
    BY <1>4, <1>6, FrontFacts
  <1>8. Front(r) = q
    <2>1. Front(r) \in Seq(STRING)
      BY <1>7, ConstantsAssumption
    <2>2. Len(Front(r)) = Len(q) /\ \A i \in 1 .. Len(q) : Front(r)[i] = q[i]
      BY <1>1, <1>2, <1>5, <1>7
    <2> QED
      BY <1>1, <2>1, <2>2
  <1>9. Within(p, r)
    BY <1>1, <1>3, <1>4, <1>5, WithinIndex
  <1> QED
    BY <1>4, <1>6, <1>8, <1>9
-----------------------------------------------------------------------------
(* Calls, messages, frames.                                                *)

\* The fields of a call.
LEMMA CallFields ==
    ASSUME NEW x \in CallType
    PROVE  /\ x.op \in {"mkdir", "create", "clean", "sync", "barrier"} \cup BarrierOps
           /\ x.op \in {"mkdir", "create"} => x.path \in Paths \ {Root}
           /\ x.op \in BarrierOps => x.path \in Paths
           /\ x.op = "barrier" => x.opt \in Nat
  BY DEF CallType, BarrierOps

\* The fields of a message.
LEMMA MsgFields ==
    ASSUME NEW x \in MsgType
    PROVE  /\ x.op \in {"dir", "file", "barrier"} /\ x.id \in Nat
           /\ x.op # "barrier" => x.path \in Paths \ {Root}
           /\ x.op = "barrier" => x.opt \in Nat
  BY DEF MsgType

\* The next call of a client.
LEMMA NextCall ==
    ASSUME DirTypes, NEW c \in Clients, todo[c] # <<>>
    PROVE  /\ todo[c] \in Seq(CallType) /\ Len(todo[c]) \in Nat \ {0}
           /\ 1 \in DOMAIN todo[c] /\ Call(c) = todo[c][1] /\ Call(c) \in CallType
  <1>1. todo[c] \in Seq(CallType)
    BY DEF DirTypes
  <1>2. Len(todo[c]) \in Nat \ {0}
    BY <1>1
  <1> QED
    BY <1>1, <1>2 DEF Call

\* The first message of a queue.
LEMMA FirstMsg ==
    ASSUME DirTypes, NEW c \in Clients, mq[c] # <<>>
    PROVE  /\ mq[c] \in Seq(MsgType) /\ Len(mq[c]) \in Nat \ {0}
           /\ 1 \in DOMAIN mq[c] /\ Head(mq[c]) = mq[c][1] /\ Head(mq[c]) \in MsgType
  <1>1. mq[c] \in Seq(MsgType)
    BY DEF DirTypes
  <1> QED
    BY <1>1

\* The call that an RPC thread serves.
LEMMA ServedCall ==
    ASSUME DirTypes, RpcInv, NEW n \in Nodes, rpc[n].step # "recv"
    PROVE  /\ rpc[n].client \in Clients /\ NodeOf[rpc[n].client] = n
           /\ pc[rpc[n].client] = "request" /\ todo[rpc[n].client] # <<>>
           /\ Served(n) \in CallType /\ Served(n).op \in BarrierOps /\ Served(n).path \in Paths
           /\ Served(n) = todo[rpc[n].client][1] /\ Served(n) = Call(rpc[n].client)
  <1>1. rpc[n].client \in Clients /\ pc[rpc[n].client] = "request" /\ NodeOf[rpc[n].client] = n
    BY DEF RpcInv
  <1>2. todo[rpc[n].client] # <<>> /\ Call(rpc[n].client).op \in BarrierOps
    BY <1>1 DEF RpcInv
  <1> QED
    BY <1>1, <1>2, NextCall, CallFields DEF Served

\* A frame of a directory.
LEMMA FrameFacts ==
    ASSUME DirTypes, NEW p \in Paths
    PROVE  /\ Frame(p) \in FrameType /\ Frame(p).dir = p
           /\ Frame(p).left = Children(p, dfs) /\ Children(p, dfs) \in SUBSET Paths
           /\ \A q \in Paths : q \in Frame(p).left <=> q # Root /\ Front(q) = p /\ dfs[q] # "none"
  BY DEF Frame, FrameType, Children

\* A sequence without its last element.
LEMMA FrontSeq ==
    ASSUME NEW S, NEW s \in Seq(S), s # <<>>
    PROVE  /\ Len(s) \in Nat \ {0} /\ Front(s) \in Seq(S) /\ Len(Front(s)) = Len(s) - 1
           /\ \A i \in 1 .. Len(s) - 1 : Front(s)[i] = s[i]
           /\ Last(s) = s[Len(s)] /\ Last(s) \in S
  <1>1. Len(s) \in Nat \ {0}
    BY EmptySeq
  <1>2. Len(s) - 1 \in 0 .. Len(s)
    BY <1>1
  <1>3. \A k \in 0 .. Len(s) : /\ SubSeq(s, 1, k) \in Seq(S) /\ Len(SubSeq(s, 1, k)) = k
                               /\ \A i \in 1 .. k : SubSeq(s, 1, k)[i] = s[i]
    BY PrefixFacts
  <1>4. Len(s) \in 1 .. Len(s)
    BY <1>1
  <1> QED
    BY <1>1, <1>2, <1>3, <1>4, ElementOfSeq DEF Front, Last

-----------------------------------------------------------------------------
(* The cache.                                                              *)

CacheType == Kind \cup {"ldir"}

\* The cache new holds what kv holds and may hold paths of S from the DFS.
Loads(new, S) ==
    /\ new \in [Paths -> CacheType]
    /\ \A x \in Paths :
          IF kv[x] # "none" THEN Type(new[x]) = Type(kv[x])
          ELSE new[x] = "none" \/ (x \in S /\ Type(new[x]) = dfs[x])

\* The type of an entry.
LEMMA TypeFacts ==
    ASSUME NEW k \in CacheType
    PROVE  Type(k) \in Kind /\ (Type(k) = "none" <=> k = "none")
  BY DEF CacheType, Kind, Type

-----------------------------------------------------------------------------
(* Rounds.                                                                 *)

\* A call that is not the last of its round leaves the rest of the round.
LEMMA RoundTail ==
    ASSUME DirTypes, NEW c \in Clients, todo[c] # <<>>, Call(c).op # "sync",
           todo' = [todo EXCEPT ![c] = Tail(@)]
    PROVE  /\ todo'[c] \in Seq(CallType) /\ Len(todo'[c]) = Len(todo[c]) - 1
           /\ \A i \in 1 .. Len(todo'[c]) : todo'[c][i] = todo[c][i + 1]
           /\ 1 \in InRound(c)
           /\ \A i \in Nat : i \in InRound(c)' <=> i # 0 /\ i + 1 \in InRound(c)
           /\ \A i \in InRound(c)' : i \in Nat /\ i + 1 \in InRound(c) /\ todo'[c][i] = todo[c][i + 1]
  <1>1. todo[c] \in Seq(CallType) /\ Len(todo[c]) \in Nat \ {0} /\ Call(c) = todo[c][1]
    BY NextCall
  <1>2. todo'[c] = Tail(todo[c])
    BY DEF DirTypes
  <1>3. todo'[c] \in Seq(CallType) /\ Len(todo'[c]) = Len(todo[c]) - 1
        /\ \A i \in 1 .. Len(todo'[c]) : todo'[c][i] = todo[c][i + 1]
    <2>1. /\ Tail(todo[c]) \in Seq(CallType) /\ Len(Tail(todo[c])) = Len(todo[c]) - 1
          /\ \A i \in 1 .. Len(Tail(todo[c])) : Tail(todo[c])[i] = todo[c][i + 1]
      <3> HIDE DEF CallType
      <3> QED
        BY <1>1, HeadTailProperties
    <2> QED
      BY <1>2, <2>1
  <1>4. DOMAIN todo[c] = 1 .. Len(todo[c]) /\ DOMAIN (todo'[c]) = 1 .. Len(todo'[c])
    BY <1>1, <1>3
  <1>5. 1 \in InRound(c)
    BY <1>1, <1>4 DEF InRound
  <1>6. ASSUME NEW i \in Nat PROVE i \in InRound(c)' <=> i # 0 /\ i + 1 \in InRound(c)
    <2>1. ASSUME i \in InRound(c)' PROVE i # 0 /\ i + 1 \in InRound(c)
      <3>1. i \in 1 .. Len(todo'[c]) /\ \A j \in 1 .. i : todo'[c][j].op # "sync"
        BY <1>4, <2>1 DEF InRound
      <3>2. ASSUME NEW j \in 1 .. i + 1 PROVE todo[c][j].op # "sync"
        <4>1. CASE j = 1
          BY <1>1, <4>1
        <4>2. CASE j # 1
          <5>1. j - 1 \in 1 .. i /\ j - 1 \in 1 .. Len(todo'[c])
            BY <1>1, <1>3, <3>1, <4>2
          <5>2. todo'[c][j - 1] = todo[c][(j - 1) + 1] /\ (j - 1) + 1 = j
            BY <1>3, <5>1
          <5> QED
            BY <3>1, <5>1, <5>2
        <4> QED
          BY <4>1, <4>2
      <3> QED
        BY <1>1, <1>3, <1>4, <3>1, <3>2 DEF InRound
    <2>2. ASSUME i # 0, i + 1 \in InRound(c) PROVE i \in InRound(c)'
      <3>1. i + 1 \in 1 .. Len(todo[c]) /\ \A j \in 1 .. i + 1 : todo[c][j].op # "sync"
        BY <1>4, <2>2 DEF InRound
      <3>2. i \in 1 .. Len(todo'[c])
        BY <1>1, <1>3, <2>2, <3>1
      <3>3. ASSUME NEW j \in 1 .. i PROVE todo'[c][j].op # "sync"
        BY <1>3, <3>1, <3>2
      <3> QED
        BY <1>4, <3>2, <3>3 DEF InRound
    <2> QED
      BY <2>1, <2>2
  <1>7. ASSUME NEW i \in InRound(c)'
        PROVE  i \in Nat /\ i + 1 \in InRound(c) /\ todo'[c][i] = todo[c][i + 1]
    <2>1. i \in 1 .. Len(todo'[c])
      BY <1>4 DEF InRound
    <2> QED
      BY <1>1, <1>3, <1>6, <2>1
  <1> QED
    BY <1>3, <1>5, <1>6, <1>7

\* ... and the barrier, unless it is the call.
LEMMA AheadTail ==
    ASSUME DirTypes, NEW c \in Clients, todo[c] # <<>>, Call(c).op # "sync",
           todo' = [todo EXCEPT ![c] = Tail(@)]
    PROVE  BarrierAhead(c) <=> Call(c).op = "barrier" \/ BarrierAhead(c)'
  <1>1. Call(c) = todo[c][1] /\ todo[c] \in Seq(CallType)
    BY NextCall
  <1>2. 1 \in InRound(c)
        /\ (\A i \in Nat : i \in InRound(c)' <=> i # 0 /\ i + 1 \in InRound(c))
        /\ \A i \in InRound(c)' : i \in Nat /\ i + 1 \in InRound(c) /\ todo'[c][i] = todo[c][i + 1]
    BY RoundTail
  <1>3. ASSUME BarrierAhead(c), Call(c).op # "barrier" PROVE BarrierAhead(c)'
    <2>1. PICK i \in InRound(c) : todo[c][i].op = "barrier"
      BY <1>3 DEF BarrierAhead
    <2>2. i \in Nat /\ i # 0 /\ i # 1
      BY <1>1, <1>3, <2>1 DEF InRound
    <2>3. i - 1 \in Nat /\ i - 1 # 0 /\ (i - 1) + 1 = i
      BY <2>2
    <2>4. i - 1 \in InRound(c)'
      BY <1>2, <2>1, <2>3
    <2>5. todo'[c][i - 1] = todo[c][i]
      BY <1>2, <2>3, <2>4
    <2> QED
      BY <2>1, <2>4, <2>5 DEF BarrierAhead
  <1>4. BarrierAhead(c)' => BarrierAhead(c)
    BY <1>2 DEF BarrierAhead
  <1>5. Call(c).op = "barrier" => BarrierAhead(c)
    BY <1>1, <1>2 DEF BarrierAhead
  <1> QED
    BY <1>3, <1>4, <1>5

\* ... and what is owed, if the call is none of the operations or has ended.
LEMMA OwedTail ==
    ASSUME DirTypes, NEW c \in Clients, todo[c] # <<>>, Call(c).op # "sync",
           todo' = [todo EXCEPT ![c] = Tail(@)],
           pc[c] = "reply" \/ Call(c).op \notin BarrierOps, pc'[c] = "idle"
    PROVE  Owed(c)' = Owed(c)
  <1>1. todo[c] \in Seq(CallType) /\ Len(todo[c]) \in Nat \ {0} /\ Call(c) = todo[c][1]
    BY NextCall
  <1>2. /\ Len(todo'[c]) = Len(todo[c]) - 1
        /\ \A i \in Nat : i \in InRound(c)' <=> i # 0 /\ i + 1 \in InRound(c)
        /\ \A i \in InRound(c)' : i \in Nat /\ i + 1 \in InRound(c) /\ todo'[c][i] = todo[c][i + 1]
    BY RoundTail
  <1>3. ASSUME NEW k, k \in Owed(c)' PROVE k \in Owed(c)
    <2>1. /\ k \in 1 .. Len(todo'[c]) /\ Len(todo'[c]) + 1 - k \in InRound(c)'
          /\ todo'[c][Len(todo'[c]) + 1 - k].op \in BarrierOps
      BY <1>3 DEF Owed
    <2> DEFINE i == Len(todo'[c]) + 1 - k
    <2>2. i \in Nat /\ i # 0 /\ i + 1 = Len(todo[c]) + 1 - k /\ k \in 1 .. Len(todo[c])
      <3>1. /\ Len(todo[c]) \in Nat /\ Len(todo'[c]) = Len(todo[c]) - 1
            /\ k \in 1 .. Len(todo'[c])
        BY <1>1, <1>2, <2>1
      <3> QED
        BY <3>1
    <2>3. i + 1 \in InRound(c) /\ todo'[c][i] = todo[c][i + 1] /\ i + 1 # 1
      <3>1. i + 1 \in InRound(c) /\ todo'[c][i] = todo[c][i + 1]
        BY <1>2, <2>1, Zenon
      <3> QED
        BY <2>2, <3>1
    <2> QED
      BY <2>1, <2>2, <2>3 DEF Owed
  <1>4. ASSUME NEW k, k \in Owed(c) PROVE k \in Owed(c)'
    <2> DEFINE i == Len(todo[c]) + 1 - k
    <2>1. /\ k \in 1 .. Len(todo[c]) /\ i \in InRound(c) /\ todo[c][i].op \in BarrierOps
          /\ ~(i = 1 /\ pc[c] = "reply")
      BY <1>4 DEF Owed
    <2>2. i # 1 /\ i \in Nat /\ i # 0
      BY <1>1, <2>1
    <2>3. i - 1 \in Nat /\ i - 1 # 0 /\ (i - 1) + 1 = i /\ i - 1 = Len(todo'[c]) + 1 - k
          /\ k \in 1 .. Len(todo'[c])
      BY <1>1, <1>2, <2>1, <2>2
    <2>4. i - 1 \in InRound(c)'
      BY <1>2, <2>1, <2>3
    <2>5. todo'[c][i - 1] = todo[c][i]
      BY <1>2, <2>3, <2>4
    <2> QED
      BY <2>1, <2>3, <2>4, <2>5 DEF Owed
  <1> QED
    BY <1>3, <1>4

\* The end of an operation: one less is owed.
LEMMA OwedEnd ==
    ASSUME DirTypes, NEW c \in Clients, todo[c] # <<>>, Call(c).op \in BarrierOps,
           pc[c] # "reply"
    PROVE  /\ Len(todo[c]) \in Owed(c) /\ 1 \in InRound(c)
           /\ todo'[c] = todo[c] /\ pc'[c] = "reply" => Owed(c)' = Owed(c) \ {Len(todo[c])}
  <1>1. todo[c] \in Seq(CallType) /\ Len(todo[c]) \in Nat \ {0} /\ Call(c) = todo[c][1]
        /\ DOMAIN todo[c] = 1 .. Len(todo[c])
    BY NextCall, LenProperties
  <1>2. Len(todo[c]) + 1 - Len(todo[c]) = 1 /\ Len(todo[c]) \in 1 .. Len(todo[c])
    BY <1>1
  <1>3. 1 \in InRound(c)
    BY <1>1 DEF InRound, BarrierOps
  <1>4. Len(todo[c]) \in Owed(c)
    BY <1>1, <1>2, <1>3 DEF Owed
  <1>5. ASSUME todo'[c] = todo[c], pc'[c] = "reply"
        PROVE  Owed(c)' = Owed(c) \ {Len(todo[c])}
    <2>1. InRound(c)' = InRound(c)
      BY <1>5 DEF InRound
    <2>2. \A k \in 1 .. Len(todo[c]) : Len(todo[c]) + 1 - k = 1 <=> k = Len(todo[c])
      BY <1>1
    <2> QED
      BY <1>5, <2>1, <2>2 DEF Owed
  <1> QED
    BY <1>3, <1>4, <1>5

\* What is owed is a finite set of numbers.
LEMMA OwedFinite ==
    ASSUME DirTypes, NEW c \in Clients
    PROVE  IsFiniteSet(Owed(c)) /\ Owed(c) \subseteq Nat /\ Cardinality(Owed(c)) \in Nat
           /\ (Cardinality(Owed(c)) = 0 <=> Owed(c) = {})
  <1>1. Len(todo[c]) \in Nat
    BY DEF DirTypes
  <1>2. Owed(c) \subseteq 1 .. Len(todo[c])
    BY DEF Owed
  <1>3. IsFiniteSet(1 .. Len(todo[c]))
    BY <1>1, FS_Interval
  <1>4. IsFiniteSet(Owed(c))
    BY <1>2, <1>3, FS_Subset
  <1> QED
    BY <1>1, <1>2, <1>4, FS_CardinalityType, FS_EmptySet

\* A round depends on the program and, for what is owed, on an answer.
LEMMA SameRound ==
    ASSUME NEW c, todo'[c] = todo[c]
    PROVE  /\ InRound(c)' = InRound(c) /\ (BarrierAhead(c)' <=> BarrierAhead(c))
           /\ (pc'[c] = "reply" <=> pc[c] = "reply") => Owed(c)' = Owed(c)
  <1>1. InRound(c)' = InRound(c)
    BY DEF InRound
  <1> QED
    BY <1>1 DEF BarrierAhead, Owed

\* A call that returns: what it leaves of the rounds of all clients.
LEMMA DoneRound ==
    ASSUME DirTypes, NEW c \in Clients, Done(c), todo[c] # <<>>, Call(c).op # "sync",
           pc[c] = "reply" \/ Call(c).op \notin BarrierOps
    PROVE  /\ \A d \in Clients : Owed(d)' = Owed(d)
           /\ \A d \in Clients :
                 BarrierAhead(d) <=> (d = c /\ Call(c).op = "barrier") \/ BarrierAhead(d)'
           /\ \A d \in Clients : \A i \in InRound(d)' : \E k \in InRound(d) : todo'[d][i] = todo[d][k]
  <1>1. /\ todo' = [todo EXCEPT ![c] = Tail(@)] /\ pc'[c] = "idle"
        /\ \A d \in Clients : d # c => todo'[d] = todo[d] /\ pc'[d] = pc[d]
    BY DEF Done, DirTypes
  <1>2. Owed(c)' = Owed(c)
    BY <1>1, OwedTail
  <1>3. BarrierAhead(c) <=> Call(c).op = "barrier" \/ BarrierAhead(c)'
    BY <1>1, AheadTail
  <1>4. \A i \in InRound(c)' : i + 1 \in InRound(c) /\ todo'[c][i] = todo[c][i + 1]
    BY <1>1, RoundTail
  <1>5. \A d \in Clients : d # c => /\ InRound(d)' = InRound(d) /\ Owed(d)' = Owed(d)
                                    /\ (BarrierAhead(d)' <=> BarrierAhead(d))
    BY <1>1, SameRound
  <1>6. ASSUME NEW d \in Clients, NEW i \in InRound(d)'
        PROVE  \E k \in InRound(d) : todo'[d][i] = todo[d][k]
    <2>1. \A j \in InRound(c)' : \E k \in InRound(c) : todo'[c][j] = todo[c][k]
      BY <1>4
    <2>2. CASE d = c
      BY <2>1, <2>2, Zenon
    <2>3. CASE d # c
      <3>1. i \in InRound(d) /\ todo'[d][i] = todo[d][i]
        BY <1>1, <1>5, <2>3
      <3> QED
        BY <3>1
    <2> QED
      BY <2>2, <2>3
  <1> QED
    BY <1>2, <1>3, <1>5, <1>6

-----------------------------------------------------------------------------
(* Steps of a client.                                                      *)

\* The first call is in the round unless it is an MPI_Barrier.
LEMMA FirstInRound ==
    ASSUME DirTypes, NEW c \in Clients, todo[c] # <<>>, Call(c).op # "sync"
    PROVE  1 \in InRound(c) /\ todo[c][1] = Call(c)
  <1>1. todo[c] \in Seq(CallType) /\ 1 \in DOMAIN todo[c] /\ Call(c) = todo[c][1]
    BY NextCall
  <1> QED
    BY <1>1 DEF InRound

\* No operation is within a directory that another client removes.
LEMMA KeptApart ==
    ASSUME DirTypes, KeptOut, NEW c \in Clients, NEW d \in Clients, c # d,
           todo[c] # <<>>, Call(c).op \in BarrierOps, todo[d] # <<>>, Call(d).op = "rmdir"
    PROVE  ~Within(Call(c).path, Call(d).path)
  <1>1. 1 \in InRound(c) /\ todo[c][1] = Call(c) /\ 1 \in InRound(d) /\ todo[d][1] = Call(d)
    BY FirstInRound DEF BarrierOps
  <1> QED
    BY <1>1 DEF KeptOut

\* The call of a removal.
LEMMA RemovesCall ==
    ASSUME DirTypes, RpcInv, NEW c \in Clients, Removes(c)
    PROVE  /\ todo[c] # <<>> /\ Call(c).op = "rmdir" /\ Call(c).path \in Paths
           /\ 1 \in InRound(c) /\ todo[c][1] = Call(c)
  <1>1. todo[c] # <<>> /\ Call(c).op = "rmdir"
    BY DEF Removes, RpcInv
  <1>2. Call(c) \in CallType
    BY <1>1, NextCall
  <1> QED
    BY <1>1, <1>2, CallFields, FirstInRound DEF BarrierOps

\* While a directory is removed all have announced, and nobody makes an entry.
LEMMA RemovesRound ==
    ASSUME DirTypes, RpcInv, RoundInv, KeptOut, NEW c \in Clients, Removes(c)
    PROVE  \A d \in Clients : /\ ~BarrierAhead(d) /\ ~BarrierQueued(d)
                              /\ ~Calls(d, {"mkdir", "create"})
  <1>1. \A d \in Clients : ~BarrierAhead(d) /\ ~BarrierQueued(d)
    <2>1. CASE pc[c] = "reply"
      BY <2>1 DEF RoundInv
    <2>2. CASE rpc[NodeOf[c]].step \in Past
      <3>1. NodeOf[c] \in Nodes
        BY ConstantsAssumption
      <3>2. passed = Clients
        BY <2>2, <3>1 DEF RoundInv
      <3> QED
        BY <3>2 DEF RoundInv
    <2> QED
      BY <2>1, <2>2 DEF Removes
  <1>2. 1 \in InRound(c) /\ todo[c][1].op = "rmdir"
    BY RemovesCall
  <1> QED
    BY <1>1, <1>2 DEF KeptOut

\* The call that a client is in the middle of.
LEMMA LoadCall ==
    ASSUME DirTypes, LoadsInv, NEW c \in Clients, load[c].at # "start"
    PROVE  /\ pc[c] = "idle" /\ todo[c] # <<>> /\ Call(c) \in CallType
           /\ Call(c).op \in {"mkdir", "create", "rmdir", "readdir"}
           /\ Calls(c, {"mkdir", "create", "rmdir", "readdir"})
           /\ load[c].at \notin {"stat", "store"} => Making(c)
           /\ ~Making(c) => load[c].path = Call(c).path
  <1>1. LoadInv(c)
    BY DEF LoadsInv
  <1>2. Calls(c, {"mkdir", "create", "rmdir", "readdir"})
    BY <1>1 DEF LoadInv
  <1>3. pc[c] = "idle" /\ todo[c] # <<>> /\ Call(c).op \in {"mkdir", "create", "rmdir", "readdir"}
    BY <1>2 DEF Calls
  <1> QED
    BY <1>1, <1>2, <1>3, NextCall DEF LoadInv

\* The path of a call, and the parent of what it makes.
LEMMA CallPath ==
    ASSUME DirTypes, NEW c \in Clients, todo[c] # <<>>,
           Call(c).op \in {"mkdir", "create", "rmdir", "readdir"}
    PROVE  /\ Call(c).path \in Paths
           /\ Making(c) => Call(c).path # Root /\ ParentOf(c) \in Paths
           /\ ~Making(c) => Call(c).op \in {"rmdir", "readdir"} /\ Call(c).op \in BarrierOps
           /\ NewType(c) \in {"dir", "file"}
  <1>1. Call(c) \in CallType
    BY NextCall
  <1>2. /\ Call(c).op \in {"mkdir", "create"} => Call(c).path \in Paths \ {Root}
        /\ Call(c).op \in {"rmdir", "readdir"} => Call(c).path \in Paths
    BY <1>1, CallFields DEF BarrierOps
  <1>3. Making(c) => Call(c).path \in Paths \ {Root}
    BY <1>2 DEF Making
  <1>4. Making(c) => ParentOf(c) \in Paths
    BY <1>3, WithinFront DEF ParentOf
  <1> QED
    BY <1>2, <1>3, <1>4 DEF Making, BarrierOps, NewType

\* What a client is loading, or asks for, is not in a directory that is removed.
LEMMA LoadStays ==
    ASSUME DirTypes, RpcInv, RoundInv, KeptOut, NEW c \in Clients,
           Calls(c, {"mkdir", "create", "rmdir", "readdir"}), NEW p \in Paths,
           ~Making(c) => p = Call(c).path
    PROVE  ~Leaving(p)
  <1> SUFFICES ASSUME NEW d \in Clients, Removes(d), Within(p, Call(d).path) PROVE FALSE
    BY DEF Leaving
  <1>1. ~Making(c)
    BY RemovesRound DEF Making, Calls
  <1>2. pc[c] = "idle" /\ todo[c] # <<>> /\ Call(c).op \in BarrierOps /\ Call(c).path = p
    BY <1>1 DEF Calls, Making, BarrierOps
  <1>3. c # d
    BY <1>2 DEF Removes
  <1>4. todo[d] # <<>> /\ Call(d).op = "rmdir"
    BY RemovesCall
  <1> QED
    BY <1>2, <1>3, <1>4, KeptApart

\* No client is within a call but for the four.
LEMMA NotLoading ==
    ASSUME LoadsInv, NEW c \in Clients,
           pc[c] # "idle" \/ todo[c] = <<>>
             \/ Call(c).op \notin {"mkdir", "create", "rmdir", "readdir"}
    PROVE  load[c].at = "start"
  BY DEF LoadsInv, LoadInv, Calls

\* The records of load.
LEMMA LoadRecords ==
    ASSUME DirTypes, NEW c \in Clients
    PROVE  /\ load[c] \in LoadType /\ NoLoad \in LoadType /\ NoLoad.at = "start"
           /\ \A p \in Paths : LET r == [NoLoad EXCEPT !.at = "stat", !.path = p]
                               IN r \in LoadType /\ r.at = "stat" /\ r.path = p
           /\ \A p \in Paths : \A S \in SUBSET Paths :
                 LET r == [at |-> "store", path |-> p, got |-> dfs[p], left |-> S]
                 IN r \in LoadType /\ r.at = "store" /\ r.path = p /\ r.got = dfs[p]
  <1>1. load[c] \in LoadType /\ Root \in Paths
    BY ConstantsAssumption DEF DirTypes
  <1>2. load[c].left \in SUBSET Paths
    BY <1>1 DEF LoadType
  <1>3. \A p \in Paths : dfs[p] \in Kind
    BY DEF DirTypes
  <1>4. "none" \in Kind
    BY DEF Kind
  <1> QED
    BY <1>1, <1>2, <1>3, <1>4 DEF LoadType, NoLoad

\* The record of a step of mkdir or create.
LEMMA LoadAt ==
    ASSUME DirTypes, NEW c \in Clients,
           NEW x \in {"get", "open", "child", "add", "send", "crashed"}
    PROVE  LET r == [NoLoad EXCEPT !.at = x, !.left = load[c].left]
           IN r \in LoadType /\ r.at = x
  <1>1. load[c].left \in SUBSET Paths /\ Root \in Paths /\ "none" \in Kind
    BY ConstantsAssumption DEF DirTypes, LoadType, Kind
  <1> QED
    BY <1>1 DEF LoadType, NoLoad

\* What a client goes on to within a call.
LEMMA LoadFits ==
    ASSUME NEW c \in Clients, UNCHANGED <<todo, pc>>,
           Calls(c, {"mkdir", "create", "rmdir", "readdir"}), load'[c].at \notin {"send", "new"},
           load'[c].at \notin {"stat", "store"} => Making(c),
           ~Making(c) => load'[c].path = Call(c).path,
           load'[c].at = "stat" /\ ~Making(c) => dfs'[load'[c].path] = "dir",
           load'[c].at = "store" /\ kv'[load'[c].path] = "none" =>
              load'[c].got = tree'[load'[c].path]
    PROVE  LoadInv(c)'
  <1>1. Call(c)' = Call(c) /\ (Making(c)' <=> Making(c))
    BY DEF Call, Making
  <1>2. Calls(c, {"mkdir", "create", "rmdir", "readdir"})'
    BY <1>1 DEF Calls, Call
  <1> QED
    BY <1>1, <1>2 DEF LoadInv, Doing

\* A step of a client that makes no entry and queues nothing: it looks, it loads
\* what is not being removed, it gives up, or it asks the server.
Quiet(c) ==
    /\ pc[c] = "idle" /\ todo[c] # <<>> /\ Call(c).op \in {"mkdir", "create", "rmdir", "readdir"}
    /\ Loads(kv', {x \in Paths : ~Leaving(x)})
    /\ load' \in [Clients -> LoadType] /\ \A d \in Clients : d # c => load'[d] = load[d]
    /\ load[c].at # "send" /\ LoadInv(c)'
    /\ dirtab' \in [Clients -> SUBSET Paths]
    /\ UNCHANGED <<dfs, mq, current_barrier_id, cur, passed, ops, rpc, removing, adding, tree, stale>>
    /\ \/ UNCHANGED <<todo, pc>>
       \/ Done(c) /\ Call(c).op \in {"mkdir", "create"}
       \/ /\ pc' = [pc EXCEPT ![c] = "request"] /\ UNCHANGED todo
          /\ Call(c).op \in {"rmdir", "readdir"} /\ Type(kv'[Call(c).path]) = "dir"

\* Nothing is loaded.
LEMMA LoadsSame ==
    ASSUME DirTypes, NEW S, UNCHANGED kv
    PROVE  Loads(kv', S)
  BY DEF DirTypes, Loads, CacheType

\* A client goes on within its call without touching the cache.
LEMMA QuietGo ==
    ASSUME DirTypes, NEW c \in Clients, Calls(c, {"mkdir", "create", "rmdir", "readdir"}),
           load[c].at # "send", NEW r \in LoadType, load' = [load EXCEPT ![c] = r],
           UNCHANGED <<todo, pc>>, Loads(kv', {x \in Paths : ~Leaving(x)}),
           dirtab' \in [Clients -> SUBSET Paths],
           UNCHANGED <<dfs, mq, current_barrier_id, serverVars, tree, stale>>,
           r.at \notin {"send", "new"}, r.at \notin {"stat", "store"} => Making(c),
           ~Making(c) => r.path = Call(c).path,
           r.at = "stat" /\ ~Making(c) => dfs[r.path] = "dir",
           r.at = "store" /\ kv'[r.path] = "none" => r.got = tree[r.path]
    PROVE  Quiet(c)
  <1>1. load \in [Clients -> LoadType]
    BY DEF DirTypes
  <1>2. load'[c] = r /\ load' \in [Clients -> LoadType] /\ \A d \in Clients : d # c => load'[d] = load[d]
    BY <1>1
  <1>3. UNCHANGED <<cur, passed, ops, rpc, removing, adding>>
    BY DEF serverVars
  <1>4. LoadInv(c)'
    BY <1>2, LoadFits
  <1> QED
    BY <1>2, <1>3, <1>4 DEF Quiet, Calls

\* A client ends its call, or asks the server.
LEMMA QuietDone ==
    ASSUME DirTypes, NEW c \in Clients, Calls(c, {"mkdir", "create", "rmdir", "readdir"}),
           load[c].at # "send", Loads(kv', {x \in Paths : ~Leaving(x)}),
           \/ Done(c) /\ Making(c)
           \/ Request(c) /\ ~Making(c) /\ Type(kv'[Call(c).path]) = "dir",
           dirtab' \in [Clients -> SUBSET Paths],
           UNCHANGED <<dfs, mq, current_barrier_id, serverVars, tree, stale>>
    PROVE  Quiet(c)
  <1>1. load \in [Clients -> LoadType] /\ NoLoad \in LoadType /\ NoLoad.at = "start"
    BY LoadRecords DEF DirTypes
  <1>2. load' = [load EXCEPT ![c] = NoLoad]
    BY DEF Done, Request
  <1>3. load'[c] = NoLoad /\ load' \in [Clients -> LoadType] /\ \A d \in Clients : d # c => load'[d] = load[d]
    BY <1>1, <1>2
  <1>4. UNCHANGED <<cur, passed, ops, rpc, removing, adding>>
    BY DEF serverVars
  <1>5. LoadInv(c)'
    BY <1>1, <1>3 DEF LoadInv, Doing
  <1>6. /\ pc[c] = "idle" /\ todo[c] # <<>> /\ Call(c).op \in {"mkdir", "create", "rmdir", "readdir"}
        /\ Making(c) => Call(c).op \in {"mkdir", "create"}
        /\ ~Making(c) => Call(c).op \in {"rmdir", "readdir"}
    BY DEF Calls, Making
  <1> QED
    BY <1>3, <1>4, <1>5, <1>6 DEF Quiet, Request

\* The stat of load_to_pacon.
LEMMA QuietStat ==
    ASSUME DirTypes, RpcInv, RoundInv, StoreInv, LoadsInv, KeptOut, NEW c \in Clients, LoadStat(c)
    PROVE  Quiet(c)
  <1> DEFINE p == load[c].path
  <1>1. load[c].at = "stat" /\ UNCHANGED <<kv, dfs, mq, dirtab, current_barrier_id, serverVars, tree, stale>>
    BY DEF LoadStat, Doing
  <1>2. /\ Calls(c, {"mkdir", "create", "rmdir", "readdir"}) /\ (~Making(c) => p = Call(c).path)
        /\ Call(c).op # "rename"
    BY <1>1, LoadCall
  <1>3. p \in Paths /\ dirtab \in [Clients -> SUBSET Paths]
    BY DEF DirTypes, LoadType
  <1>4. ~Making(c) => dfs[p] = "dir"
    BY <1>1 DEF LoadsInv, LoadInv, Doing
  <1>5. kv[p] = "none" => dfs[p] = tree[p]
    BY <1>2, <1>3, LoadStays DEF StoreInv, PathInv
  <1>6. Loads(kv', {x \in Paths : ~Leaving(x)})
    BY <1>1, LoadsSame
  <1>7. CASE Holds(c, p, {}) /\ UNCHANGED <<todo, pc>>
    <2> DEFINE r == [at |-> "store", path |-> p, got |-> dfs[p], left |-> {}]
    <2>1. r \in LoadType /\ r.at = "store" /\ r.path = p /\ r.got = dfs[p]
      BY <1>3, LoadRecords
    <2>2. load' = [load EXCEPT ![c] = r]
      BY <1>7 DEF Holds
    <2> HIDE DEF r
    <2> QED
      BY <1>1, <1>2, <1>3, <1>5, <1>6, <1>7, <2>1, <2>2, QuietGo
  <1>8. CASE dfs[p] = "none" /\ Done(c)
    BY <1>1, <1>2, <1>3, <1>4, <1>6, <1>8, QuietDone
  <1> QED
    BY <1>2, <1>7, <1>8 DEF LoadStat

\* The dmkv_add of load_to_pacon.
LEMMA QuietAdd ==
    ASSUME DirTypes, RpcInv, RoundInv, StoreInv, LoadsInv, KeptOut, OnDirectories,
           NEW c \in Clients, LoadAdd(c)
    PROVE  Quiet(c)
  <1> DEFINE p == load[c].path
  <1>1. /\ load[c].at = "store" /\ kv' = [kv EXCEPT ![p] = IF @ = "none" THEN Loaded(load[c].got) ELSE @]
        /\ LoadNext(c, p)
        /\ UNCHANGED <<dfs, mq, dirtab, current_barrier_id, serverVars, tree, stale>>
    BY DEF LoadAdd, Doing
  <1>2. /\ Calls(c, {"mkdir", "create", "rmdir", "readdir"}) /\ (~Making(c) => p = Call(c).path)
        /\ todo[c] # <<>> /\ Call(c).op \in {"mkdir", "create", "rmdir", "readdir"}
    BY <1>1, LoadCall
  <1>3. p \in Paths /\ load[c].got \in Kind /\ dirtab \in [Clients -> SUBSET Paths]
    BY DEF DirTypes, LoadType
  <1>4. kv[p] = "none" => load[c].got = tree[p]
    BY <1>1 DEF LoadsInv, LoadInv, Doing
  <1>5. ~Leaving(p)
    BY <1>2, <1>3, LoadStays
  <1>6. IF kv[p] = "none" THEN dfs[p] = tree[p] ELSE Type(kv[p]) = tree[p]
    BY <1>3, <1>5 DEF StoreInv, PathInv
  <1>7. /\ kv \in [Paths -> CacheType] /\ Loaded(load[c].got) \in CacheType
        /\ Type(Loaded(load[c].got)) = load[c].got
    BY <1>3 DEF DirTypes, CacheType, Kind, Loaded, Type
  <1>8. /\ kv' \in [Paths -> CacheType] /\ \A x \in Paths : x # p => kv'[x] = kv[x]
        /\ kv[p] # "none" => kv'[p] = kv[p]
        /\ kv[p] = "none" => kv'[p] = Loaded(load[c].got)
    BY <1>1, <1>3, <1>7
  <1>9. Loads(kv', {x \in Paths : ~Leaving(x)})
    <2>1. kv[p] = "none" => Type(kv'[p]) = dfs[p]
      BY <1>4, <1>6, <1>7, <1>8
    <2> QED
      BY <1>3, <1>5, <1>8, <2>1 DEF Loads
  <1>10. Type(kv'[p]) = tree[p]
    BY <1>4, <1>6, <1>7, <1>8
  <1>11. CASE Making(c)
    <2> DEFINE x == IF p = ParentOf(c) THEN "get" ELSE "child"
               r == [NoLoad EXCEPT !.at = x, !.left = load[c].left]
    <2>1. Goto(c, x) /\ UNCHANGED <<todo, pc>>
      BY <1>1, <1>11 DEF LoadNext, Making
    <2>2. load' = [load EXCEPT ![c] = r] /\ x \in {"get", "child"}
      BY <2>1 DEF Goto
    <2> HIDE DEF x
    <2>3. r \in LoadType /\ r.at = x
      BY <2>2, LoadAt
    <2> HIDE DEF r
    <2> QED
      BY <1>1, <1>2, <1>3, <1>9, <1>11, <2>1, <2>2, <2>3, QuietGo
  <1>12. CASE ~Making(c)
    <2>1. Call(c).op \in {"rmdir", "readdir"} /\ Request(c)
      BY <1>1, <1>2, <1>12 DEF LoadNext, Making
    <2>2. tree[Call(c).path] = "dir"
      BY <1>2, <2>1 DEF OnDirectories, Calls, BarrierOps
    <2>3. Type(kv'[Call(c).path]) = "dir"
      BY <1>2, <1>10, <1>12, <2>2
    <2> QED
      BY <1>1, <1>2, <1>3, <1>9, <1>12, <2>1, <2>3, QuietDone
  <1> QED
    BY <1>11, <1>12

\* A client of mkdir or create that goes on to the step x.
LEMMA QuietMaking ==
    ASSUME DirTypes, NEW c \in Clients, Calls(c, {"mkdir", "create"}), load[c].at # "send",
           NEW x \in {"get", "open", "child", "add", "crashed"}, Goto(c, x), UNCHANGED <<todo, pc>>,
           Loads(kv', {y \in Paths : ~Leaving(y)}), dirtab' \in [Clients -> SUBSET Paths],
           UNCHANGED <<dfs, mq, current_barrier_id, serverVars, tree, stale>>
    PROVE  Quiet(c)
  <1> DEFINE r == [NoLoad EXCEPT !.at = x, !.left = load[c].left]
  <1>1. r \in LoadType /\ r.at = x
    BY LoadAt
  <1>2. load' = [load EXCEPT ![c] = r]
    BY DEF Goto
  <1>3. Calls(c, {"mkdir", "create", "rmdir", "readdir"}) /\ Making(c)
    BY DEF Calls, Making
  <1> HIDE DEF r
  <1> QED
    BY <1>1, <1>2, <1>3, QuietGo

\* check_parent_dir looks at the entry of the parent.
LEMMA QuietFound ==
    ASSUME DirTypes, NEW c \in Clients, Calls(c, {"mkdir", "create"}), load[c].at # "send",
           NEW k, ParentFound(c, k),
           UNCHANGED <<kv, dfs, mq, current_barrier_id, serverVars, tree, stale>>
    PROVE  Quiet(c)
  <1>1. Loads(kv', {y \in Paths : ~Leaving(y)})
    BY LoadsSame
  <1>2. /\ Calls(c, {"mkdir", "create", "rmdir", "readdir"}) /\ Making(c) /\ todo[c] # <<>>
        /\ Call(c).op \in {"mkdir", "create", "rmdir", "readdir"}
    BY DEF Calls, Making
  <1>3. ParentOf(c) \in Paths /\ dirtab \in [Clients -> SUBSET Paths]
    BY <1>2, CallPath DEF DirTypes
  <1>4. CASE Done(c) /\ UNCHANGED dirtab
    BY <1>1, <1>2, <1>3, <1>4, QuietDone
  <1>5. CASE Goto(c, "add") /\ add_to_dir_check_table(c, ParentOf(c)) /\ UNCHANGED <<todo, pc>>
    <2>1. dirtab' \in [Clients -> SUBSET Paths]
      BY <1>3, <1>5 DEF add_to_dir_check_table
    <2> QED
      BY <1>1, <1>5, <2>1, QuietMaking
  <1>6. CASE Goto(c, "open") /\ UNCHANGED <<dirtab, todo, pc>>
    BY <1>1, <1>3, <1>6, QuietMaking
  <1> QED
    BY <1>4, <1>5, <1>6 DEF ParentFound

\* Nothing was loaded when a call begins.
LEMMA CallBegins ==
    ASSUME NEW c \in Clients, NEW S, Begins(c, S)
    PROVE  Calls(c, S) /\ load[c].at = "start"
  BY DEF Begins, NoLoad

\* A call that has to load p first.
LEMMA QuietLoad ==
    ASSUME DirTypes, NEW c \in Clients, Calls(c, {"mkdir", "create", "rmdir", "readdir"}),
           load[c].at # "send", NEW p \in Paths, ~Making(c) => p = Call(c).path /\ dfs[p] = "dir",
           Load(c, p), UNCHANGED <<todo, pc>>,
           UNCHANGED <<kv, dfs, mq, dirtab, current_barrier_id, serverVars, tree, stale>>
    PROVE  Quiet(c)
  <1> DEFINE r == [NoLoad EXCEPT !.at = "stat", !.path = p]
  <1>1. r \in LoadType /\ r.at = "stat" /\ r.path = p
    BY LoadRecords
  <1>2. load' = [load EXCEPT ![c] = r]
    BY DEF Load
  <1>3. Loads(kv', {y \in Paths : ~Leaving(y)}) /\ dirtab' \in [Clients -> SUBSET Paths]
    BY LoadsSame DEF DirTypes
  <1> HIDE DEF r
  <1> QED
    BY <1>1, <1>2, <1>3, QuietGo

\* The parent check up to the listing of the parent.
LEMMA QuietParent ==
    ASSUME DirTypes, LoadsInv, NEW c \in Clients, ParentCheck(c) \/ ParentGet(c) \/ ParentOpen(c)
    PROVE  Quiet(c)
  <1>1. dirtab \in [Clients -> SUBSET Paths] /\ (UNCHANGED kv => Loads(kv', {y \in Paths : ~Leaving(y)}))
    BY LoadsSame DEF DirTypes
  <1>2. CASE ParentCheck(c)
    <2>1. /\ Calls(c, {"mkdir", "create"}) /\ load[c].at # "send"
          /\ UNCHANGED <<kv, dfs, mq, current_barrier_id, serverVars, tree, stale>>
      BY <1>2, CallBegins DEF ParentCheck
    <2>2. /\ Calls(c, {"mkdir", "create", "rmdir", "readdir"}) /\ Making(c) /\ ParentOf(c) \in Paths
      BY <2>1, CallPath DEF Calls, Making
    <2>3. CASE Goto(c, "add") /\ UNCHANGED <<dirtab, todo, pc>>
      BY <1>1, <2>1, <2>3, QuietMaking
    <2>4. CASE Load(c, ParentOf(c)) /\ UNCHANGED <<dirtab, todo, pc>>
      BY <2>1, <2>2, <2>4, QuietLoad
    <2>5. CASE ParentFound(c, kv[ParentOf(c)])
      BY <2>1, <2>5, QuietFound
    <2> QED
      BY <1>2, <2>3, <2>4, <2>5 DEF ParentCheck
  <1>3. CASE ParentGet(c)
    <2>1. load[c].at = "get" /\ UNCHANGED <<kv, dfs, mq, current_barrier_id, serverVars, tree, stale>>
      BY <1>3 DEF ParentGet, Doing
    <2>2. Calls(c, {"mkdir", "create"})
      BY <2>1, LoadCall DEF Calls, Making
    <2>3. CASE Goto(c, "crashed") /\ UNCHANGED <<dirtab, todo, pc>>
      BY <1>1, <2>1, <2>2, <2>3, QuietMaking
    <2>4. CASE ParentFound(c, kv[ParentOf(c)])
      BY <2>1, <2>2, <2>4, QuietFound
    <2> QED
      BY <1>3, <2>3, <2>4 DEF ParentGet
  <1>4. CASE ParentOpen(c)
    <2>1. /\ load[c].at = "open"
          /\ UNCHANGED <<kv, dfs, mq, dirtab, current_barrier_id, todo, pc, serverVars, tree, stale>>
      BY <1>4 DEF ParentOpen, Doing
    <2>2. Calls(c, {"mkdir", "create"}) /\ Making(c) /\ Calls(c, {"mkdir", "create", "rmdir", "readdir"})
      BY <2>1, LoadCall DEF Calls, Making
    <2>3. CASE Goto(c, "crashed")
      BY <1>1, <2>1, <2>2, <2>3, QuietMaking
    <2>4. CASE load' = [load EXCEPT ![c].at = "child", ![c].left = Children(ParentOf(c), dfs)]
      <3> DEFINE S == Children(ParentOf(c), dfs)
                 r == [load[c] EXCEPT !.at = "child", !.left = S]
      <3>1. load[c] \in LoadType /\ load \in [Clients -> LoadType]
        BY DEF DirTypes
      <3>2. S \in SUBSET Paths
        BY DEF Children
      <3> HIDE DEF S
      <3>3. r \in LoadType /\ r.at = "child"
        BY <3>1, <3>2 DEF LoadType
      <3>4. load' = [load EXCEPT ![c] = r]
        BY <2>4, <3>1 DEF S
      <3> HIDE DEF r
      <3> QED
        BY <1>1, <2>1, <2>2, <3>3, <3>4, QuietGo
    <2> QED
      BY <1>4, <2>3, <2>4 DEF ParentOpen
  <1> QED
    BY <1>2, <1>3, <1>4

\* The stat of a child of the parent.
LEMMA QuietChild ==
    ASSUME DirTypes, RpcInv, RoundInv, StoreInv, LoadsInv, KeptOut, NEW c \in Clients,
           NEW q \in Paths, ChildStat(c, q)
    PROVE  Quiet(c)
  <1>1. /\ load[c].at = "child"
        /\ UNCHANGED <<kv, dfs, mq, dirtab, current_barrier_id, serverVars, tree, stale>>
    BY DEF ChildStat, Doing
  <1>2. /\ Calls(c, {"mkdir", "create", "rmdir", "readdir"}) /\ Making(c)
    BY <1>1, LoadCall
  <1>3. dirtab \in [Clients -> SUBSET Paths] /\ load[c].left \in SUBSET Paths
    BY DEF DirTypes, LoadType
  <1>4. kv[q] = "none" => dfs[q] = tree[q]
    BY <1>2, LoadStays DEF StoreInv, PathInv
  <1>5. Loads(kv', {x \in Paths : ~Leaving(x)})
    BY <1>1, LoadsSame
  <1>6. CASE Holds(c, q, load[c].left \ {q}) /\ UNCHANGED <<todo, pc>>
    <2> DEFINE S == load[c].left \ {q}
               r == [at |-> "store", path |-> q, got |-> dfs[q], left |-> S]
    <2>1. S \in SUBSET Paths
      BY <1>3
    <2>2. load' = [load EXCEPT ![c] = r]
      BY <1>6 DEF Holds
    <2> HIDE DEF S
    <2>3. r \in LoadType /\ r.at = "store" /\ r.path = q /\ r.got = dfs[q]
      BY <2>1, LoadRecords
    <2> HIDE DEF r
    <2> QED
      BY <1>1, <1>2, <1>3, <1>4, <1>5, <1>6, <2>2, <2>3, QuietGo
  <1>7. CASE Done(c)
    BY <1>1, <1>2, <1>3, <1>5, <1>7, QuietDone
  <1> QED
    BY <1>6, <1>7 DEF ChildStat

\* The flag of the parent, and a name that is taken.
LEMMA QuietCas ==
    ASSUME DirTypes, LoadsInv, NEW c \in Clients,
           ParentCas(c) \/ (Add(c) /\ kv[Call(c).path] # "none")
    PROVE  Quiet(c)
  <1>1. /\ load[c].at \in {"child", "add"}
        /\ UNCHANGED <<dfs, mq, current_barrier_id, serverVars, stale>>
    BY DEF ParentCas, Add, Doing
  <1>2. /\ Calls(c, {"mkdir", "create", "rmdir", "readdir"}) /\ Making(c) /\ todo[c] # <<>>
        /\ Call(c).op \in {"mkdir", "create", "rmdir", "readdir"} /\ Calls(c, {"mkdir", "create"})
    BY <1>1, LoadCall DEF Calls, Making
  <1>3. dirtab \in [Clients -> SUBSET Paths] /\ ParentOf(c) \in Paths
    BY <1>2, CallPath DEF DirTypes
  <1>4. CASE Add(c) /\ kv[Call(c).path] # "none"
    <2>1. Done(c) /\ UNCHANGED <<kv, tree, dirtab>>
      BY <1>4 DEF Add
    <2> QED
      BY <1>1, <1>2, <1>3, <2>1, LoadsSame, QuietDone
  <1>5. CASE ParentCas(c)
    <2> DEFINE p == ParentOf(c)
    <2>1. UNCHANGED tree
      BY <1>5 DEF ParentCas
    <2>2. CASE Done(c) /\ UNCHANGED <<kv, dirtab>>
      BY <1>1, <1>2, <1>3, <2>1, <2>2, LoadsSame, QuietDone
    <2>3. CASE /\ kv' = [kv EXCEPT ![p] = IF @ = "ldir" THEN "dir" ELSE @]
               /\ add_to_dir_check_table(c, p) /\ Goto(c, "add") /\ UNCHANGED <<todo, pc>>
      <3>1. dirtab' \in [Clients -> SUBSET Paths]
        BY <1>3, <2>3 DEF add_to_dir_check_table
      <3>2. kv \in [Paths -> CacheType] /\ "dir" \in CacheType
        BY DEF DirTypes, CacheType, Kind
      <3>3. /\ kv' \in [Paths -> CacheType]
            /\ \A x \in Paths : kv'[x] = kv[x] \/ (kv[x] = "ldir" /\ kv'[x] = "dir")
        BY <1>3, <2>3, <3>2
      <3>4. Loads(kv', {x \in Paths : ~Leaving(x)})
        BY <3>3 DEF Loads, Type
      <3> QED
        BY <1>1, <1>2, <2>1, <2>3, <3>1, <3>4, QuietMaking
    <2> QED
      BY <1>5, <2>2, <2>3 DEF ParentCas
  <1> QED
    BY <1>4, <1>5

\* pacon_rmdir and pacon_opendir up to the request.
LEMMA QuietAsk ==
    ASSUME DirTypes, RpcInv, RoundInv, StoreInv, KeptOut, OnDirectories, NEW c \in Clients,
           pacon_rmdir(c) \/ pacon_opendir(c)
    PROVE  Quiet(c)
  <1> DEFINE p == Call(c).path
  <1>1. /\ Calls(c, {"rmdir", "readdir"}) /\ load[c].at # "send"
        /\ UNCHANGED <<kv, dfs, mq, dirtab, current_barrier_id, serverVars, tree, stale>>
    BY CallBegins DEF pacon_rmdir, pacon_opendir, Calls
  <1>2. /\ Calls(c, {"mkdir", "create", "rmdir", "readdir"}) /\ ~Making(c) /\ todo[c] # <<>>
        /\ Call(c).op \in {"mkdir", "create", "rmdir", "readdir"} /\ Calls(c, BarrierOps)
    BY <1>1 DEF Calls, Making, BarrierOps
  <1>3. p \in Paths /\ tree[p] = "dir" /\ dirtab \in [Clients -> SUBSET Paths]
    BY <1>2, CallPath DEF OnDirectories, DirTypes
  <1>4. IF kv[p] = "none" THEN dfs[p] = "dir" ELSE Type(kv[p]) = "dir"
    BY <1>2, <1>3, LoadStays DEF StoreInv, PathInv
  <1>5. CASE kv[p] # "none" /\ Request(c)
    BY <1>1, <1>2, <1>3, <1>4, <1>5, LoadsSame, QuietDone
  <1>6. CASE kv[p] = "none" /\ Load(c, p) /\ UNCHANGED <<todo, pc>>
    BY <1>1, <1>2, <1>3, <1>4, <1>6, QuietLoad
  <1> QED
    BY <1>5, <1>6 DEF pacon_rmdir, pacon_opendir

\* dmkv_add of a new entry.
Adds(c) ==
    /\ Calls(c, {"mkdir", "create"}) /\ load[c].at = "add"
    /\ Call(c).path \in Paths \ {Root} /\ NewType(c) \in {"dir", "file"} /\ kv[Call(c).path] = "none"
    /\ kv' = [kv EXCEPT ![Call(c).path] = NewType(c)]
    /\ tree' = [tree EXCEPT ![Call(c).path] = NewType(c)]
    /\ load' \in [Clients -> LoadType] /\ load'[c].at = "send"
    /\ \A d \in Clients : d # c => load'[d] = load[d]
    /\ UNCHANGED <<dfs, mq, dirtab, current_barrier_id, todo, pc, cur, passed, ops, rpc, removing,
                   adding, stale>>

\* add_to_mq.
NewMsg(c) == [op |-> NewType(c), path |-> Call(c).path, id |-> current_barrier_id[c]]
Sends(c) ==
    /\ Calls(c, {"mkdir", "create"}) /\ load[c].at = "send" /\ Done(c)
    /\ Call(c).path \in Paths \ {Root} /\ NewType(c) \in {"dir", "file"}
    /\ NewMsg(c) \in MsgType /\ mq' = [mq EXCEPT ![c] = Append(@, NewMsg(c))]
    /\ load' \in [Clients -> LoadType] /\ load'[c].at = "start"
    /\ \A d \in Clients : d # c => load'[d] = load[d]
    /\ UNCHANGED <<kv, dfs, dirtab, current_barrier_id, cur, passed, ops, rpc, removing,
                   adding, tree, stale>>

\* The dmkv_add of mkdir and create, when the name is free.
LEMMA AddStep ==
    ASSUME DirTypes, LoadsInv, NEW c \in Clients, Add(c), kv[Call(c).path] = "none"
    PROVE  Adds(c)
  <1>1. load[c].at = "add"
    BY DEF Add, Doing
  <1>2. Calls(c, {"mkdir", "create"}) /\ Making(c)
    BY <1>1, LoadCall DEF Calls, Making
  <1>3. Call(c).path \in Paths \ {Root} /\ NewType(c) \in {"dir", "file"}
    BY <1>2, CallPath DEF Calls
  <1> DEFINE r == [NoLoad EXCEPT !.at = "send", !.left = load[c].left]
  <1>4. r \in LoadType /\ r.at = "send"
    BY LoadAt
  <1>5. load' = [load EXCEPT ![c] = r]
    BY DEF Add, Goto
  <1> HIDE DEF r
  <1>6. load' \in [Clients -> LoadType] /\ load'[c].at = "send" /\ \A d \in Clients : d # c => load'[d] = load[d]
    BY <1>4, <1>5 DEF DirTypes
  <1> QED
    BY <1>1, <1>2, <1>3, <1>6 DEF Adds, Add, serverVars

\* The add_to_mq of mkdir and create.
LEMMA SendStep ==
    ASSUME DirTypes, LoadsInv, NEW c \in Clients, Send(c)
    PROVE  Sends(c)
  <1>1. load[c].at = "send"
    BY DEF Send, Doing
  <1>2. Calls(c, {"mkdir", "create"}) /\ Making(c)
    BY <1>1, LoadCall DEF Calls, Making
  <1>3. Call(c).path \in Paths \ {Root} /\ NewType(c) \in {"dir", "file"}
    BY <1>2, CallPath DEF Calls
  <1>4. NewMsg(c) \in MsgType
    BY <1>3 DEF NewMsg, MsgType, DirTypes
  <1>5. load' = [load EXCEPT ![c] = NoLoad] /\ NoLoad \in LoadType /\ NoLoad.at = "start"
    BY LoadRecords DEF Send, Done
  <1>6. load' \in [Clients -> LoadType] /\ load'[c].at = "start" /\ \A d \in Clients : d # c => load'[d] = load[d]
    BY <1>5 DEF DirTypes
  <1>7. mq' = [mq EXCEPT ![c] = Append(@, NewMsg(c))]
    BY DEF Send, NewMsg
  <1> QED
    BY <1>1, <1>2, <1>3, <1>4, <1>6, <1>7 DEF Sends, Send, serverVars

\* An answer to an rmdir or a readdir.
LEMMA AnswerStep ==
    ASSUME DirTypes, RpcInv, NoRenames, NEW c \in Clients, RmdirDel(c) \/ Listed(c) \/ Renamed(c)
    PROVE  /\ todo[c] # <<>> /\ Done(c) /\ pc[c] = "reply" /\ Call(c).op \in {"rmdir", "readdir"}
           /\ Call(c).op \in BarrierOps /\ Call(c).path \in Paths
           /\ IF Call(c).op = "rmdir" THEN kv' = [kv EXCEPT ![Call(c).path] = "none"]
              ELSE UNCHANGED kv
           /\ UNCHANGED <<dfs, mq, dirtab, current_barrier_id, cur, passed, ops, rpc,
                          removing, adding, tree, stale>>
  <1>1. /\ pc[c] = "reply" /\ Done(c) /\ Call(c).op \in BarrierOps
        /\ UNCHANGED <<dfs, mq, dirtab, current_barrier_id, cur, passed, ops, rpc,
                       removing, adding, tree, stale>>
    BY DEF RmdirDel, Listed, Renamed, Answered, serverVars, BarrierOps
  <1>2. todo[c] # <<>>
    BY <1>1 DEF RpcInv
  <1>3. 1 \in DOMAIN todo[c] /\ Call(c) = todo[c][1] /\ Call(c) \in CallType
    BY <1>2, NextCall
  <1>4. Call(c).op \in {"rmdir", "readdir"}
    BY <1>1, <1>3 DEF NoRenames, BarrierOps
  <1>5. Call(c).path \in Paths
    BY <1>1, <1>3, CallFields
  <1>6. IF Call(c).op = "rmdir" THEN kv' = [kv EXCEPT ![Call(c).path] = "none"] ELSE UNCHANGED kv
    BY <1>4 DEF RmdirDel, Listed, Renamed, Answered, dmkv_del
  <1> QED
    BY <1>1, <1>2, <1>4, <1>5, <1>6

\* No call is a rename.
LEMMA NoRenameCall ==
    ASSUME DirTypes, NoRenames, LoadsInv, NEW c \in Clients
    PROVE  ~pacon_rename(c) /\ ~RenameNew(c)
  <1>1. ASSUME pacon_rename(c) PROVE FALSE
    <2>1. todo[c] # <<>> /\ Call(c).op = "rename"
      BY <1>1 DEF pacon_rename, Begins, Calls
    <2>2. 1 \in DOMAIN todo[c] /\ Call(c) = todo[c][1]
      BY <2>1, NextCall
    <2> QED
      BY <2>1, <2>2 DEF NoRenames
  <1>2. ASSUME RenameNew(c) PROVE FALSE
    <2>1. load[c].at = "new"
      BY <1>2 DEF RenameNew, Doing
    <2> QED
      BY <2>1 DEF LoadsInv, LoadInv
  <1> QED
    BY <1>1, <1>2

\* The steps of a client.
LEMMA ClientStep ==
    ASSUME DirTypes, RpcInv, RoundInv, StoreInv, LoadsInv, KeptOut, OnDirectories, NoRenames,
           NEW c \in Clients, Client(c)
    PROVE  \/ Quiet(c) \/ Adds(c) \/ Sends(c) \/ Announce(c) \/ Clean(c)
           \/ RmdirDel(c) \/ Listed(c) \/ Renamed(c)
  <1>1. CASE Add(c)
    BY <1>1, QuietCas, AddStep
  <1> QED
    BY <1>1, QuietStat, QuietAdd, QuietParent, QuietChild, QuietCas, QuietAsk, SendStep, NoRenameCall
       DEF Client

-----------------------------------------------------------------------------
(* Types.                                                                  *)

\* A call that returns keeps the types of the client.
LEMMA DoneTypes ==
    ASSUME DirTypes, NEW c \in Clients, Done(c), todo[c] # <<>>
    PROVE  /\ todo' \in [Clients -> Seq(CallType)] /\ pc' \in [Clients -> {"idle", "request", "reply"}]
           /\ load' \in [Clients -> LoadType] /\ load'[c].at = "start"
           /\ \A d \in Clients : d # c => load'[d] = load[d]
  <1>1. todo[c] \in Seq(CallType)
    BY DEF DirTypes
  <1>2. Tail(todo[c]) \in Seq(CallType)
    BY <1>1, HeadTailProperties
  <1>3. load' = [load EXCEPT ![c] = NoLoad] /\ NoLoad \in LoadType /\ NoLoad.at = "start"
    BY LoadRecords DEF Done
  <1>4. /\ load' \in [Clients -> LoadType] /\ load'[c].at = "start"
        /\ \A d \in Clients : d # c => load'[d] = load[d]
    BY <1>3 DEF DirTypes
  <1> QED
    BY <1>2, <1>4 DEF Done, DirTypes

\* The steps of a call keep the types.
LEMMA TypesSteps ==
    ASSUME DirTypes, NEW c \in Clients, Quiet(c) \/ Adds(c) \/ Sends(c)
    PROVE  DirTypes'
  <1>1. CASE Quiet(c)
    <2>1. kv' \in [Paths -> CacheType]
      BY <1>1 DEF Quiet, Loads
    <2>2. todo' \in [Clients -> Seq(CallType)] /\ pc' \in [Clients -> {"idle", "request", "reply"}]
      <3>1. CASE Done(c)
        BY <1>1, <3>1, DoneTypes DEF Quiet
      <3>2. CASE UNCHANGED todo /\ (UNCHANGED pc \/ pc' = [pc EXCEPT ![c] = "request"])
        BY <3>2 DEF DirTypes
      <3> QED
        BY <1>1, <3>1, <3>2 DEF Quiet
    <2>3. /\ load' \in [Clients -> LoadType] /\ dirtab' \in [Clients -> SUBSET Paths]
          /\ UNCHANGED <<dfs, mq, current_barrier_id, cur, passed, rpc, removing, adding, tree>>
      BY <1>1 DEF Quiet
    <2> QED
      BY <2>1, <2>2, <2>3 DEF DirTypes, CacheType
  <1>2. CASE Adds(c)
    <2>1. kv' \in [Paths -> Kind \cup {"ldir"}] /\ tree' \in [Paths -> Kind]
      BY <1>2 DEF Adds, DirTypes, Kind
    <2>2. /\ load' \in [Clients -> LoadType]
          /\ UNCHANGED <<dfs, mq, dirtab, current_barrier_id, todo, pc, cur, passed, rpc, removing, adding>>
      BY <1>2 DEF Adds
    <2> QED
      BY <2>1, <2>2 DEF DirTypes
  <1>3. CASE Sends(c)
    <2>1. NewMsg(c) \in MsgType /\ mq' = [mq EXCEPT ![c] = Append(@, NewMsg(c))] /\ todo[c] # <<>>
      BY <1>3 DEF Sends, Calls
    <2>2. Append(mq[c], NewMsg(c)) \in Seq(MsgType)
      BY <2>1, AppendProperties DEF DirTypes
    <2>3. mq' \in [Clients -> Seq(MsgType)]
      BY <2>1, <2>2 DEF DirTypes
    <2>4. todo' \in [Clients -> Seq(CallType)] /\ pc' \in [Clients -> {"idle", "request", "reply"}]
      BY <1>3, <2>1, DoneTypes DEF Sends
    <2>5. /\ load' \in [Clients -> LoadType]
          /\ UNCHANGED <<kv, dfs, dirtab, current_barrier_id, cur, passed, rpc, removing, adding, tree>>
      BY <1>3 DEF Sends
    <2> QED
      BY <2>3, <2>4, <2>5 DEF DirTypes
  <1> QED
    BY <1>1, <1>2, <1>3

\* pacon_barrier keeps the types.
LEMMA TypesAnnounce ==
    ASSUME DirTypes, NEW c \in Clients, Announce(c)
    PROVE  DirTypes'
  <1> DEFINE m == [op |-> "barrier", opt |-> Call(c).opt, id |-> current_barrier_id[c] + 1]
  <1>1. todo[c] # <<>> /\ Done(c)
    BY DEF Announce, Calls
  <1>2. m \in MsgType
    <2>1. Call(c).op = "barrier" /\ Call(c) \in CallType
      BY <1>1, NextCall DEF Announce, Calls
    <2>2. Call(c).opt \in Nat
      BY <2>1, CallFields
    <2>3. current_barrier_id[c] + 1 \in Nat
      BY DEF DirTypes
    <2> QED
      BY <2>2, <2>3 DEF MsgType
  <1>3. Append(mq[c], m) \in Seq(MsgType)
    BY <1>2, AppendProperties DEF DirTypes
  <1>4. mq' \in [Clients -> Seq(MsgType)] /\ current_barrier_id' \in [Clients -> Nat]
    BY <1>3 DEF Announce, DirTypes
  <1>5. /\ todo' \in [Clients -> Seq(CallType)] /\ pc' \in [Clients -> {"idle", "request", "reply"}]
        /\ load' \in [Clients -> LoadType]
    BY <1>1, DoneTypes
  <1>6. UNCHANGED <<kv, tree, dfs, dirtab, cur, passed, rpc, removing, adding>>
    BY DEF Announce, serverVars
  <1> QED
    BY <1>4, <1>5, <1>6 DEF DirTypes

\* The answer of the server and pacon_rmdir_clean keep the types.
LEMMA TypesReturn ==
    ASSUME DirTypes, NEW c \in Clients, todo[c] # <<>>, Done(c),
           UNCHANGED kv \/ (Call(c).path \in Paths /\ dmkv_del(Call(c).path)),
           UNCHANGED <<tree, dfs, mq, dirtab, current_barrier_id, serverVars>>
    PROVE  DirTypes'
  <1>1. kv' \in [Paths -> CacheType]
    BY DEF DirTypes, dmkv_del, CacheType, Kind
  <1>2. /\ todo' \in [Clients -> Seq(CallType)] /\ pc' \in [Clients -> {"idle", "request", "reply"}]
        /\ load' \in [Clients -> LoadType]
    BY DoneTypes
  <1>3. UNCHANGED <<tree, dfs, mq, dirtab, current_barrier_id, cur, passed, rpc, removing, adding>>
    BY DEF serverVars
  <1> QED
    BY <1>1, <1>2, <1>3 DEF DirTypes, CacheType

\* Every call of a client keeps the types.
LEMMA TypesClient ==
    ASSUME DirTypes, RpcInv, RoundInv, StoreInv, LoadsInv, KeptOut, OnDirectories, NoRenames,
           NEW c \in Clients, Client(c)
    PROVE  DirTypes'
  <1>1. ASSUME Clean(c) PROVE DirTypes'
    BY <1>1, TypesReturn DEF Clean, Calls
  <1>2. ASSUME Answered(c, "rmdir") \/ Answered(c, "readdir") \/ Answered(c, "rename")
        PROVE  todo[c] # <<>> /\ Done(c) /\ Call(c).path \in Paths
    BY <1>2, NextCall, CallFields DEF Answered, RpcInv
  <1>3. ASSUME RmdirDel(c) PROVE DirTypes'
    BY <1>2, <1>3, TypesReturn DEF RmdirDel
  <1>4. ASSUME Listed(c) \/ Renamed(c) PROVE DirTypes'
    BY <1>2, <1>4, TypesReturn DEF Listed, Renamed
  <1> QED
    BY <1>1, <1>3, <1>4, ClientStep, TypesSteps, TypesAnnounce

\* MPI_Barrier keeps the types.
LEMMA TypesMpi ==
    ASSUME DirTypes, MpiBarrier
    PROVE  DirTypes'
  <1>1. \A c \in Clients : todo[c] \in Seq(CallType) /\ todo[c] # <<>>
    BY DEF MpiBarrier, Calls, DirTypes
  <1>2. \A c \in Clients : Tail(todo[c]) \in Seq(CallType)
    BY <1>1, HeadTailProperties
  <1>3. todo' \in [Clients -> Seq(CallType)]
    BY <1>2 DEF MpiBarrier
  <1>4. UNCHANGED <<kv, tree, dfs, mq, dirtab, current_barrier_id, pc, load, cur, passed, rpc, removing, adding>>
    BY DEF MpiBarrier, serverVars
  <1> QED
    BY <1>3, <1>4 DEF DirTypes

\* The message that a commit thread has taken.
LEMMA TakenMsg ==
    ASSUME DirTypes, RoundInv, NEW n \in Nodes, cur[n] # Null
    PROVE  /\ cur[n] \in Clients /\ NodeOf[cur[n]] = n /\ mq[cur[n]] # <<>> /\ ~Stopped(n)
           /\ Msg(n) = mq[cur[n]][1] /\ Msg(n) \in MsgType /\ 1 \in DOMAIN mq[cur[n]]
           /\ Tail(mq[cur[n]]) \in Seq(MsgType) /\ Len(mq[cur[n]]) \in Nat \ {0}
           /\ Len(Tail(mq[cur[n]])) = Len(mq[cur[n]]) - 1
           /\ \A i \in 1 .. Len(mq[cur[n]]) - 1 : Tail(mq[cur[n]])[i] = mq[cur[n]][i + 1]
  <1>1. cur[n] \in Clients /\ mq[cur[n]] # <<>> /\ NodeOf[cur[n]] = n /\ ~Stopped(n)
    BY DEF DirTypes, RoundInv
  <1>2. mq[cur[n]] \in Seq(MsgType)
    BY <1>1 DEF DirTypes
  <1> QED
    BY <1>1, <1>2, FirstMsg, HeadTailProperties DEF Msg

\* A commit thread that ends a message keeps the types.
LEMMA TypesCommit ==
    ASSUME DirTypes, RoundInv, NEW n \in Nodes, Commit(n)
    PROVE  DirTypes'
  <1>1. cur[n] # Null
    BY DEF Commit, Apply, Count
  <1>2. cur[n] \in Clients /\ Tail(mq[cur[n]]) \in Seq(MsgType) /\ Msg(n) \in MsgType
    BY <1>1, TakenMsg
  <1>3. mq' = [mq EXCEPT ![cur[n]] = Tail(@)] /\ cur' = [cur EXCEPT ![n] = Null]
    BY DEF Commit, Apply, Count
  <1>4. mq' \in [Clients -> Seq(MsgType)] /\ cur' \in [Nodes -> Clients \cup {Null}]
    BY <1>2, <1>3 DEF DirTypes
  <1>5. UNCHANGED dfs \/ (dfs' = [dfs EXCEPT ![Msg(n).path] = Msg(n).op] /\ Msg(n).op # "barrier")
    <2>1. CASE Apply(n)
      <3>1. CASE Filtered(n, Msg(n).path)
        BY <2>1, <3>1 DEF Apply
      <3>2. CASE ~Filtered(n, Msg(n).path)
        BY <2>1, <3>2 DEF Apply
      <3> QED
        BY <3>1, <3>2
    <2>2. CASE Count(n)
      BY <2>2 DEF Count
    <2> QED
      BY <2>1, <2>2 DEF Commit
  <1>6. dfs' \in [Paths -> Kind]
    BY <1>2, <1>5, MsgFields DEF DirTypes, Kind
  <1>7. passed' \in SUBSET Clients
    BY <1>2 DEF Commit, Apply, Count, DirTypes
  <1>8. UNCHANGED <<kv, tree, todo, dirtab, current_barrier_id, pc, load, rpc, removing, adding>>
    BY DEF Commit, Apply, Count, clientVars
  <1> QED
    BY <1>4, <1>6, <1>7, <1>8 DEF DirTypes

\* A step of an RPC thread that leaves the stores.
RpcType ==
    [step : Steps, client : Clients \cup {Null}, stack : Seq(FrameType),
     peers : SUBSET Nodes, slot : Nat]
ListType == [count : Nat, list : [0 .. MaxRemoving -> Paths \cup {Blank}]]

\* The RPC and cluster threads change their own state and removing_dirs.
LEMMA TypesLists ==
    ASSUME DirTypes, rpc' \in [Nodes -> RpcType], removing' \in [Nodes -> ListType],
           adding' \in [Nodes -> [from : Nodes, slot : Nat] \cup {Null}],
           UNCHANGED <<kv, dfs, mq, clientVars, cur, passed, tree>>
    PROVE  DirTypes'
  BY DEF DirTypes, RpcType, ListType, clientVars

\* A commit thread that takes a message keeps the types.
LEMMA TypesTake ==
    ASSUME DirTypes, NEW n \in Nodes, NEW c \in Clients, Take(n, c)
    PROVE  DirTypes'
  <1>1. cur' \in [Nodes -> Clients \cup {Null}]
    BY DEF Take, DirTypes
  <1>2. UNCHANGED <<kv, dfs, tree, mq, todo, dirtab, current_barrier_id, pc, load, passed, rpc, removing, adding>>
    BY DEF Take, clientVars
  <1> QED
    BY <1>1, <1>2 DEF DirTypes

\* The fields of an RPC thread can be set one by one.
LEMMA RpcSets ==
    ASSUME NEW r \in RpcType, NEW x \in Steps, NEW c \in Clients, NEW s \in Seq(FrameType),
           NEW P \in SUBSET Nodes, NEW k \in Nat
    PROVE  /\ [r EXCEPT !.client = c, !.step = x] \in RpcType
           /\ [r EXCEPT !.step = x] \in RpcType
           /\ [r EXCEPT !.slot = k, !.step = x] \in RpcType
           /\ [r EXCEPT !.peers = P, !.step = x] \in RpcType
           /\ [r EXCEPT !.peers = P] \in RpcType
           /\ [r EXCEPT !.step = x, !.stack = s] \in RpcType
           /\ [r EXCEPT !.stack = s, !.step = x] \in RpcType
           /\ [r EXCEPT !.stack = s] \in RpcType
  BY DEF RpcType

\* A local RPC thread that receives a request keeps the types.
LEMMA TypesRecv ==
    ASSUME DirTypes, NEW n \in Nodes, NEW c \in Clients, RpcRecv(n, c)
    PROVE  DirTypes'
  <1> DEFINE x == IF Call(c).op = "rmdir" THEN "list" ELSE "hold"
             r == [rpc[n] EXCEPT !.client = c, !.step = x]
  <1>1. rpc \in [Nodes -> RpcType] /\ rpc[n] \in RpcType
    BY DEF DirTypes, RpcType
  <1>2. x \in Steps
    BY DEF Steps
  <1>3. r \in RpcType
    BY <1>1, <1>2, RpcSets, EmptySeq
  <1>4. rpc' = [rpc EXCEPT ![n] = r]
    BY <1>1 DEF RpcRecv
  <1> HIDE DEF r
  <1>5. rpc' \in [Nodes -> RpcType]
    BY <1>1, <1>3, <1>4
  <1> QED
    BY <1>5, TypesLists DEF RpcRecv, DirTypes, ListType

\* A slot of removing_dirs is written, and the count goes up.
LEMMA ListTypes ==
    ASSUME DirTypes, NEW n \in Nodes, NEW p \in Paths, NEW k \in Nat
    PROVE  /\ [removing EXCEPT ![n].list[removing[n].count] = p] \in [Nodes -> ListType]
           /\ Incremented(n, k) => removing' \in [Nodes -> ListType]
           /\ Forget(n, p) => removing' \in [Nodes -> ListType]
  <1>1. removing \in [Nodes -> ListType]
    BY DEF DirTypes, ListType
  <1>2. removing[n] \in ListType /\ removing[n].count \in Nat
        /\ removing[n].list \in [0 .. MaxRemoving -> Paths \cup {Blank}]
    BY <1>1 DEF ListType
  <1>3. [removing[n].list EXCEPT ![removing[n].count] = p] \in [0 .. MaxRemoving -> Paths \cup {Blank}]
    BY <1>2
  <1>4. [removing EXCEPT ![n].list[removing[n].count] = p] \in [Nodes -> ListType]
    BY <1>1, <1>3 DEF ListType
  <1>5. Incremented(n, k) => removing' \in [Nodes -> ListType]
    <2> SUFFICES ASSUME Incremented(n, k) PROVE removing' \in [Nodes -> ListType]
      OBVIOUS
    <2>1. PICK j \in {k, removing[n].count} : removing' = [removing EXCEPT ![n].count = j + 1]
      BY DEF Incremented
    <2>2. j + 1 \in Nat
      BY <1>2
    <2> QED
      BY <1>1, <2>1, <2>2 DEF ListType
  <1>6. Unlisted(removing[n], p) \in ListType
    <2> DEFINE held == {i \in 0 .. removing[n].count - 1 : removing[n].list[i] = p}
               u == CHOOSE i \in held : \A j \in held : j <= i
               l == [removing[n].list EXCEPT ![u] = Blank]
    <2>1. CASE held = {}
      BY <1>2, <2>1 DEF Unlisted
    <2>2. CASE held # {}
      <3>1. removing[n].count - 1 \in Nat
        BY <1>2, <2>2
      <3>2. l \in [0 .. MaxRemoving -> Paths \cup {Blank}]
        BY <1>2
      <3>3. Unlisted(removing[n], p) = [count |-> removing[n].count - 1, list |-> l]
        BY <2>2 DEF Unlisted
      <3> QED
        BY <3>1, <3>2, <3>3 DEF ListType
    <2> QED
      BY <2>1, <2>2
  <1>7. Forget(n, p) => removing' \in [Nodes -> ListType]
    <2> SUFFICES ASSUME Forget(n, p) PROVE removing' \in [Nodes -> ListType]
      OBVIOUS
    <2>1. \/ removing' = [removing EXCEPT ![n] = Unlisted(removing[n], p)]
          \/ removing' = [removing EXCEPT ![n].list = Unlisted(removing[n], p).list]
      BY DEF Forget
    <2> QED
      BY <1>1, <1>6, <2>1 DEF ListType
  <1> QED
    BY <1>4, <1>5, <1>7

-----------------------------------------------------------------------------
(* The steps of an RPC thread.                                             *)

\* The thread of n goes to step x with stack s and peers P, for the same client.
RpcMoves(n, x, s, P) ==
    /\ rpc' \in [Nodes -> RpcType]
    /\ \A k \in Nodes : k # n => rpc'[k] = rpc[k]
    /\ rpc'[n].step = x /\ rpc'[n].client = rpc[n].client
    /\ rpc'[n].stack = s /\ rpc'[n].peers = P

\* A thread that changes its record, but for the client, moves in the sense above.
LEMMA MoveBy ==
    ASSUME DirTypes, NEW n \in Nodes, NEW r \in RpcType, rpc' = [rpc EXCEPT ![n] = r],
           r.client = rpc[n].client
    PROVE  RpcMoves(n, r.step, r.stack, r.peers)
  <1>1. rpc \in [Nodes -> RpcType]
    BY DEF DirTypes, RpcType
  <1> QED
    BY <1>1 DEF RpcMoves

\* One form of step after the other.
LEMMA MoveForms ==
    ASSUME DirTypes, NEW n \in Nodes
    PROVE  /\ \A x \in Steps : rpc' = [rpc EXCEPT ![n].step = x] =>
                 RpcMoves(n, x, rpc[n].stack, rpc[n].peers)
           /\ \A x \in Steps : \A k \in Nat : rpc' = [rpc EXCEPT ![n].slot = k, ![n].step = x] =>
                 RpcMoves(n, x, rpc[n].stack, rpc[n].peers)
           /\ \A x \in Steps : \A P \in SUBSET Nodes :
                 rpc' = [rpc EXCEPT ![n].peers = P, ![n].step = x] =>
                 RpcMoves(n, x, rpc[n].stack, P)
           /\ \A P \in SUBSET Nodes : rpc' = [rpc EXCEPT ![n].peers = P] =>
                 RpcMoves(n, rpc[n].step, rpc[n].stack, P)
           /\ \A x \in Steps : \A s \in Seq(FrameType) :
                 rpc' = [rpc EXCEPT ![n].step = x, ![n].stack = s] => RpcMoves(n, x, s, rpc[n].peers)
           /\ \A x \in Steps : \A s \in Seq(FrameType) :
                 rpc' = [rpc EXCEPT ![n].stack = s, ![n].step = x] => RpcMoves(n, x, s, rpc[n].peers)
           /\ \A s \in Seq(FrameType) : rpc' = [rpc EXCEPT ![n].stack = s] =>
                 RpcMoves(n, rpc[n].step, s, rpc[n].peers)
  <1> DEFINE r == rpc[n]
  <1>1. rpc \in [Nodes -> RpcType] /\ r \in RpcType
    BY DEF DirTypes, RpcType
  <1>2. ASSUME NEW x \in Steps, rpc' = [rpc EXCEPT ![n].step = x]
        PROVE  RpcMoves(n, x, r.stack, r.peers)
    <2> DEFINE q == [r EXCEPT !.step = x]
    <2>1. q \in RpcType /\ rpc' = [rpc EXCEPT ![n] = q]
      BY <1>1, <1>2 DEF RpcType
    <2>2. q.step = x /\ q.client = r.client /\ q.stack = r.stack /\ q.peers = r.peers
      BY <1>1 DEF RpcType
    <2> HIDE DEF q
    <2> QED
      BY <2>1, <2>2, MoveBy
  <1>3. ASSUME NEW x \in Steps, NEW k \in Nat, rpc' = [rpc EXCEPT ![n].slot = k, ![n].step = x]
        PROVE  RpcMoves(n, x, r.stack, r.peers)
    <2> DEFINE q == [r EXCEPT !.slot = k, !.step = x]
    <2>1. q \in RpcType /\ rpc' = [rpc EXCEPT ![n] = q]
      BY <1>1, <1>3 DEF RpcType
    <2>2. q.step = x /\ q.client = r.client /\ q.stack = r.stack /\ q.peers = r.peers
      BY <1>1 DEF RpcType
    <2> HIDE DEF q
    <2> QED
      BY <2>1, <2>2, MoveBy
  <1>4. ASSUME NEW x \in Steps, NEW P \in SUBSET Nodes,
               rpc' = [rpc EXCEPT ![n].peers = P, ![n].step = x]
        PROVE  RpcMoves(n, x, r.stack, P)
    <2> DEFINE q == [r EXCEPT !.peers = P, !.step = x]
    <2>1. q \in RpcType /\ rpc' = [rpc EXCEPT ![n] = q]
      BY <1>1, <1>4 DEF RpcType
    <2>2. q.step = x /\ q.client = r.client /\ q.stack = r.stack /\ q.peers = P
      BY <1>1 DEF RpcType
    <2> HIDE DEF q
    <2> QED
      BY <2>1, <2>2, MoveBy
  <1>5. ASSUME NEW P \in SUBSET Nodes, rpc' = [rpc EXCEPT ![n].peers = P]
        PROVE  RpcMoves(n, r.step, r.stack, P)
    <2> DEFINE q == [r EXCEPT !.peers = P]
    <2>1. q \in RpcType /\ rpc' = [rpc EXCEPT ![n] = q]
      BY <1>1, <1>5 DEF RpcType
    <2>2. q.step = r.step /\ q.client = r.client /\ q.stack = r.stack /\ q.peers = P
      BY <1>1 DEF RpcType
    <2> HIDE DEF q
    <2> QED
      BY <2>1, <2>2, MoveBy
  <1>6. ASSUME NEW x \in Steps, NEW s \in Seq(FrameType),
               \/ rpc' = [rpc EXCEPT ![n].step = x, ![n].stack = s]
               \/ rpc' = [rpc EXCEPT ![n].stack = s, ![n].step = x]
        PROVE  RpcMoves(n, x, s, r.peers)
    <2> DEFINE q == [r EXCEPT !.step = x, !.stack = s]
    <2>1. q \in RpcType /\ rpc' = [rpc EXCEPT ![n] = q]
      BY <1>1, <1>6 DEF RpcType
    <2>2. q.step = x /\ q.client = r.client /\ q.stack = s /\ q.peers = r.peers
      BY <1>1 DEF RpcType
    <2> HIDE DEF q
    <2> QED
      BY <2>1, <2>2, MoveBy
  <1>7. ASSUME NEW s \in Seq(FrameType), rpc' = [rpc EXCEPT ![n].stack = s]
        PROVE  RpcMoves(n, r.step, s, r.peers)
    <2> DEFINE q == [r EXCEPT !.stack = s]
    <2>1. q \in RpcType /\ rpc' = [rpc EXCEPT ![n] = q]
      BY <1>1, <1>7 DEF RpcType
    <2>2. q.step = r.step /\ q.client = r.client /\ q.stack = s /\ q.peers = r.peers
      BY <1>1 DEF RpcType
    <2> HIDE DEF q
    <2> QED
      BY <2>1, <2>2, MoveBy
  <1> QED
    BY <1>2, <1>3, <1>4, <1>5, <1>6, <1>7

\* The call that is served is an rmdir or a readdir.
LEMMA ServedOp ==
    ASSUME DirTypes, RpcInv, NoRenames, NEW n \in Nodes, rpc[n].step # "recv"
    PROVE  Served(n).op \in {"rmdir", "readdir"}
  <1>1. /\ rpc[n].client \in Clients /\ todo[rpc[n].client] # <<>>
        /\ Served(n) = todo[rpc[n].client][1] /\ Served(n).op \in BarrierOps
    BY ServedCall
  <1>2. 1 \in DOMAIN todo[rpc[n].client]
    BY <1>1, NextCall
  <1> QED
    BY <1>1, <1>2 DEF NoRenames, BarrierOps

\* Where each action takes the thread.
LEMMA ListMoves ==
    ASSUME DirTypes, NEW n \in Nodes
    PROVE  /\ ListSlot(n) => RpcMoves(n, "listed", rpc[n].stack, rpc[n].peers)
           /\ ListCount(n) => RpcMoves(n, "tell", rpc[n].stack, Peers(n))
           /\ ListTold(n) => RpcMoves(n, "hold", rpc[n].stack, rpc[n].peers)
           /\ Unlist(n) => RpcMoves(n, IF Peers(n) = {} THEN "end" ELSE "untell",
                                    rpc[n].stack, Peers(n))
  <1>1. removing[n].count \in Nat /\ Peers(n) \in SUBSET Nodes
    BY DEF DirTypes, Peers
  <1>2. {"listed", "tell", "hold", "untell", "end"} \subseteq Steps
    BY DEF Steps
  <1>3. ListSlot(n) => RpcMoves(n, "listed", rpc[n].stack, rpc[n].peers)
    BY <1>1, <1>2, MoveForms DEF ListSlot
  <1>4. ListCount(n) => RpcMoves(n, "tell", rpc[n].stack, Peers(n))
    BY <1>1, <1>2, MoveForms DEF ListCount
  <1>5. ListTold(n) => RpcMoves(n, "hold", rpc[n].stack, rpc[n].peers)
    BY <1>2, MoveForms DEF ListTold, Go
  <1>6. ASSUME Unlist(n)
        PROVE  RpcMoves(n, IF Peers(n) = {} THEN "end" ELSE "untell", rpc[n].stack, Peers(n))
    <2> DEFINE x == IF Peers(n) = {} THEN "end" ELSE "untell"
    <2>1. x \in Steps /\ rpc' = [rpc EXCEPT ![n].peers = Peers(n), ![n].step = x]
      BY <1>2, <1>6 DEF Unlist
    <2> HIDE DEF x
    <2>2. RpcMoves(n, x, rpc[n].stack, Peers(n))
      BY <1>1, <2>1, MoveForms
    <2> QED
      BY <2>2 DEF x
  <1> QED
    BY <1>3, <1>4, <1>5, <1>6

\* Where the threads are that CL_ADD_REMOVING_DIR and CL_DEL_REMOVING_DIR answer.
LEMMA PeerMoves ==
    ASSUME DirTypes, NEW n \in Nodes, NEW m \in Nodes
    PROVE  /\ DelRemoving(n, m) =>
                 RpcMoves(n, IF rpc[n].peers = {m} THEN "end" ELSE "untell", rpc[n].stack,
                          rpc[n].peers \ {m})
           /\ AddCount(m) /\ adding[m].from = n =>
                 RpcMoves(n, rpc[n].step, rpc[n].stack, rpc[n].peers \ {m})
  <1>1. rpc[n].peers \in SUBSET Nodes
    BY DEF DirTypes
  <1>2. rpc[n].peers \ {m} \in SUBSET Nodes
    BY <1>1
  <1>3. ASSUME DelRemoving(n, m)
        PROVE  RpcMoves(n, IF rpc[n].peers = {m} THEN "end" ELSE "untell", rpc[n].stack,
                        rpc[n].peers \ {m})
    <2> DEFINE x == IF rpc[n].peers = {m} THEN "end" ELSE "untell"
               P == rpc[n].peers \ {m}
    <2>1. x \in Steps /\ rpc' = [rpc EXCEPT ![n].peers = P, ![n].step = x]
      BY <1>3 DEF DelRemoving, DirTypes, Steps
    <2> HIDE DEF x
    <2>2. RpcMoves(n, x, rpc[n].stack, P)
      BY <1>2, <2>1, MoveForms
    <2> QED
      BY <2>2 DEF x
  <1>4. ASSUME AddCount(m), adding[m].from = n
        PROVE  RpcMoves(n, rpc[n].step, rpc[n].stack, rpc[n].peers \ {m})
    <2>1. rpc' = [rpc EXCEPT ![n].peers = rpc[n].peers \ {m}]
      BY <1>4 DEF AddCount, DirTypes
    <2> QED
      BY <1>2, <2>1, MoveForms
  <1> QED
    BY <1>3, <1>4

\* Stacks are stacks of frames.
LEMMA StackTypes ==
    ASSUME DirTypes, NEW n \in Nodes, rpc[n].stack # <<>>
    PROVE  /\ rpc[n].stack \in Seq(FrameType) /\ Len(rpc[n].stack) \in Nat \ {0}
           /\ DOMAIN rpc[n].stack = 1 .. Len(rpc[n].stack)
           /\ Top(n) = rpc[n].stack[Len(rpc[n].stack)] /\ Top(n) \in FrameType
           /\ Top(n).dir \in Paths /\ Top(n).left \in SUBSET Paths
           /\ Front(rpc[n].stack) \in Seq(FrameType)
           /\ Len(Front(rpc[n].stack)) = Len(rpc[n].stack) - 1
           /\ \A i \in 1 .. Len(rpc[n].stack) - 1 : Front(rpc[n].stack)[i] = rpc[n].stack[i]
  <1>1. rpc[n].stack \in Seq(FrameType)
    BY DEF DirTypes
  <1>2. Top(n) = Last(rpc[n].stack)
    BY DEF Top
  <1>3. /\ Len(rpc[n].stack) \in Nat \ {0}
        /\ Front(rpc[n].stack) \in Seq(FrameType)
        /\ Len(Front(rpc[n].stack)) = Len(rpc[n].stack) - 1
        /\ \A i \in 1 .. Len(rpc[n].stack) - 1 : Front(rpc[n].stack)[i] = rpc[n].stack[i]
        /\ Top(n) = rpc[n].stack[Len(rpc[n].stack)] /\ Top(n) \in FrameType
    <2> DEFINE s == rpc[n].stack
    <2>1. s \in Seq(FrameType) /\ s # <<>>
      BY <1>1
    <2> HIDE DEF s
    <2>2. /\ Len(s) \in Nat \ {0} /\ Front(s) \in Seq(FrameType) /\ Len(Front(s)) = Len(s) - 1
          /\ \A i \in 1 .. Len(s) - 1 : Front(s)[i] = s[i]
          /\ Last(s) = s[Len(s)] /\ Last(s) \in FrameType
      BY <2>1, FrontSeq
    <2> QED
      BY <1>2, <2>2, Zenon DEF s
  <1>4. Top(n).dir \in Paths /\ Top(n).left \in SUBSET Paths
    BY <1>3 DEF FrameType
  <1>5. DOMAIN rpc[n].stack = 1 .. Len(rpc[n].stack)
    BY <1>1
  <1> QED
    BY <1>1, <1>3, <1>4, <1>5

\* The stack t is s after the entry p of the directory on top.
StepsDown(t, s, p) ==
    /\ DOMAIN t = 1 .. Len(t) /\ Len(t) = Len(s) + (IF dfs[p] = "dir" THEN 1 ELSE 0)
    /\ \A i \in 1 .. Len(s) :
          /\ t[i].dir = s[i].dir
          /\ t[i].left = IF i = Len(s) THEN s[i].left \ {p} ELSE s[i].left
    /\ dfs[p] = "dir" => t[Len(s) + 1] = Frame(p)

\* The stack after an entry of the directory on top.
NextStack(n, p) == Visited(n, p, IF dfs[p] = "dir" THEN <<Frame(p)>> ELSE <<>>)

\* It is a stack of frames that goes on at that entry.
LEMMA VisitedStack ==
    ASSUME DirTypes, NEW n \in Nodes, rpc[n].stack # <<>>, NEW p \in Paths, NEW t,
           t = NextStack(n, p)
    PROVE  t \in Seq(FrameType) /\ t # <<>> /\ StepsDown(t, rpc[n].stack, p)
  <1> DEFINE more == IF dfs[p] = "dir" THEN <<Frame(p)>> ELSE <<>>
             f == [Top(n) EXCEPT !.left = @ \ {p}]
             s == rpc[n].stack
  <1>1. s \in Seq(FrameType) /\ Top(n) \in FrameType /\ Top(n) = s[Len(s)] /\ Len(s) \in Nat \ {0}
    BY StackTypes
  <1>2. f \in FrameType /\ f.dir = s[Len(s)].dir /\ f.left = s[Len(s)].left \ {p}
    BY <1>1 DEF FrameType
  <1>3. more \in Seq(FrameType) /\ Len(more) = (IF dfs[p] = "dir" THEN 1 ELSE 0)
        /\ (dfs[p] = "dir" => more[1] = Frame(p))
    BY FrameFacts
  <1>4. t = Append(Front(s), f) \o more
    BY DEF NextStack, Visited
  <1>5. s # <<>>
    OBVIOUS
  <1> DEFINE u == Append(Front(s), f)
  <1> HIDE DEF f, more, s
  <1>6. /\ t \in Seq(FrameType) /\ Len(t) = Len(s) + Len(more)
        /\ \A i \in 1 .. Len(s) : t[i] = IF i = Len(s) THEN f ELSE s[i]
        /\ \A i \in 1 .. Len(more) : t[Len(s) + i] = more[i]
    <2>1. Len(s) \in Nat \ {0} /\ Len(more) \in Nat
      BY <1>1, <1>3, LenProperties
    <2>2. Front(s) \in Seq(FrameType) /\ Len(Front(s)) = Len(s) - 1
          /\ \A i \in 1 .. Len(s) - 1 : Front(s)[i] = s[i]
      BY <1>1, <1>5, FrontSeq
    <2>3. u \in Seq(FrameType) /\ Len(u) = Len(s)
          /\ \A i \in 1 .. Len(s) : u[i] = IF i = Len(s) THEN f ELSE s[i]
      BY <1>2, <2>1, <2>2, AppendProperties
    <2>4. t = u \o more
      BY <1>4
    <2> HIDE DEF u
    <2>5. u \o more \in Seq(FrameType) /\ Len(u \o more) = Len(u) + Len(more)
          /\ \A i \in 1 .. Len(u) + Len(more) :
                (u \o more)[i] = IF i <= Len(u) THEN u[i] ELSE more[i - Len(u)]
      <3>1. u \in Seq(FrameType) /\ more \in Seq(FrameType)
        BY <1>3, <2>3
      <3> QED
        BY <3>1, ConcatProperties, Zenon
    <2>6. t \in Seq(FrameType) /\ Len(t) = Len(s) + Len(more)
          /\ \A i \in 1 .. Len(s) + Len(more) : t[i] = IF i <= Len(s) THEN u[i] ELSE more[i - Len(s)]
      BY <2>3, <2>4, <2>5, Zenon
    <2>7. \A i \in 1 .. Len(s) : t[i] = u[i]
      BY <2>1, <2>6
    <2>8. ASSUME NEW i \in 1 .. Len(more) PROVE t[Len(s) + i] = more[i]
      BY <2>1, <2>6
    <2> QED
      BY <2>3, <2>6, <2>7, <2>8
  <1>7. \A i \in 1 .. Len(s) : /\ t[i].dir = s[i].dir
                              /\ t[i].left = IF i = Len(s) THEN s[i].left \ {p} ELSE s[i].left
    BY <1>2, <1>6
  <1>8. dfs[p] = "dir" => t[Len(s) + 1] = Frame(p)
    BY <1>3, <1>6
  <1>9. t # <<>> /\ DOMAIN t = 1 .. Len(t)
    <2>1. Len(t) \in Nat \ {0}
      BY <1>1, <1>3, <1>6
    <2> QED
      BY <1>6, <2>1
  <1> QED
    BY <1>3, <1>6, <1>7, <1>8, <1>9 DEF s, StepsDown

\* Where the walk of traversedir_dmkv_del goes in a step.
LEMMA WalkMoves ==
    ASSUME DirTypes, RpcInv, NEW n \in Nodes
    PROVE  /\ \A p \in Paths : WalkDel(n, p) =>
                 /\ NextStack(n, p) \in Seq(FrameType)
                 /\ RpcMoves(n, "walk", NextStack(n, p), rpc[n].peers)
           /\ WalkRmdir(n) =>
                 RpcMoves(n, IF Front(rpc[n].stack) = <<>> THEN "unlist" ELSE "walk",
                          Front(rpc[n].stack), rpc[n].peers)
  <1>1. ASSUME NEW p \in Paths, WalkDel(n, p)
        PROVE  /\ NextStack(n, p) \in Seq(FrameType)
               /\ RpcMoves(n, "walk", NextStack(n, p), rpc[n].peers)
    <2>1. rpc[n].step = "walk" /\ rpc[n].stack # <<>>
      BY <1>1 DEF WalkDel, At, RpcInv
    <2>2. NextStack(n, p) \in Seq(FrameType)
      BY <2>1, VisitedStack
    <2>3. rpc' = [rpc EXCEPT ![n].stack = NextStack(n, p)]
      BY <1>1 DEF WalkDel, NextStack
    <2>4. RpcMoves(n, rpc[n].step, NextStack(n, p), rpc[n].peers)
      BY <2>2, <2>3, MoveForms
    <2> QED
      BY <2>1, <2>2, <2>4
  <1>2. ASSUME WalkRmdir(n)
        PROVE  RpcMoves(n, IF Front(rpc[n].stack) = <<>> THEN "unlist" ELSE "walk",
                        Front(rpc[n].stack), rpc[n].peers)
    <2> DEFINE x == IF Front(rpc[n].stack) = <<>> THEN "unlist" ELSE "walk"
    <2>1. rpc[n].step = "walk" /\ rpc[n].stack # <<>>
      BY <1>2 DEF WalkRmdir, At, RpcInv
    <2>2. Front(rpc[n].stack) \in Seq(FrameType)
      BY <2>1, StackTypes
    <2>3. x \in Steps /\ rpc' = [rpc EXCEPT ![n].stack = Front(rpc[n].stack), ![n].step = x]
      BY <1>2 DEF WalkRmdir, Steps
    <2> HIDE DEF x
    <2>4. RpcMoves(n, x, Front(rpc[n].stack), rpc[n].peers)
      BY <2>2, <2>3, MoveForms
    <2> QED
      BY <2>4 DEF x
  <1> QED
    BY <1>1, <1>2

\* Where a thread goes behind the barrier.
LEMMA HoldMoves ==
    ASSUME DirTypes, RpcInv, NoRenames, NEW n \in Nodes, Hold(n)
    PROVE  /\ Served(n).op = "readdir" => RpcMoves(n, "end", <<>>, rpc[n].peers)
           /\ Served(n).op = "rmdir" =>
                 RpcMoves(n, IF dfs[Served(n).path] # "dir" THEN "crashed" ELSE "walk",
                          <<Frame(Served(n).path)>>, rpc[n].peers)
  <1>1. rpc[n].step = "hold" /\ Served(n).path \in Paths
    BY ServedCall DEF Hold, At
  <1>2. ASSUME Served(n).op = "readdir" PROVE RpcMoves(n, "end", <<>>, rpc[n].peers)
    <2>1. rpc' = [rpc EXCEPT ![n].step = "end", ![n].stack = <<>>]
      BY <1>2 DEF Hold
    <2>2. "end" \in Steps /\ <<>> \in Seq(FrameType)
      BY DEF Steps
    <2> QED
      BY <2>1, <2>2, MoveForms
  <1>3. ASSUME Served(n).op = "rmdir"
        PROVE  RpcMoves(n, IF dfs[Served(n).path] # "dir" THEN "crashed" ELSE "walk",
                        <<Frame(Served(n).path)>>, rpc[n].peers)
    <2> DEFINE x == IF dfs[Served(n).path] # "dir" THEN "crashed" ELSE "walk"
               s == <<Frame(Served(n).path)>>
    <2>1. rpc' = [rpc EXCEPT ![n].step = x, ![n].stack = s]
      BY <1>3 DEF Hold
    <2>2. x \in Steps
      BY DEF Steps
    <2>3. Frame(Served(n).path) \in FrameType
      BY <1>1, FrameFacts
    <2>4. s \in Seq(FrameType)
      BY <2>3
    <2> HIDE DEF x, s
    <2>5. RpcMoves(n, x, s, rpc[n].peers)
      BY <2>1, <2>2, <2>4, MoveForms
    <2> QED
      BY <2>5 DEF x, s
  <1> QED
    BY <1>2, <1>3

\* The steps of a rename do not happen.
LEMMA NoRenameSteps ==
    ASSUME DirTypes, RpcInv, NoRenames, NEW n \in Nodes
    PROVE  ~WalkBack(n) /\ ~Rename(n) /\ \A p \in Paths : ~WalkRename(n, p)
  <1>1. rpc[n].step # "recv" => Served(n).op # "rename"
    BY ServedOp
  <1> QED
    BY <1>1 DEF WalkBack, Rename, WalkRename, At

\* Every step of a local RPC thread keeps the types.
LEMMA TypesRpc ==
    ASSUME DirTypes, RpcInv, NoRenames, NEW n \in Nodes, Rpc(n)
    PROVE  DirTypes'
  <1>1. /\ rpc \in [Nodes -> RpcType] /\ removing \in [Nodes -> ListType]
        /\ adding \in [Nodes -> [from : Nodes, slot : Nat] \cup {Null}]
    BY DEF DirTypes, RpcType, ListType
  <1>2. rpc[n].step # "recv" => Served(n).path \in Paths /\ rpc[n].slot \in Nat
    BY <1>1, ServedCall DEF RpcType
  <1>3. ASSUME ListSlot(n) PROVE DirTypes'
    <2>1. rpc' \in [Nodes -> RpcType]
      BY <1>3, ListMoves DEF RpcMoves
    <2>2. removing' \in [Nodes -> ListType]
      BY <1>2, <1>3, ListTypes DEF ListSlot, At
    <2> QED
      BY <1>1, <1>3, <2>1, <2>2, TypesLists DEF ListSlot
  <1>4. ASSUME ListCount(n) PROVE DirTypes'
    <2>1. rpc' \in [Nodes -> RpcType]
      BY <1>4, ListMoves DEF RpcMoves
    <2>2. removing' \in [Nodes -> ListType]
      BY <1>2, <1>4, ListTypes DEF ListCount, At
    <2> QED
      BY <1>1, <1>4, <2>1, <2>2, TypesLists DEF ListCount
  <1>5. ASSUME ListTold(n) PROVE DirTypes'
    <2>1. rpc' \in [Nodes -> RpcType]
      BY <1>5, ListMoves DEF RpcMoves
    <2> QED
      BY <1>1, <1>5, <2>1, TypesLists DEF ListTold
  <1>6. ASSUME Hold(n) PROVE DirTypes'
    <2>1. Served(n).op \in {"rmdir", "readdir"}
      BY <1>6, ServedOp DEF Hold, At
    <2>2. rpc' \in [Nodes -> RpcType]
      BY <1>6, <2>1, HoldMoves DEF RpcMoves
    <2> QED
      BY <1>1, <1>6, <2>2, TypesLists DEF Hold
  <1>7. ASSUME NEW p \in Paths, WalkDel(n, p) PROVE DirTypes'
    <2>1. rpc' \in [Nodes -> RpcType]
      BY <1>7, WalkMoves DEF RpcMoves
    <2>2. kv' \in [Paths -> CacheType] /\ dfs' \in [Paths -> Kind]
      BY <1>7 DEF WalkDel, dmkv_del, DirTypes, CacheType, Kind
    <2>3. UNCHANGED <<tree, mq, todo, dirtab, current_barrier_id, pc, load, cur, passed, removing, adding>>
      BY <1>7 DEF WalkDel, clientVars
    <2> QED
      BY <2>1, <2>2, <2>3 DEF DirTypes, CacheType, RpcType
  <1>8. ASSUME WalkRmdir(n) PROVE DirTypes'
    <2>1. rpc' \in [Nodes -> RpcType]
      BY <1>8, WalkMoves DEF RpcMoves
    <2>2. dfs' \in [Paths -> Kind]
      <3>1. Top(n).dir \in Paths
        BY <1>8, StackTypes DEF WalkRmdir, At, RpcInv
      <3>2. UNCHANGED dfs \/ dfs' = [dfs EXCEPT ![Top(n).dir] = "none"]
        BY <1>8 DEF WalkRmdir
      <3> QED
        BY <3>1, <3>2 DEF DirTypes, Kind
    <2>3. UNCHANGED <<kv, tree, mq, todo, dirtab, current_barrier_id, pc, load, cur, passed, removing, adding>>
      BY <1>8 DEF WalkRmdir, clientVars
    <2> QED
      BY <2>1, <2>2, <2>3 DEF DirTypes, RpcType
  <1>9. ASSUME Unlist(n) PROVE DirTypes'
    <2>1. rpc' \in [Nodes -> RpcType]
      BY <1>9, ListMoves DEF RpcMoves
    <2>2. removing' \in [Nodes -> ListType]
      BY <1>2, <1>9, ListTypes DEF Unlist, At
    <2> QED
      BY <1>1, <1>9, <2>1, <2>2, TypesLists DEF Unlist
  <1>10. ASSUME End(n) PROVE DirTypes'
    <2>1. NoRpc \in RpcType
      BY EmptySeq DEF NoRpc, RpcType, Steps
    <2>2. rpc' \in [Nodes -> RpcType]
      BY <1>1, <1>10, <2>1 DEF End
    <2>3. rpc[n].client \in Clients /\ Served(n).op \in {"rmdir", "readdir"}
      BY <1>10, ServedCall, ServedOp DEF End, At
    <2>4. pc' \in [Clients -> {"idle", "request", "reply"}]
      BY <1>10, <2>3 DEF End, DirTypes
    <2>5. passed' \in SUBSET Clients
      BY <1>10 DEF End, DirTypes
    <2>6. tree' \in [Paths -> Kind]
      <3>1. \/ tree' = tree
            \/ tree' = [p \in Paths |-> IF Within(p, Served(n).path) THEN "none" ELSE tree[p]]
        BY <1>10, <2>3 DEF End, TreeAfter
      <3> QED
        BY <3>1 DEF DirTypes, Kind
    <2>7. UNCHANGED <<kv, dfs, mq, todo, dirtab, current_barrier_id, load, cur, removing, adding>>
      BY <1>10 DEF End
    <2> QED
      BY <2>2, <2>4, <2>5, <2>6, <2>7 DEF DirTypes, RpcType
  <1> QED
    BY <1>3, <1>4, <1>5, <1>6, <1>7, <1>8, <1>9, <1>10, NoRenameSteps DEF Rpc

\* Every step of a cluster thread keeps the types.
LEMMA TypesCluster ==
    ASSUME DirTypes, RpcInv, NEW m \in Nodes, Cluster(m)
    PROVE  DirTypes'
  <1>1. /\ rpc \in [Nodes -> RpcType] /\ removing \in [Nodes -> ListType]
        /\ adding \in [Nodes -> [from : Nodes, slot : Nat] \cup {Null}]
    BY DEF DirTypes, RpcType, ListType
  <1>2. ASSUME NEW n \in Nodes, AddSlot(n, m) PROVE DirTypes'
    <2>1. Served(n).path \in Paths
      BY <1>2, ServedCall DEF AddSlot, At
    <2>2. removing' \in [Nodes -> ListType]
      BY <1>2, <2>1, ListTypes DEF AddSlot
    <2>3. removing[m].count \in Nat
      BY <1>1 DEF ListType
    <2>4. adding' \in [Nodes -> [from : Nodes, slot : Nat] \cup {Null}]
      BY <1>1, <1>2, <2>3 DEF AddSlot
    <2> QED
      BY <1>1, <1>2, <2>2, <2>4, TypesLists DEF AddSlot
  <1>3. ASSUME AddCount(m) PROVE DirTypes'
    <2>1. adding[m].from \in Nodes /\ adding[m].slot \in Nat
      BY <1>1, <1>3 DEF AddCount
    <2>2. rpc' \in [Nodes -> RpcType]
      BY <1>3, <2>1, PeerMoves DEF RpcMoves
    <2>3. \A p \in Paths : removing' \in [Nodes -> ListType]
      BY <1>3, <2>1, ListTypes DEF AddCount
    <2>4. removing' \in [Nodes -> ListType]
      BY <2>3, ConstantsAssumption
    <2>5. adding' \in [Nodes -> [from : Nodes, slot : Nat] \cup {Null}]
      BY <1>1, <1>3 DEF AddCount
    <2> QED
      BY <1>3, <2>2, <2>4, <2>5, TypesLists DEF AddCount
  <1>4. ASSUME NEW n \in Nodes, DelRemoving(n, m) PROVE DirTypes'
    <2>1. Served(n).path \in Paths
      BY <1>4, ServedCall DEF DelRemoving, At
    <2>2. removing' \in [Nodes -> ListType]
      BY <1>4, <2>1, ListTypes DEF DelRemoving
    <2>3. rpc' \in [Nodes -> RpcType]
      BY <1>4, PeerMoves DEF RpcMoves
    <2> QED
      BY <1>1, <1>4, <2>2, <2>3, TypesLists DEF DelRemoving
  <1> QED
    BY <1>2, <1>3, <1>4 DEF Cluster

\* Every step keeps the types.
LEMMA TypesNext ==
    ASSUME DirTypes, RpcInv, RoundInv, StoreInv, LoadsInv, KeptOut, OnDirectories, NoRenames, Next
    PROVE  DirTypes'
  BY TypesMpi, TypesClient, TypesCommit, TypesRpc, TypesCluster, TypesTake, TypesRecv DEF Next

-----------------------------------------------------------------------------
(* Requests and the threads that serve them.                               *)

\* A step of a client that does not wait for its server.
LEMMA RpcByClient ==
    ASSUME DirTypes, RpcInv, NEW c \in Clients, pc[c] # "request",
           \A d \in Clients : d # c => todo'[d] = todo[d] /\ pc'[d] = pc[d],
           pc'[c] # "idle" => todo'[c] # <<>> /\ Call(c)'.op \in BarrierOps,
           UNCHANGED <<rpc, adding>>
    PROVE  RpcInv'
  <1>1. \A d \in Clients : pc'[d] # "idle" => todo'[d] # <<>> /\ Call(d)'.op \in BarrierOps
    <2> SUFFICES ASSUME NEW d \in Clients, pc'[d] # "idle"
                 PROVE  todo'[d] # <<>> /\ Call(d)'.op \in BarrierOps
      OBVIOUS
    <2>1. CASE d = c
      BY <2>1
    <2>2. CASE d # c
      BY <2>2 DEF RpcInv, Call
    <2> QED
      BY <2>1, <2>2
  <1>2. ASSUME NEW n \in Nodes, rpc[n].step # "recv"
        PROVE  /\ rpc[n].client \in Clients /\ NodeOf[rpc[n].client] = n
               /\ pc'[rpc[n].client] = "request" /\ Served(n)' = Served(n)
    <2>1. rpc[n].client \in Clients /\ NodeOf[rpc[n].client] = n /\ pc[rpc[n].client] = "request"
      BY <1>2, ServedCall
    <2> QED
      BY <2>1 DEF Served, Call
  <1>3. ASSUME NEW n \in Nodes
        PROVE  /\ IF rpc'[n].step = "recv" THEN rpc'[n] = NoRpc
                  ELSE /\ rpc'[n].client \in Clients /\ NodeOf[rpc'[n].client] = n
                       /\ pc'[rpc'[n].client] = "request"
               /\ rpc'[n].step \notin {"recv", "hold", "end"} => Served(n)'.op = "rmdir"
               /\ rpc'[n].step # "crashed"
               /\ rpc'[n].peers \subseteq Peers(n)
               /\ (rpc'[n].stack = <<>>) = (rpc'[n].step # "walk")
    BY <1>2 DEF RpcInv
  <1>4. \A m \in Nodes : adding'[m] # Null =>
           At(adding[m].from, "tell")' /\ m \in rpc'[adding'[m].from].peers
    BY DEF RpcInv, At
  <1> QED
    BY <1>1, <1>3, <1>4 DEF RpcInv, Peers, At

\* A call of a client leaves the threads that serve the others where they fit.
LEMMA RpcClient ==
    ASSUME DirTypes, RpcInv, RoundInv, StoreInv, LoadsInv, KeptOut, OnDirectories, NoRenames,
           NEW c \in Clients, Client(c)
    PROVE  RpcInv'
  <1>1. \/ Quiet(c) \/ Adds(c) \/ Sends(c) \/ Announce(c) \/ Clean(c)
        \/ RmdirDel(c) \/ Listed(c) \/ Renamed(c)
    BY ClientStep
  <1>2. UNCHANGED <<rpc, adding>> /\ pc[c] # "request"
    BY <1>1 DEF Quiet, Adds, Sends, Announce, Clean, RmdirDel, Listed, Renamed, serverVars, Calls, Answered
  <1>3. \/ Done(c)
        \/ UNCHANGED <<todo, pc>> /\ pc[c] = "idle"
        \/ /\ pc' = [pc EXCEPT ![c] = "request"] /\ UNCHANGED todo
           /\ todo[c] # <<>> /\ Call(c).op \in BarrierOps
    BY <1>1 DEF Quiet, Adds, Sends, Announce, Clean, RmdirDel, Listed, Renamed, Calls, Answered, BarrierOps
  <1>4. \A d \in Clients : d # c => todo'[d] = todo[d] /\ pc'[d] = pc[d]
    BY <1>3 DEF Done, DirTypes
  <1>5. pc'[c] # "idle" => todo'[c] # <<>> /\ Call(c)'.op \in BarrierOps
    <2>1. CASE Done(c)
      BY <2>1 DEF Done, DirTypes
    <2>2. CASE UNCHANGED todo /\ todo[c] # <<>> /\ Call(c).op \in BarrierOps
      BY <2>2 DEF Call
    <2> QED
      BY <1>3, <2>1, <2>2
  <1> QED
    BY <1>2, <1>4, <1>5, RpcByClient

\* No request waits at an MPI_Barrier.
LEMMA RpcMpi ==
    ASSUME DirTypes, RpcInv, MpiBarrier
    PROVE  RpcInv'
  <1>1. \A c \in Clients : pc[c] = "idle" /\ pc'[c] = "idle"
    BY DEF MpiBarrier, Calls
  <1>2. \A n \in Nodes : rpc[n].step = "recv" /\ rpc[n] = NoRpc
    BY <1>1, ServedCall DEF RpcInv
  <1>3. \A m \in Nodes : adding[m] = Null
    <2> SUFFICES ASSUME NEW m \in Nodes, adding[m] # Null PROVE FALSE
      OBVIOUS
    <2>1. adding[m].from \in Nodes /\ At(adding[m].from, "tell")
      BY DEF RpcInv, DirTypes
    <2> QED
      BY <1>2, <2>1 DEF At
  <1>4. UNCHANGED <<rpc, adding>>
    BY DEF MpiBarrier, serverVars
  <1>5. NoRpc.peers = {} /\ NoRpc.stack = <<>> /\ NoRpc.step = "recv"
    BY DEF NoRpc
  <1> QED
    BY <1>1, <1>2, <1>3, <1>4, <1>5 DEF RpcInv

\* A step of the thread of n for the client that it serves.
LEMMA RpcByMove ==
    ASSUME DirTypes, RpcInv, NEW n \in Nodes, NEW x, NEW s, NEW P, RpcMoves(n, x, s, P),
           rpc[n].step # "recv", x # "recv", x # "crashed",
           x \notin {"hold", "end"} => Served(n).op = "rmdir",
           P \subseteq Peers(n), (s = <<>>) = (x # "walk"),
           \A m \in Nodes : adding'[m] # Null =>
              \/ adding'[m] = adding[m] /\ (adding[m].from = n => x = "tell" /\ m \in P)
              \/ adding'[m].from = n /\ x = "tell" /\ m \in P,
           UNCHANGED <<pc, todo>>
    PROVE  RpcInv'
  <1>1. \A c \in Clients : pc'[c] # "idle" => todo'[c] # <<>> /\ Call(c)'.op \in BarrierOps
    BY DEF RpcInv, Call
  <1>2. \A k \in Nodes : rpc'[k].client = rpc[k].client
    BY DEF RpcMoves
  <1>3. \A k \in Nodes : Served(k)' = Served(k)
    BY <1>2 DEF Served, Call
  <1>4. ASSUME NEW k \in Nodes
        PROVE  /\ IF rpc'[k].step = "recv" THEN rpc'[k] = NoRpc
                  ELSE /\ rpc'[k].client \in Clients /\ NodeOf[rpc'[k].client] = k
                       /\ pc'[rpc'[k].client] = "request"
               /\ rpc'[k].step \notin {"recv", "hold", "end"} => Served(k)'.op = "rmdir"
               /\ rpc'[k].step # "crashed"
               /\ rpc'[k].peers \subseteq Peers(k)
               /\ (rpc'[k].stack = <<>>) = (rpc'[k].step # "walk")
    <2>1. CASE k = n
      <3>1. rpc'[k].step = x /\ rpc'[k].client = rpc[n].client /\ rpc'[k].stack = s
            /\ rpc'[k].peers = P
        BY <2>1 DEF RpcMoves
      <3>2. rpc[n].client \in Clients /\ NodeOf[rpc[n].client] = n /\ pc[rpc[n].client] = "request"
        BY ServedCall
      <3> QED
        BY <1>3, <2>1, <3>1, <3>2
    <2>2. CASE k # n
      <3>1. rpc'[k] = rpc[k]
        BY <2>2 DEF RpcMoves
      <3> QED
        BY <1>3, <3>1 DEF RpcInv
    <2> QED
      BY <2>1, <2>2
  <1>5. ASSUME NEW m \in Nodes, adding'[m] # Null
        PROVE  At(adding[m].from, "tell")' /\ m \in rpc'[adding'[m].from].peers
    <2>1. CASE adding'[m].from = n /\ x = "tell" /\ m \in P
      BY <2>1 DEF RpcMoves, At
    <2>2. CASE adding'[m] = adding[m] /\ (adding[m].from = n => x = "tell" /\ m \in P)
      <3>1. adding[m].from \in Nodes /\ At(adding[m].from, "tell") /\ m \in rpc[adding[m].from].peers
        BY <1>5, <2>2 DEF RpcInv, DirTypes
      <3>2. CASE adding[m].from = n
        BY <2>2, <3>2 DEF RpcMoves, At
      <3>3. CASE adding[m].from # n
        BY <2>2, <3>1, <3>3 DEF RpcMoves, At
      <3> QED
        BY <3>2, <3>3
    <2> QED
      BY <1>5, <2>1, <2>2
  <1> QED
    BY <1>1, <1>4, <1>5 DEF RpcInv, Peers, At

\* A thread that is not in its broadcast is served by no cluster thread.
LEMMA AddingTells ==
    ASSUME DirTypes, RpcInv, NEW m \in Nodes, adding[m] # Null
    PROVE  /\ adding[m].from \in Nodes /\ rpc[adding[m].from].step = "tell"
           /\ m \in rpc[adding[m].from].peers
  BY DEF RpcInv, DirTypes, At

\* The steps of commit_to_fs_barrier on removing_dirs fit the call.
LEMMA RpcList ==
    ASSUME DirTypes, RpcInv, NEW n \in Nodes,
           ListSlot(n) \/ ListCount(n) \/ ListTold(n) \/ Unlist(n)
    PROVE  RpcInv'
  <1>1. UNCHANGED <<pc, todo, adding>>
    BY DEF ListSlot, ListCount, ListTold, Unlist, clientVars
  <1>2. rpc[n].step \in {"list", "listed", "tell", "unlist"}
    BY DEF ListSlot, ListCount, ListTold, Unlist, At
  <1>3. Served(n).op = "rmdir" /\ rpc[n].stack = <<>> /\ rpc[n].peers \subseteq Peers(n)
    BY <1>2 DEF RpcInv
  <1>4. \A m \in Nodes : adding'[m] # Null => adding'[m] = adding[m]
    BY <1>1
  <1>5. ASSUME ListSlot(n) PROVE RpcInv'
    <2>1. RpcMoves(n, "listed", rpc[n].stack, rpc[n].peers) /\ rpc[n].step = "list"
      BY <1>5, ListMoves DEF ListSlot, At
    <2>2. \A m \in Nodes : adding'[m] # Null => adding'[m] = adding[m] /\ adding[m].from # n
      BY <1>1, <2>1, AddingTells
    <2> QED
      BY <1>1, <1>3, <2>1, <2>2, RpcByMove
  <1>6. ASSUME ListCount(n) PROVE RpcInv'
    <2>1. RpcMoves(n, "tell", rpc[n].stack, Peers(n)) /\ rpc[n].step = "listed"
      BY <1>6, ListMoves DEF ListCount, At
    <2>2. \A m \in Nodes : adding'[m] # Null => adding'[m] = adding[m] /\ adding[m].from # n
      BY <1>1, <2>1, AddingTells
    <2> QED
      BY <1>1, <1>3, <2>1, <2>2, RpcByMove
  <1>7. ASSUME ListTold(n) PROVE RpcInv'
    <2>1. RpcMoves(n, "hold", rpc[n].stack, rpc[n].peers) /\ rpc[n].step = "tell" /\ rpc[n].peers = {}
      BY <1>7, ListMoves DEF ListTold, At
    <2>2. \A m \in Nodes : adding'[m] # Null => adding'[m] = adding[m] /\ adding[m].from # n
      BY <1>1, <2>1, AddingTells
    <2> QED
      BY <1>1, <1>3, <2>1, <2>2, RpcByMove
  <1>8. ASSUME Unlist(n) PROVE RpcInv'
    <2> DEFINE x == IF Peers(n) = {} THEN "end" ELSE "untell"
    <2>1. RpcMoves(n, x, rpc[n].stack, Peers(n)) /\ rpc[n].step = "unlist"
      BY <1>8, ListMoves DEF Unlist, At
    <2>2. \A m \in Nodes : adding'[m] # Null => adding'[m] = adding[m] /\ adding[m].from # n
      BY <1>1, <2>1, AddingTells
    <2>3. x \in {"end", "untell"}
      OBVIOUS
    <2> HIDE DEF x
    <2> QED
      BY <1>1, <1>3, <2>1, <2>2, <2>3, RpcByMove
  <1> QED
    BY <1>5, <1>6, <1>7, <1>8

\* The step behind the barrier fits the call, and the server does not die if the
\* directory is in the DFS.
LEMMA RpcHold ==
    ASSUME DirTypes, RpcInv, NoRenames, NEW n \in Nodes, Hold(n),
           Served(n).op = "rmdir" => dfs[Served(n).path] = "dir"
    PROVE  RpcInv'
  <1>1. rpc[n].step = "hold" /\ UNCHANGED <<pc, todo, adding>> /\ rpc[n].peers \subseteq Peers(n)
    BY DEF Hold, At, clientVars, RpcInv
  <1>2. \A m \in Nodes : adding'[m] # Null => adding'[m] = adding[m] /\ adding[m].from # n
    BY <1>1, AddingTells
  <1>3. Served(n).op \in {"rmdir", "readdir"}
    BY <1>1, ServedOp
  <1>4. CASE Served(n).op = "readdir"
    <2>1. RpcMoves(n, "end", <<>>, rpc[n].peers)
      BY <1>4, HoldMoves
    <2> QED
      BY <1>1, <1>2, <2>1, RpcByMove
  <1>5. CASE Served(n).op = "rmdir"
    <2> DEFINE s == <<Frame(Served(n).path)>>
    <2>1. RpcMoves(n, "walk", s, rpc[n].peers)
      BY <1>5, HoldMoves
    <2>2. s # <<>>
      OBVIOUS
    <2> HIDE DEF s
    <2> QED
      BY <1>1, <1>2, <1>5, <2>1, <2>2, RpcByMove
  <1> QED
    BY <1>3, <1>4, <1>5

\* The steps of the walk fit the call; the stack is empty at its end.
LEMMA RpcWalk ==
    ASSUME DirTypes, RpcInv, NEW n \in Nodes,
           WalkRmdir(n) \/ \E p \in Paths : WalkDel(n, p)
    PROVE  RpcInv'
  <1>1. /\ rpc[n].step = "walk" /\ UNCHANGED <<pc, todo, adding>>
        /\ rpc[n].peers \subseteq Peers(n) /\ Served(n).op = "rmdir" /\ rpc[n].stack # <<>>
    BY DEF WalkRmdir, WalkDel, At, clientVars, RpcInv
  <1>2. \A m \in Nodes : adding'[m] # Null => adding'[m] = adding[m] /\ adding[m].from # n
    BY <1>1, AddingTells
  <1>3. ASSUME WalkRmdir(n) PROVE RpcInv'
    <2> DEFINE x == IF Front(rpc[n].stack) = <<>> THEN "unlist" ELSE "walk"
    <2>1. RpcMoves(n, x, Front(rpc[n].stack), rpc[n].peers)
      BY <1>3, WalkMoves
    <2>2. x \in {"unlist", "walk"} /\ (Front(rpc[n].stack) = <<>>) = (x # "walk")
      OBVIOUS
    <2> HIDE DEF x
    <2> QED
      BY <1>1, <1>2, <2>1, <2>2, RpcByMove
  <1>4. ASSUME NEW p \in Paths, WalkDel(n, p) PROVE RpcInv'
    <2> DEFINE t == NextStack(n, p)
    <2>1. RpcMoves(n, "walk", t, rpc[n].peers)
      BY <1>4, WalkMoves
    <2>2. t # <<>>
      BY <1>1, VisitedStack
    <2> HIDE DEF t
    <2> QED
      BY <1>1, <1>2, <2>1, <2>2, RpcByMove
  <1> QED
    BY <1>3, <1>4

\* The answers of the peers fit the call they are given for.
LEMMA RpcCluster ==
    ASSUME DirTypes, RpcInv, NEW m \in Nodes, Cluster(m)
    PROVE  RpcInv'
  <1>1. \A k \in Nodes : adding[k] \in [from : Nodes, slot : Nat] \cup {Null}
    BY DEF DirTypes
  <1>2. ASSUME NEW n \in Nodes, AddSlot(n, m) PROVE RpcInv'
    <2>1. /\ rpc[n].step = "tell" /\ m \in rpc[n].peers /\ UNCHANGED <<rpc, pc, todo>>
          /\ adding' = [adding EXCEPT ![m] = [from |-> n, slot |-> removing[m].count]]
      BY <1>2 DEF AddSlot, At, clientVars
    <2>2. \A k \in Nodes : adding'[k] # Null =>
             adding'[k] = adding[k] \/ (adding'[k].from = n /\ k = m)
      BY <2>1 DEF DirTypes
    <2>3. \A k \in Nodes : adding[k] # Null =>
             At(adding[k].from, "tell") /\ k \in rpc[adding[k].from].peers
      BY DEF RpcInv
    <2>4. \A k \in Nodes : adding'[k] # Null =>
             At(adding'[k].from, "tell") /\ k \in rpc[adding'[k].from].peers
      BY <2>1, <2>2, <2>3 DEF At
    <2> QED
      BY <2>1, <2>4 DEF RpcInv, At, Call, Served, Peers
  <1>3. ASSUME AddCount(m) PROVE RpcInv'
    <2> DEFINE n == adding[m].from
    <2>1. /\ n \in Nodes /\ rpc[n].step = "tell" /\ m \in rpc[n].peers
          /\ UNCHANGED <<pc, todo>> /\ adding' = [adding EXCEPT ![m] = Null]
      BY <1>3, AddingTells DEF AddCount, clientVars
    <2>2. RpcMoves(n, "tell", rpc[n].stack, rpc[n].peers \ {m})
      BY <1>3, <2>1, PeerMoves
    <2>3. /\ Served(n).op = "rmdir" /\ rpc[n].stack = <<>>
          /\ rpc[n].peers \ {m} \subseteq Peers(n)
      BY <2>1 DEF RpcInv
    <2>4. \A k \in Nodes : adding'[k] # Null => adding'[k] = adding[k] /\ k # m
      BY <2>1 DEF DirTypes
    <2>5. \A k \in Nodes : adding'[k] # Null /\ adding[k].from = n => k \in rpc[n].peers \ {m}
      BY <2>4, AddingTells
    <2> QED
      BY <2>1, <2>2, <2>3, <2>4, <2>5, RpcByMove
  <1>4. ASSUME NEW n \in Nodes, DelRemoving(n, m) PROVE RpcInv'
    <2> DEFINE x == IF rpc[n].peers = {m} THEN "end" ELSE "untell"
    <2>1. rpc[n].step = "untell" /\ UNCHANGED <<pc, todo, adding>>
      BY <1>4 DEF DelRemoving, At, clientVars
    <2>2. RpcMoves(n, x, rpc[n].stack, rpc[n].peers \ {m})
      BY <1>4, PeerMoves
    <2>3. /\ Served(n).op = "rmdir" /\ rpc[n].stack = <<>>
          /\ rpc[n].peers \ {m} \subseteq Peers(n)
      BY <2>1 DEF RpcInv
    <2>4. \A k \in Nodes : adding'[k] # Null => adding'[k] = adding[k] /\ adding[k].from # n
      BY <2>1, AddingTells
    <2>5. x \in {"end", "untell"}
      OBVIOUS
    <2> HIDE DEF x
    <2> QED
      BY <2>1, <2>2, <2>3, <2>4, <2>5, RpcByMove
  <1> QED
    BY <1>2, <1>3, <1>4 DEF Cluster

\* A thread that receives a request or ends one.
LEMMA RpcRecvEnd ==
    ASSUME DirTypes, RpcInv, NEW n \in Nodes
    PROVE  (\E c \in Clients : RpcRecv(n, c)) \/ End(n) => RpcInv'
  <1>1. rpc \in [Nodes -> RpcType]
    BY DEF DirTypes, RpcType
  <1>2. ASSUME NEW c \in Clients, RpcRecv(n, c) PROVE RpcInv'
    <2> DEFINE x == IF Call(c).op = "rmdir" THEN "list" ELSE "hold"
    <2>1. /\ rpc[n].step = "recv" /\ NodeOf[c] = n /\ pc[c] = "request"
          /\ UNCHANGED <<pc, todo, adding>>
      BY <1>2 DEF RpcRecv, At, clientVars
    <2>2. rpc[n] = NoRpc
      BY <2>1 DEF RpcInv
    <2>3. /\ rpc'[n].step = x /\ rpc'[n].client = c /\ rpc'[n].stack = <<>> /\ rpc'[n].peers = {}
          /\ \A k \in Nodes : k # n => rpc'[k] = rpc[k]
      BY <1>1, <1>2, <2>2 DEF RpcRecv, NoRpc, RpcType
    <2>4. x \in {"list", "hold"} /\ (x = "list" => Call(c).op = "rmdir")
      OBVIOUS
    <2> HIDE DEF x
    <2>5. \A k \in Nodes : k # n => Served(k)' = Served(k)
      BY <2>1, <2>3 DEF Served, Call
    <2>6. Served(n)' = Call(c)
      BY <2>1, <2>3 DEF Served, Call
    <2>7. \A d \in Clients : pc'[d] # "idle" => todo'[d] # <<>> /\ Call(d)'.op \in BarrierOps
      BY <2>1 DEF RpcInv, Call
    <2>8. ASSUME NEW k \in Nodes
          PROVE  /\ IF rpc'[k].step = "recv" THEN rpc'[k] = NoRpc
                    ELSE /\ rpc'[k].client \in Clients /\ NodeOf[rpc'[k].client] = k
                         /\ pc'[rpc'[k].client] = "request"
                 /\ rpc'[k].step \notin {"recv", "hold", "end"} => Served(k)'.op = "rmdir"
                 /\ rpc'[k].step # "crashed"
                 /\ rpc'[k].peers \subseteq Peers(k)
                 /\ (rpc'[k].stack = <<>>) = (rpc'[k].step # "walk")
      <3>1. CASE k = n
        BY <2>1, <2>3, <2>4, <2>6, <3>1
      <3>2. CASE k # n
        BY <2>1, <2>3, <2>5, <3>2 DEF RpcInv
      <3> QED
        BY <3>1, <3>2
    <2>9. ASSUME NEW m \in Nodes, adding'[m] # Null
          PROVE  At(adding[m].from, "tell")' /\ m \in rpc'[adding'[m].from].peers
      BY <2>1, <2>3, <2>9, AddingTells DEF At
    <2> QED
      BY <2>7, <2>8, <2>9 DEF RpcInv, Peers, At
  <1>3. ASSUME End(n) PROVE RpcInv'
    <2> DEFINE c == rpc[n].client
    <2>1. /\ rpc[n].step = "end" /\ UNCHANGED <<todo, adding>> /\ pc' = [pc EXCEPT ![c] = "reply"]
          /\ rpc' = [rpc EXCEPT ![n] = NoRpc]
      BY <1>3 DEF End, At
    <2>2. c \in Clients /\ NodeOf[c] = n /\ pc[c] = "request"
      BY <2>1, ServedCall
    <2>3. NoRpc.peers = {} /\ NoRpc.stack = <<>> /\ NoRpc.step = "recv"
      BY DEF NoRpc
    <2>4. rpc'[n] = NoRpc /\ \A k \in Nodes : k # n => rpc'[k] = rpc[k]
      BY <1>1, <2>1
    <2>5. \A k \in Nodes : k # n => Served(k)' = Served(k)
      BY <2>1, <2>4 DEF Served, Call
    <2>6. \A d \in Clients : pc'[d] # "idle" => todo'[d] # <<>> /\ Call(d)'.op \in BarrierOps
      BY <2>1, <2>2 DEF RpcInv, Call, DirTypes
    <2>7. ASSUME NEW k \in Nodes
          PROVE  /\ IF rpc'[k].step = "recv" THEN rpc'[k] = NoRpc
                    ELSE /\ rpc'[k].client \in Clients /\ NodeOf[rpc'[k].client] = k
                         /\ pc'[rpc'[k].client] = "request"
                 /\ rpc'[k].step \notin {"recv", "hold", "end"} => Served(k)'.op = "rmdir"
                 /\ rpc'[k].step # "crashed"
                 /\ rpc'[k].peers \subseteq Peers(k)
                 /\ (rpc'[k].stack = <<>>) = (rpc'[k].step # "walk")
      <3>1. CASE k = n
        BY <2>3, <2>4, <3>1
      <3>2. CASE k # n
        <4>1. rpc'[k] = rpc[k]
          BY <2>4, <3>2
        <4>2. rpc[k].step # "recv" => rpc[k].client \in Clients /\ NodeOf[rpc[k].client] = k
                                      /\ pc[rpc[k].client] = "request"
          BY ServedCall
        <4>3. rpc[k].step # "recv" => pc'[rpc[k].client] = "request"
          BY <2>1, <2>2, <3>2, <4>2 DEF DirTypes
        <4> QED
          BY <2>5, <3>2, <4>1, <4>2, <4>3 DEF RpcInv
      <3> QED
        BY <3>1, <3>2
    <2>8. ASSUME NEW m \in Nodes, adding'[m] # Null
          PROVE  At(adding[m].from, "tell")' /\ m \in rpc'[adding'[m].from].peers
      BY <2>1, <2>4, <2>8, AddingTells DEF At
    <2> QED
      BY <2>6, <2>7, <2>8 DEF RpcInv, Peers, At
  <1> QED
    BY <1>2, <1>3

\* Every step keeps the requests in order, given that the directory is there
\* when a walk starts.
LEMMA RpcNext ==
    ASSUME DirTypes, RpcInv, RoundInv, StoreInv, LoadsInv, KeptOut, OnDirectories, NoRenames, Next,
           \A n \in Nodes : Hold(n) /\ Served(n).op = "rmdir" => dfs[Served(n).path] = "dir"
    PROVE  RpcInv'
  <1>1. ASSUME NEW n \in Nodes, Commit(n) \/ \E c \in Clients : Take(n, c) PROVE RpcInv'
    <2>1. UNCHANGED <<rpc, adding, pc, todo>>
      BY <1>1 DEF Commit, Apply, Count, Take, clientVars
    <2> QED
      BY <2>1 DEF RpcInv, Call, Served, At, Peers
  <1>2. ASSUME NEW n \in Nodes, Rpc(n) PROVE RpcInv'
    BY <1>2, RpcList, RpcHold, RpcWalk, RpcRecvEnd, NoRenameSteps DEF Rpc
  <1> QED
    BY <1>1, <1>2, RpcMpi, RpcClient, RpcCluster, RpcRecvEnd DEF Next

-----------------------------------------------------------------------------
(* Where the round stands.                                                 *)

\* The entries of the ledger.
LEMMA LedgerEntry ==
    ASSUME NEW e
    PROVE  e \in Ledger <=> \E c \in passed : \E k \in Owed(c) : e = <<c, k>>
  BY DEF Ledger

\* The queue of a client and its barrier after a message was added.
LEMMA QueueAppend ==
    ASSUME DirTypes, NEW c \in Clients, NEW m \in MsgType, mq' = [mq EXCEPT ![c] = Append(@, m)]
    PROVE  /\ \A d \in Clients : d # c => mq'[d] = mq[d]
           /\ mq[c] \in Seq(MsgType) /\ Len(mq[c]) \in Nat /\ DOMAIN mq[c] = 1 .. Len(mq[c])
           /\ mq'[c] \in Seq(MsgType) /\ DOMAIN (mq'[c]) = 1 .. Len(mq[c]) + 1
           /\ mq'[c] # <<>>
           /\ mq'[c][Len(mq[c]) + 1] = m /\ \A i \in 1 .. Len(mq[c]) : mq'[c][i] = mq[c][i]
           /\ BarrierQueued(c)' <=> BarrierQueued(c) \/ m.op = "barrier"
           /\ \A d \in Clients : d # c => (BarrierQueued(d)' <=> BarrierQueued(d))
  <1>1. mq'[c] = Append(mq[c], m) /\ \A d \in Clients : d # c => mq'[d] = mq[d]
    BY DEF DirTypes
  <1>2. mq[c] \in Seq(MsgType) /\ Len(mq[c]) \in Nat /\ DOMAIN mq[c] = 1 .. Len(mq[c])
    BY LenProperties DEF DirTypes
  <1>3. /\ mq'[c] \in Seq(MsgType) /\ DOMAIN (mq'[c]) = 1 .. Len(mq[c]) + 1
        /\ mq'[c][Len(mq[c]) + 1] = m /\ \A i \in 1 .. Len(mq[c]) : mq'[c][i] = mq[c][i]
    BY <1>1, <1>2
  <1>4. mq'[c] # <<>>
    BY <1>1, <1>2
  <1>5. BarrierQueued(c)' <=> BarrierQueued(c) \/ m.op = "barrier"
    BY <1>2, <1>3 DEF BarrierQueued
  <1>6. \A d \in Clients : d # c => (BarrierQueued(d)' <=> BarrierQueued(d))
    BY <1>1 DEF BarrierQueued
  <1> QED
    BY <1>1, <1>2, <1>3, <1>4, <1>5, <1>6

\* The queues after a message was committed.
LEMMA QueueTail ==
    ASSUME DirTypes, RoundInv, NEW n \in Nodes, Commit(n)
    PROVE  LET c == cur[n] IN
           /\ c \in Clients /\ NodeOf[c] = n /\ mq[c] # <<>> /\ ~Stopped(n)
           /\ Msg(n) = mq[c][1] /\ Msg(n) \in MsgType /\ 1 \in DOMAIN mq[c]
           /\ \A d \in Clients : d # c => mq'[d] = mq[d]
           /\ \A i \in DOMAIN (mq'[c]) : i \in Nat \ {0} /\ i + 1 \in DOMAIN mq[c] /\ mq'[c][i] = mq[c][i + 1]
           /\ \A i \in DOMAIN mq[c] : i \in Nat /\ i # 0
           /\ \A i \in DOMAIN mq[c] : i # 1 => i - 1 \in DOMAIN (mq'[c])
           /\ cur'[n] = Null /\ \A m \in Nodes : m # n => cur'[m] = cur[m]
  <1> DEFINE c == cur[n]
  <1>1. c # Null /\ mq' = [mq EXCEPT ![c] = Tail(@)] /\ cur' = [cur EXCEPT ![n] = Null]
    BY DEF Commit, Apply, Count
  <1>2. /\ c \in Clients /\ NodeOf[c] = n /\ mq[c] # <<>> /\ ~Stopped(n)
        /\ Msg(n) = mq[c][1] /\ Msg(n) \in MsgType /\ 1 \in DOMAIN mq[c]
        /\ Tail(mq[c]) \in Seq(MsgType) /\ Len(mq[c]) \in Nat \ {0}
        /\ Len(Tail(mq[c])) = Len(mq[c]) - 1
        /\ \A i \in 1 .. Len(mq[c]) - 1 : Tail(mq[c])[i] = mq[c][i + 1]
    BY <1>1, TakenMsg
  <1> HIDE DEF c
  <1>3. mq'[c] = Tail(mq[c]) /\ \A d \in Clients : d # c => mq'[d] = mq[d]
    BY <1>1, <1>2 DEF DirTypes
  <1>4. DOMAIN mq[c] = 1 .. Len(mq[c]) /\ DOMAIN (mq'[c]) = 1 .. Len(mq[c]) - 1
    BY <1>2, <1>3, LenProperties DEF DirTypes
  <1>5. \A i \in DOMAIN (mq'[c]) : i \in Nat \ {0} /\ i + 1 \in DOMAIN mq[c] /\ mq'[c][i] = mq[c][i + 1]
    BY <1>2, <1>3, <1>4
  <1>6. \A i \in DOMAIN mq[c] : i \in Nat /\ i # 0
    BY <1>2, <1>4
  <1>7. \A i \in DOMAIN mq[c] : i # 1 => i - 1 \in DOMAIN (mq'[c])
    BY <1>2, <1>4
  <1>8. cur'[n] = Null /\ \A m \in Nodes : m # n => cur'[m] = cur[m]
    BY <1>1 DEF DirTypes
  <1> QED
    BY <1>2, <1>3, <1>5, <1>6, <1>7, <1>8 DEF c

\* A step that leaves the programs, the queues and the barrier alone.
LEMMA RoundSame ==
    ASSUME RoundInv, LedgerInv, UNCHANGED <<pc, todo, mq, passed, ops>>,
           \A n \in Nodes : rpc'[n].step \in Past => rpc[n].step \in Past \/ passed = Clients,
           \A n \in Nodes : cur'[n] # Null =>
              cur'[n] = cur[n] \/ (NodeOf[cur'[n]] = n /\ mq[cur'[n]] # <<>> /\ ~Stopped(n))
    PROVE  RoundInv' /\ LedgerInv'
  <1>1. \A c \in Clients : /\ (BarrierAhead(c)' <=> BarrierAhead(c)) /\ Owed(c)' = Owed(c)
                           /\ (BarrierQueued(c)' <=> BarrierQueued(c))
    BY SameRound DEF BarrierQueued
  <1>2. \A n \in Nodes : Stopped(n)' <=> Stopped(n)
    BY DEF Stopped, ClientsOn
  <1>3. \A c \in Clients : Pending(c)' <=> Pending(c)
    BY <1>1 DEF Pending
  <1>4. \A c \in Clients :
          /\ pc'[c] # "idle" => ~BarrierAhead(c)'
          /\ pc'[c] = "reply" => \A d \in Clients : ~BarrierAhead(d)' /\ ~BarrierQueued(d)'
          /\ BarrierAhead(c)' => ~BarrierQueued(c)' /\ c \notin passed'
          /\ BarrierQueued(c)' => c \notin passed'
          /\ \A i, j \in DOMAIN mq'[c] :
                mq'[c][i].op = "barrier" /\ mq'[c][j].op = "barrier" => i = j
    BY <1>1 DEF RoundInv
  <1>5. \/ \A c \in Clients : ~Pending(c)' /\ Owed(c)' = {}
        \/ (\A c \in Clients : Pending(c)') /\ \E c \in Clients : Owed(c)' # {}
    BY <1>1, <1>3 DEF RoundInv
  <1>6. \A n \in Nodes :
          /\ rpc'[n].step \in Past => passed' = Clients
          /\ cur'[n] # Null => NodeOf[cur'[n]] = n /\ mq'[cur'[n]] # <<>> /\ ~Stopped(n)'
    BY <1>2 DEF RoundInv
  <1>7. RoundInv'
    BY <1>4, <1>5, <1>6 DEF RoundInv
  <1>8. Ledger' = Ledger
    <2>1. SUFFICES \A c \in passed : Owed(c)' = Owed(c)
      BY DEF Ledger
    <2> QED
      BY SameRound
  <1>9. LedgerInv'
    BY <1>1, <1>8 DEF LedgerInv
  <1> QED
    BY <1>7, <1>9

\* A step of client c: nothing is owed or announced to others that was not before.
LEMMA RoundByClient ==
    ASSUME DirTypes, RoundInv, LedgerInv, NEW c \in Clients,
           UNCHANGED <<passed, ops, cur, rpc>>,
           \A d \in Clients : Owed(d)' = Owed(d),
           \A d \in Clients : d # c =>
              /\ (BarrierAhead(d)' <=> BarrierAhead(d)) /\ mq'[d] = mq[d] /\ pc'[d] = pc[d],
           mq[c] # <<>> => mq'[c] # <<>>,
           pc'[c] # "idle" => ~BarrierAhead(c)', pc'[c] # "reply",
           Pending(c)' <=> Pending(c),
           BarrierAhead(c)' => BarrierAhead(c),
           BarrierAhead(c)' => ~BarrierQueued(c)',
           BarrierQueued(c)' => BarrierQueued(c) \/ BarrierAhead(c),
           \A i, j \in DOMAIN mq'[c] :
              mq'[c][i].op = "barrier" /\ mq'[c][j].op = "barrier" => i = j,
           \A i \in DOMAIN mq'[c] :
              mq'[c][i].op = "barrier" => mq'[c][i].opt = Cardinality(Owed(c))
    PROVE  RoundInv' /\ LedgerInv'
  <1>1. \A d \in Clients : d # c => (BarrierQueued(d)' <=> BarrierQueued(d))
    BY DEF BarrierQueued
  <1>2. \A n \in Nodes : Stopped(n)' <=> Stopped(n)
    BY DEF Stopped, ClientsOn
  <1>3. \A d \in Clients : Pending(d)' <=> Pending(d)
    BY <1>1 DEF Pending
  <1>4. ASSUME NEW d \in Clients
        PROVE  /\ pc'[d] # "idle" => ~BarrierAhead(d)'
               /\ BarrierAhead(d)' => ~BarrierQueued(d)' /\ d \notin passed'
               /\ BarrierQueued(d)' => d \notin passed'
               /\ \A i, j \in DOMAIN mq'[d] :
                     mq'[d][i].op = "barrier" /\ mq'[d][j].op = "barrier" => i = j
    <2>1. CASE d = c
      <3>1. (BarrierAhead(c) => c \notin passed) /\ (BarrierQueued(c) => c \notin passed)
        BY DEF RoundInv
      <3> QED
        BY <2>1, <3>1
    <2>2. CASE d # c
      <3>1. /\ pc[d] # "idle" => ~BarrierAhead(d)
            /\ BarrierAhead(d) => ~BarrierQueued(d) /\ d \notin passed
            /\ BarrierQueued(d) => d \notin passed
            /\ \A i, j \in DOMAIN mq[d] :
                  mq[d][i].op = "barrier" /\ mq[d][j].op = "barrier" => i = j
        BY DEF RoundInv
      <3> QED
        BY <1>1, <2>2, <3>1
    <2> QED
      BY <2>1, <2>2
  <1>5. ASSUME NEW e \in Clients, pc'[e] = "reply", NEW d \in Clients
        PROVE  ~BarrierAhead(d)' /\ ~BarrierQueued(d)'
    <2>1. pc[e] = "reply"
      BY <1>5
    <2>2. ~BarrierAhead(d) /\ ~BarrierQueued(d)
      BY <2>1 DEF RoundInv
    <2> QED
      BY <1>1, <2>2
  <1>6. \/ \A d \in Clients : ~Pending(d)' /\ Owed(d)' = {}
        \/ (\A d \in Clients : Pending(d)') /\ \E d \in Clients : Owed(d)' # {}
    BY <1>3 DEF RoundInv
  <1>7. ASSUME NEW n \in Nodes
        PROVE  /\ rpc'[n].step \in Past => passed' = Clients
               /\ cur'[n] # Null => NodeOf[cur'[n]] = n /\ mq'[cur'[n]] # <<>> /\ ~Stopped(n)'
    <2>1. rpc[n].step \in Past => passed = Clients
      BY DEF RoundInv
    <2>2. ASSUME cur[n] # Null
          PROVE  cur[n] \in Clients /\ NodeOf[cur[n]] = n /\ mq[cur[n]] # <<>> /\ ~Stopped(n)
      BY <2>2, TakenMsg
    <2>3. ASSUME cur[n] # Null PROVE mq'[cur[n]] # <<>>
      BY <2>2, <2>3
    <2> QED
      BY <1>2, <2>1, <2>2, <2>3
  <1>8. RoundInv'
    BY <1>4, <1>5, <1>6, <1>7 DEF RoundInv
  <1>9. Ledger' = Ledger
    <2>1. passed \subseteq Clients
      BY DEF DirTypes
    <2> QED
      BY <2>1 DEF Ledger
  <1>10. ASSUME NEW d \in Clients, NEW i \in DOMAIN mq'[d], mq'[d][i].op = "barrier"
         PROVE  mq'[d][i].opt = Cardinality(Owed(d)')
    <2>1. CASE d = c
      BY <1>10, <2>1
    <2>2. CASE d # c
      BY <1>10, <2>2 DEF LedgerInv
    <2> QED
      BY <2>1, <2>2
  <1> QED
    BY <1>8, <1>9, <1>10 DEF LedgerInv

\* A call that returns and queues at most an operation.
LEMMA RoundDone ==
    ASSUME DirTypes, RoundInv, LedgerInv, NEW c \in Clients, Done(c), todo[c] # <<>>,
           Call(c).op \notin {"sync", "barrier"},
           pc[c] = "reply" \/ Call(c).op \notin BarrierOps,
           UNCHANGED <<passed, ops, cur, rpc>>,
           \/ UNCHANGED mq
           \/ \E m \in MsgType : m.op # "barrier" /\ mq' = [mq EXCEPT ![c] = Append(@, m)]
    PROVE  RoundInv' /\ LedgerInv'
  <1>1. /\ \A d \in Clients : Owed(d)' = Owed(d)
        /\ \A d \in Clients : BarrierAhead(d)' <=> BarrierAhead(d)
    BY DoneRound
  <1>2. pc'[c] = "idle" /\ \A d \in Clients : d # c => pc'[d] = pc[d]
    BY DEF Done, DirTypes
  <1>3. /\ BarrierAhead(c) => ~BarrierQueued(c)
        /\ \A i, j \in DOMAIN mq[c] :
                mq[c][i].op = "barrier" /\ mq[c][j].op = "barrier" => i = j
    BY DEF RoundInv
  <1>4. \A i \in DOMAIN mq[c] : mq[c][i].op = "barrier" => mq[c][i].opt = Cardinality(Owed(c))
    BY DEF LedgerInv
  <1>5. CASE UNCHANGED mq
    <2>1. BarrierQueued(c)' <=> BarrierQueued(c)
      BY <1>5 DEF BarrierQueued
    <2>2. Pending(c)' <=> Pending(c)
      BY <1>1, <2>1 DEF Pending
    <2> QED
      BY <1>1, <1>2, <1>3, <1>4, <1>5, <2>1, <2>2, RoundByClient
  <1>6. CASE \E m \in MsgType : m.op # "barrier" /\ mq' = [mq EXCEPT ![c] = Append(@, m)]
    <2>1. PICK m \in MsgType : m.op # "barrier" /\ mq' = [mq EXCEPT ![c] = Append(@, m)]
      BY <1>6
    <2>2. /\ \A d \in Clients : d # c => mq'[d] = mq[d]
          /\ Len(mq[c]) \in Nat /\ DOMAIN mq[c] = 1 .. Len(mq[c])
          /\ DOMAIN (mq'[c]) = 1 .. Len(mq[c]) + 1 /\ mq'[c] # <<>>
          /\ mq'[c][Len(mq[c]) + 1] = m /\ \A i \in 1 .. Len(mq[c]) : mq'[c][i] = mq[c][i]
          /\ BarrierQueued(c)' <=> BarrierQueued(c)
      BY <2>1, QueueAppend
    <2>3. \A i \in DOMAIN (mq'[c]) : mq'[c][i].op = "barrier" =>
             i \in DOMAIN mq[c] /\ mq'[c][i] = mq[c][i]
      BY <2>1, <2>2
    <2>4. Pending(c)' <=> Pending(c)
      BY <1>1, <2>2 DEF Pending
    <2>5. \A i, j \in DOMAIN mq'[c] :
                mq'[c][i].op = "barrier" /\ mq'[c][j].op = "barrier" => i = j
      BY <1>3, <2>3
    <2>6. \A i \in DOMAIN mq'[c] :
              mq'[c][i].op = "barrier" => mq'[c][i].opt = Cardinality(Owed(c))
      BY <1>4, <2>3
    <2> QED
      BY <1>1, <1>2, <1>3, <2>2, <2>4, <2>5, <2>6, RoundByClient
  <1> QED
    BY <1>5, <1>6

\* The announcement: it was ahead and is queued, with the number of operations.
LEMMA RoundAnnounce ==
    ASSUME DirTypes, RoundInv, LedgerInv, AnnouncedFirst, NEW c \in Clients, Announce(c)
    PROVE  RoundInv' /\ LedgerInv' /\ BarrierAhead(c) /\ ~BarrierAhead(c)' /\ BarrierQueued(c)'
  <1> DEFINE m == [op |-> "barrier", opt |-> Call(c).opt, id |-> current_barrier_id[c] + 1]
  <1>1. /\ todo[c] # <<>> /\ Done(c) /\ Call(c).op = "barrier" /\ UNCHANGED <<passed, ops, cur, rpc>>
        /\ mq' = [mq EXCEPT ![c] = Append(@, m)]
    BY DEF Announce, Calls, serverVars
  <1>2. m \in MsgType /\ m.op = "barrier" /\ m.opt = Call(c).opt
    <2>1. Call(c).opt \in Nat
      BY <1>1, NextCall, CallFields
    <2>2. current_barrier_id[c] + 1 \in Nat
      BY DEF DirTypes
    <2> QED
      BY <2>1, <2>2 DEF MsgType
  <1> HIDE DEF m
  <1>3. /\ \A d \in Clients : Owed(d)' = Owed(d)
        /\ \A d \in Clients : d # c => (BarrierAhead(d)' <=> BarrierAhead(d))
        /\ BarrierAhead(c)
    BY <1>1, DoneRound DEF BarrierOps
  <1>4. todo' = [todo EXCEPT ![c] = Tail(@)]
    BY <1>1 DEF Done
  <1>5. /\ 1 \in InRound(c) /\ Call(c) = todo[c][1]
        /\ \A i \in InRound(c)' : i \in Nat /\ i + 1 \in InRound(c) /\ todo'[c][i] = todo[c][i + 1]
    BY <1>1, <1>4, RoundTail, NextCall
  <1>6. /\ m.opt = Cardinality(Owed(c))
        /\ \A j \in InRound(c) : todo[c][j].op = "barrier" => j = 1
    BY <1>1, <1>2, <1>5 DEF AnnouncedFirst
  <1>7. ~BarrierAhead(c)'
    <2> SUFFICES ASSUME NEW i \in InRound(c)', todo'[c][i].op = "barrier" PROVE FALSE
      BY DEF BarrierAhead
    <2>1. i \in Nat /\ i + 1 = 1 /\ i \in DOMAIN (todo'[c])
      BY <1>5, <1>6 DEF InRound
    <2>2. todo'[c] \in Seq(CallType)
      BY <1>1, DoneTypes
    <2> QED
      BY <2>1, <2>2
  <1>8. ~BarrierQueued(c)
    BY <1>3 DEF RoundInv
  <1>9. /\ \A d \in Clients : d # c => mq'[d] = mq[d]
        /\ Len(mq[c]) \in Nat /\ DOMAIN mq[c] = 1 .. Len(mq[c])
        /\ DOMAIN (mq'[c]) = 1 .. Len(mq[c]) + 1 /\ mq'[c] # <<>>
        /\ mq'[c][Len(mq[c]) + 1] = m /\ \A i \in 1 .. Len(mq[c]) : mq'[c][i] = mq[c][i]
        /\ BarrierQueued(c)'
    BY <1>1, <1>2, QueueAppend
  <1>10. \A i \in DOMAIN (mq'[c]) : mq'[c][i].op = "barrier" => i = Len(mq[c]) + 1
    BY <1>8, <1>9 DEF BarrierQueued
  <1>11. pc'[c] = "idle" /\ \A d \in Clients : d # c => pc'[d] = pc[d]
    BY <1>1 DEF Done, DirTypes
  <1>12. Pending(c) /\ Pending(c)'
    BY <1>3, <1>9 DEF Pending
  <1>13. RoundInv' /\ LedgerInv'
    BY <1>1, <1>3, <1>6, <1>7, <1>9, <1>10, <1>11, <1>12, RoundByClient
  <1> QED
    BY <1>3, <1>7, <1>9, <1>13

\* A request to the server: the barrier was announced.
LEMMA RoundAsk ==
    ASSUME DirTypes, RoundInv, LedgerInv, AnnouncedFirst, NEW c \in Clients,
           Calls(c, BarrierOps), pc' = [pc EXCEPT ![c] = "request"],
           UNCHANGED <<todo, mq, passed, ops, cur, rpc>>
    PROVE  RoundInv' /\ LedgerInv'
  <1>1. todo[c] # <<>> /\ Call(c).op \in BarrierOps /\ pc[c] = "idle"
    BY DEF Calls
  <1>2. 1 \in InRound(c) /\ Call(c) = todo[c][1]
    BY <1>1, OwedEnd, NextCall
  <1>3. ~BarrierAhead(c)
    <2> SUFFICES ASSUME NEW i \in InRound(c), todo[c][i].op = "barrier" PROVE FALSE
      BY DEF BarrierAhead
    <2>1. i \in Nat \ {0}
      BY DEF InRound, DirTypes
    <2>2. i # 1
      BY <1>1, <1>2 DEF BarrierOps
    <2>3. 1 < i => todo[c][1].op \notin BarrierOps
      BY <1>2 DEF AnnouncedFirst
    <2> QED
      BY <1>1, <1>2, <2>1, <2>2, <2>3
  <1>4. pc'[c] = "request" /\ \A d \in Clients : d # c => pc'[d] = pc[d]
    BY DEF DirTypes
  <1>5. \A d \in Clients : pc'[d] = "reply" <=> pc[d] = "reply"
    BY <1>1, <1>4
  <1>6. \A d \in Clients : /\ (BarrierAhead(d)' <=> BarrierAhead(d)) /\ Owed(d)' = Owed(d)
                           /\ (BarrierQueued(d)' <=> BarrierQueued(d))
    BY <1>5, SameRound DEF BarrierQueued
  <1>7. Pending(c)' <=> Pending(c)
    BY <1>6 DEF Pending
  <1>8. \A i, j \in DOMAIN mq[c] :
              mq[c][i].op = "barrier" /\ mq[c][j].op = "barrier" => i = j
    BY DEF RoundInv
  <1>9. \A i \in DOMAIN mq[c] : mq[c][i].op = "barrier" => mq[c][i].opt = Cardinality(Owed(c))
    BY DEF LedgerInv
  <1> QED
    BY <1>3, <1>4, <1>6, <1>7, <1>8, <1>9, RoundByClient

\* MPI_Barrier: the round is over, and the next one is as the notes say.
LEMMA RoundMpi ==
    ASSUME DirTypes, RoundInv, LedgerInv, AnnouncedByAll', MpiBarrier
    PROVE  /\ RoundInv' /\ LedgerInv'
           /\ \A c \in Clients : InRound(c) = {} /\ ~BarrierAhead(c) /\ ~BarrierQueued(c)
           /\ passed = {}
           /\ \/ \A c \in Clients : ~BarrierAhead(c)' /\ Owed(c)' = {}
              \/ \A c \in Clients : BarrierAhead(c)'
  <1>1. /\ \A c \in Clients : pc[c] = "idle" /\ todo[c] # <<>> /\ Call(c).op = "sync"
        /\ UNCHANGED <<mq, pc, passed, ops, cur, rpc>>
    BY DEF MpiBarrier, Calls, serverVars
  <1>2. \A c \in Clients : InRound(c) = {}
    <2> SUFFICES ASSUME NEW c \in Clients, NEW i \in InRound(c) PROVE FALSE
      OBVIOUS
    <2>1. i \in DOMAIN todo[c] /\ \A j \in 1 .. i : todo[c][j].op # "sync"
      BY DEF InRound
    <2>2. todo[c] \in Seq(CallType) /\ Call(c) = todo[c][1]
      BY <1>1, NextCall
    <2>3. 1 \in 1 .. i
      BY <2>1, <2>2
    <2> QED
      BY <1>1, <2>1, <2>2, <2>3
  <1>3. \A c \in Clients : ~BarrierAhead(c) /\ Owed(c) = {}
    BY <1>2 DEF BarrierAhead, Owed
  <1>4. \A c \in Clients : ~Pending(c)
    BY <1>3 DEF RoundInv
  <1>5. \A c \in Clients : ~BarrierQueued(c) /\ c \notin passed
    BY <1>4 DEF Pending
  <1>6. passed = {}
    BY <1>5 DEF DirTypes
  <1>7. \A c \in Clients : ~BarrierQueued(c)'
    BY <1>1, <1>5 DEF BarrierQueued
  <1>8. \/ \A c \in Clients : ~BarrierAhead(c)' /\ Owed(c)' = {}
        \/ (\A c \in Clients : BarrierAhead(c)') /\ \E c \in Clients : Owed(c)' # {}
    BY <1>1, <1>6, <1>7 DEF AnnouncedByAll
  <1>9. \A c \in Clients : Pending(c)' <=> BarrierAhead(c)'
    BY <1>1, <1>6, <1>7 DEF Pending
  <1>10. \A n \in Nodes : Stopped(n)' <=> Stopped(n)
    BY <1>1 DEF Stopped, ClientsOn
  <1>11. \A c \in Clients :
          /\ pc'[c] = "idle" /\ c \notin passed'
          /\ \A i, j \in DOMAIN mq'[c] :
                mq'[c][i].op = "barrier" /\ mq'[c][j].op = "barrier" => i = j
    BY <1>1, <1>5 DEF RoundInv
  <1>12. \/ \A c \in Clients : ~Pending(c)' /\ Owed(c)' = {}
         \/ (\A c \in Clients : Pending(c)') /\ \E c \in Clients : Owed(c)' # {}
    BY <1>8, <1>9
  <1>13. \A n \in Nodes :
          /\ rpc'[n].step \in Past => passed' = Clients
          /\ cur'[n] # Null => NodeOf[cur'[n]] = n /\ mq'[cur'[n]] # <<>> /\ ~Stopped(n)'
    BY <1>1, <1>10 DEF RoundInv
  <1>14. RoundInv'
    BY <1>7, <1>11, <1>12, <1>13 DEF RoundInv
  <1>15. Ledger = {} /\ Ledger' = {}
    BY <1>1, <1>6 DEF Ledger
  <1>16. LedgerInv'
    BY <1>1, <1>7, <1>15 DEF LedgerInv, BarrierQueued
  <1> QED
    BY <1>2, <1>3, <1>5, <1>6, <1>8, <1>14, <1>16

\* A commit thread applies an operation: no barrier moves.
LEMMA RoundApply ==
    ASSUME DirTypes, RoundInv, LedgerInv, NEW n \in Nodes, Apply(n)
    PROVE  RoundInv' /\ LedgerInv' /\ \A c \in Clients : BarrierQueued(c)' <=> BarrierQueued(c)
  <1> PICK c \in Clients : c = cur[n]
    BY QueueTail DEF Commit
  <1>1. UNCHANGED <<pc, todo, passed, ops, rpc>> /\ Msg(n).op # "barrier" /\ Commit(n)
    BY DEF Apply, clientVars, Commit
  <1>2. /\ c \in Clients /\ NodeOf[c] = n /\ mq[c] # <<>> /\ ~Stopped(n)
        /\ Msg(n) = mq[c][1] /\ 1 \in DOMAIN mq[c]
        /\ \A d \in Clients : d # c => mq'[d] = mq[d]
        /\ \A i \in DOMAIN (mq'[c]) : i \in Nat /\ i + 1 \in DOMAIN mq[c] /\ mq'[c][i] = mq[c][i + 1]
        /\ \A i \in DOMAIN mq[c] : i \in Nat /\ i # 0
        /\ \A i \in DOMAIN mq[c] : i # 1 => i - 1 \in DOMAIN (mq'[c])
        /\ cur'[n] = Null /\ \A m \in Nodes : m # n => cur'[m] = cur[m]
    BY <1>1, QueueTail
  <1>3. \A d \in Clients : (BarrierAhead(d)' <=> BarrierAhead(d)) /\ Owed(d)' = Owed(d)
    BY <1>1, SameRound
  <1>4. BarrierQueued(c)' <=> BarrierQueued(c)
    <2>1. ASSUME BarrierQueued(c)' PROVE BarrierQueued(c)
      BY <1>2, <2>1 DEF BarrierQueued
    <2>2. ASSUME BarrierQueued(c) PROVE BarrierQueued(c)'
      <3>1. PICK i \in DOMAIN mq[c] : mq[c][i].op = "barrier"
        BY <2>2 DEF BarrierQueued
      <3>2. i # 1 /\ i \in Nat
        BY <1>1, <1>2, <3>1
      <3>3. i - 1 \in DOMAIN (mq'[c]) /\ (i - 1) + 1 = i
        BY <1>2, <3>2
      <3>4. mq'[c][i - 1] = mq[c][i]
        BY <1>2, <3>3
      <3> QED
        BY <3>1, <3>3, <3>4 DEF BarrierQueued
    <2> QED
      BY <2>1, <2>2
  <1>5. \A d \in Clients : BarrierQueued(d)' <=> BarrierQueued(d)
    BY <1>2, <1>4 DEF BarrierQueued
  <1>6. \A d \in Clients : Pending(d)' <=> Pending(d)
    BY <1>1, <1>3, <1>5 DEF Pending
  <1>7. \A k \in Nodes : Stopped(k)' <=> Stopped(k)
    BY <1>1 DEF Stopped, ClientsOn
  <1>8. ASSUME NEW d \in Clients
        PROVE  \A i, j \in DOMAIN mq'[d] :
                  mq'[d][i].op = "barrier" /\ mq'[d][j].op = "barrier" => i = j
    <2>1. \A i, j \in DOMAIN mq[d] :
                  mq[d][i].op = "barrier" /\ mq[d][j].op = "barrier" => i = j
      BY DEF RoundInv
    <2>2. CASE d = c
      <3> SUFFICES ASSUME NEW i \in DOMAIN mq'[c], NEW j \in DOMAIN mq'[c],
                          mq'[c][i].op = "barrier", mq'[c][j].op = "barrier"
                   PROVE  i = j
        BY <2>2
      <3>1. /\ i \in Nat /\ i + 1 \in DOMAIN mq[c] /\ mq[c][i + 1].op = "barrier"
            /\ j \in Nat /\ j + 1 \in DOMAIN mq[c] /\ mq[c][j + 1].op = "barrier"
        BY <1>2
      <3>2. i + 1 = j + 1
        BY <2>1, <2>2, <3>1
      <3> QED
        BY <3>1, <3>2
    <2>3. CASE d # c
      BY <1>2, <2>1, <2>3
    <2> QED
      BY <2>2, <2>3
  <1>9. \A d \in Clients :
          /\ pc'[d] # "idle" => ~BarrierAhead(d)'
          /\ pc'[d] = "reply" => \A e \in Clients : ~BarrierAhead(e)' /\ ~BarrierQueued(e)'
          /\ BarrierAhead(d)' => ~BarrierQueued(d)' /\ d \notin passed'
          /\ BarrierQueued(d)' => d \notin passed'
    BY <1>1, <1>3, <1>5 DEF RoundInv
  <1>10. \/ \A d \in Clients : ~Pending(d)' /\ Owed(d)' = {}
         \/ (\A d \in Clients : Pending(d)') /\ \E d \in Clients : Owed(d)' # {}
    BY <1>3, <1>6 DEF RoundInv
  <1>11. ASSUME NEW k \in Nodes
         PROVE  /\ rpc'[k].step \in Past => passed' = Clients
                /\ cur'[k] # Null => NodeOf[cur'[k]] = k /\ mq'[cur'[k]] # <<>> /\ ~Stopped(k)'
    <2>1. rpc'[k].step \in Past => passed' = Clients
      BY <1>1 DEF RoundInv
    <2>2. CASE k = n
      BY <1>2, <2>1, <2>2
    <2>3. CASE k # n
      <3>1. ASSUME cur[k] # Null
            PROVE  cur[k] \in Clients /\ NodeOf[cur[k]] = k /\ mq[cur[k]] # <<>> /\ ~Stopped(k)
        BY <3>1, TakenMsg
      <3>2. ASSUME cur[k] # Null PROVE mq'[cur[k]] # <<>>
        BY <1>2, <2>3, <3>1, <3>2
      <3> QED
        BY <1>2, <1>7, <2>1, <2>3, <3>1, <3>2
    <2> QED
      BY <2>2, <2>3
  <1>12. RoundInv'
    BY <1>8, <1>9, <1>10, <1>11 DEF RoundInv
  <1>13. Ledger' = Ledger
    BY <1>1, <1>3 DEF Ledger, DirTypes
  <1>14. ASSUME NEW d \in Clients, NEW i \in DOMAIN mq'[d], mq'[d][i].op = "barrier"
         PROVE  mq'[d][i].opt = Cardinality(Owed(d)')
    <2>1. \A j \in DOMAIN mq[d] : mq[d][j].op = "barrier" => mq[d][j].opt = Cardinality(Owed(d))
      BY DEF LedgerInv
    <2>2. CASE d = c
      BY <1>2, <1>3, <1>14, <2>1, <2>2
    <2>3. CASE d # c
      BY <1>2, <1>3, <1>14, <2>1, <2>3
    <2> QED
      BY <2>2, <2>3
  <1>15. LedgerInv'
    BY <1>1, <1>13, <1>14 DEF LedgerInv
  <1> QED
    BY <1>5, <1>12, <1>15

\* A commit thread counts an announcement.
LEMMA RoundCount ==
    ASSUME DirTypes, RoundInv, LedgerInv, NEW n \in Nodes, Count(n)
    PROVE  RoundInv' /\ LedgerInv'
  <1> PICK c \in Clients : c = cur[n]
    BY QueueTail DEF Commit
  <1>1. /\ UNCHANGED <<pc, todo, rpc>> /\ Msg(n).op = "barrier" /\ Commit(n)
        /\ ops' = ops + Msg(n).opt /\ passed' = passed \cup {c}
    BY DEF Count, clientVars, Commit
  <1>2. /\ c \in Clients /\ NodeOf[c] = n /\ mq[c] # <<>> /\ ~Stopped(n)
        /\ Msg(n) = mq[c][1] /\ 1 \in DOMAIN mq[c]
        /\ \A d \in Clients : d # c => mq'[d] = mq[d]
        /\ \A i \in DOMAIN (mq'[c]) : i \in Nat /\ i + 1 \in DOMAIN mq[c] /\ mq'[c][i] = mq[c][i + 1]
        /\ \A i \in DOMAIN mq[c] : i \in Nat /\ i # 0
        /\ cur'[n] = Null /\ \A m \in Nodes : m # n => cur'[m] = cur[m]
    BY <1>1, QueueTail
  <1>3. \A d \in Clients : (BarrierAhead(d)' <=> BarrierAhead(d)) /\ Owed(d)' = Owed(d)
    BY <1>1, SameRound
  <1>4. BarrierQueued(c)
    BY <1>1, <1>2 DEF BarrierQueued
  <1>5. ~BarrierAhead(c) /\ c \notin passed
    BY <1>2, <1>4 DEF RoundInv
  <1>6. \A i \in DOMAIN (mq'[c]) : mq'[c][i].op # "barrier"
    <2> SUFFICES ASSUME NEW i \in DOMAIN (mq'[c]), mq'[c][i].op = "barrier" PROVE FALSE
      OBVIOUS
    <2>1. i \in Nat /\ i + 1 \in DOMAIN mq[c] /\ mq[c][i + 1].op = "barrier"
      BY <1>2
    <2>2. i + 1 = 1 /\ i + 1 # 1
      <3>1. i + 1 = 1
        BY <1>1, <1>2, <2>1 DEF RoundInv
      <3>2. i # 0
        BY <1>2, <2>1, LenProperties, TypesCommit, <1>1 DEF DirTypes
      <3> QED
        BY <2>1, <3>1, <3>2
    <2> QED
      BY <2>2
  <1>7. ~BarrierQueued(c)' /\ \A d \in Clients : d # c => (BarrierQueued(d)' <=> BarrierQueued(d))
    BY <1>2, <1>6 DEF BarrierQueued
  <1>8. \A d \in Clients : Pending(d)' <=> Pending(d)
    BY <1>1, <1>3, <1>4, <1>7 DEF Pending
  <1>9. \A d \in Clients :
          /\ pc'[d] # "idle" => ~BarrierAhead(d)'
          /\ BarrierAhead(d)' => ~BarrierQueued(d)' /\ d \notin passed'
          /\ BarrierQueued(d)' => d \notin passed'
    BY <1>1, <1>3, <1>5, <1>7 DEF RoundInv
  <1>10. \A d \in Clients : pc[d] # "reply"
    BY <1>2, <1>4 DEF RoundInv
  <1>11. ASSUME NEW d \in Clients
        PROVE  \A i, j \in DOMAIN mq'[d] :
                  mq'[d][i].op = "barrier" /\ mq'[d][j].op = "barrier" => i = j
    <2>1. \A i, j \in DOMAIN mq[d] :
                  mq[d][i].op = "barrier" /\ mq[d][j].op = "barrier" => i = j
      BY DEF RoundInv
    <2> QED
      BY <1>2, <1>6, <2>1
  <1>12. \/ \A d \in Clients : ~Pending(d)' /\ Owed(d)' = {}
         \/ (\A d \in Clients : Pending(d)') /\ \E d \in Clients : Owed(d)' # {}
    BY <1>3, <1>8 DEF RoundInv
  <1>13. ASSUME NEW k \in Nodes
         PROVE  /\ rpc'[k].step \in Past => passed' = Clients
                /\ cur'[k] # Null => NodeOf[cur'[k]] = k /\ mq'[cur'[k]] # <<>> /\ ~Stopped(k)'
    <2>1. rpc'[k].step \in Past => passed' = Clients
      BY <1>1, <1>2 DEF RoundInv
    <2>2. CASE k = n
      BY <1>2, <2>1, <2>2
    <2>3. CASE k # n
      <3>1. ASSUME cur[k] # Null
            PROVE  cur[k] \in Clients /\ NodeOf[cur[k]] = k /\ mq[cur[k]] # <<>> /\ ~Stopped(k)
        BY <3>1, TakenMsg
      <3>2. ASSUME cur[k] # Null PROVE mq'[cur[k]] # <<>>
        BY <1>2, <2>3, <3>1, <3>2
      <3>3. ~Stopped(k) => ~Stopped(k)'
        BY <1>1, <1>2, <2>3 DEF Stopped, ClientsOn
      <3> QED
        BY <1>2, <2>1, <2>3, <3>1, <3>2, <3>3
    <2> QED
      BY <2>2, <2>3
  <1>14. RoundInv'
    BY <1>1, <1>9, <1>10, <1>11, <1>12, <1>13 DEF RoundInv
  <1> DEFINE more == {c} \X Owed(c)
  <1>15. Ledger' = Ledger \cup more
    <2>1. \A d \in passed \cup {c} : Owed(d)' = Owed(d)
      BY <1>2, <1>3 DEF DirTypes
    <2>2. \A e : e \in Ledger' <=> \E d \in passed \cup {c} : \E k \in Owed(d) : e = <<d, k>>
      BY <1>1, <2>1 DEF Ledger
    <2>3. \A e : e \in more <=> \E k \in Owed(c) : e = <<c, k>>
      OBVIOUS
    <2>4. \A e : e \in Ledger' <=> e \in Ledger \/ e \in more
      BY <2>2, <2>3, LedgerEntry
    <2> QED
      BY <2>4
  <1>16. Ledger \cap more = {}
    BY <1>5 DEF Ledger
  <1>17. IsFiniteSet(Owed(c)) /\ Cardinality(Owed(c)) \in Nat
    BY <1>2, OwedFinite
  <1>18. IsFiniteSet(more) /\ Cardinality(more) = Cardinality(Owed(c))
    <2>1. IsFiniteSet({c}) /\ Cardinality({c}) = 1
      BY FS_Singleton
    <2>2. IsFiniteSet(more) /\ Cardinality(more) = Cardinality({c}) * Cardinality(Owed(c))
      BY <1>17, <2>1, FS_Product
    <2> QED
      BY <1>17, <2>1, <2>2
  <1>19. IsFiniteSet(Ledger) /\ ops = Cardinality(Ledger) /\ Cardinality(Ledger) \in Nat
    BY FS_CardinalityType DEF LedgerInv
  <1>20. IsFiniteSet(Ledger') /\ Cardinality(Ledger') = ops + Cardinality(Owed(c))
    <2> HIDE DEF more
    <2>1. IsFiniteSet(Ledger \cup more) /\ Cardinality(Ledger \cup more)
             = Cardinality(Ledger) + Cardinality(more) - Cardinality(Ledger \cap more)
      BY <1>18, <1>19, FS_Union
    <2>2. Cardinality(Ledger \cap more) = 0
      BY <1>16, FS_EmptySet
    <2> QED
      BY <1>15, <1>17, <1>18, <1>19, <2>1, <2>2
  <1>21. Msg(n).opt = Cardinality(Owed(c))
    BY <1>1, <1>2 DEF LedgerInv
  <1>22. ASSUME NEW d \in Clients, NEW i \in DOMAIN mq'[d], mq'[d][i].op = "barrier"
         PROVE  mq'[d][i].opt = Cardinality(Owed(d)')
    <2>1. d # c
      BY <1>6, <1>22
    <2> QED
      BY <1>2, <1>3, <1>22, <2>1 DEF LedgerInv
  <1>23. LedgerInv'
    BY <1>1, <1>20, <1>21, <1>22 DEF LedgerInv
  <1> QED
    BY <1>14, <1>23

\* The end of an operation: one less is owed, and the last one lifts the barrier.
LEMMA RoundEnd ==
    ASSUME DirTypes, RpcInv, RoundInv, LedgerInv, NEW n \in Nodes, End(n)
    PROVE  RoundInv' /\ LedgerInv'
  <1>1. rpc[n].step = "end" /\ passed = Clients
    BY DEF End, At, RoundInv, Past
  <1>2. PICK c \in Clients : c = rpc[n].client
    BY <1>1, ServedCall
  <1>3. /\ NodeOf[c] = n /\ pc[c] = "request" /\ todo[c] # <<>> /\ Call(c).op \in BarrierOps
    BY <1>1, <1>2, ServedCall
  <1>4. /\ ops' = ops - 1 /\ passed' = (IF ops = 1 THEN {} ELSE passed)
        /\ rpc' = [rpc EXCEPT ![n] = NoRpc] /\ pc' = [pc EXCEPT ![c] = "reply"]
        /\ UNCHANGED <<mq, todo, cur>>
    BY <1>2 DEF End
  <1>5. pc'[c] = "reply" /\ \A d \in Clients : d # c => pc'[d] = pc[d]
    BY <1>4 DEF DirTypes
  <1> DEFINE k == Len(todo[c])
  <1>6. k \in Owed(c) /\ Owed(c)' = Owed(c) \ {k}
    BY <1>3, <1>4, <1>5, OwedEnd
  <1> HIDE DEF k
  <1>7. \A d \in Clients : d # c => Owed(d)' = Owed(d)
    BY <1>4, <1>5, SameRound
  <1>8. \A d \in Clients : ~BarrierAhead(d) /\ ~BarrierQueued(d)
    BY <1>1 DEF RoundInv
  <1>9. \A d \in Clients : ~BarrierAhead(d)' /\ ~BarrierQueued(d)'
    <2>1. \A d \in Clients : ~BarrierAhead(d)'
      BY <1>4, <1>8, SameRound
    <2>2. \A d \in Clients : ~BarrierQueued(d)'
      BY <1>4, <1>8 DEF BarrierQueued
    <2> QED
      BY <2>1, <2>2
  <1>10. \A e : e \in Ledger <=> \E d \in Clients : \E j \in Owed(d) : e = <<d, j>>
    BY <1>1, LedgerEntry
  <1>11. <<c, k>> \in Ledger /\ IsFiniteSet(Ledger) /\ ops = Cardinality(Ledger) /\ ops \in Nat
    BY <1>6, <1>10, FS_CardinalityType DEF LedgerInv
  <1>12. \A e : (\E d \in Clients : \E j \in Owed(d)' : e = <<d, j>>) <=> e \in Ledger \ {<<c, k>>}
    <2> SUFFICES ASSUME NEW e
                 PROVE  (\E d \in Clients : \E j \in Owed(d)' : e = <<d, j>>)
                           <=> e \in Ledger /\ e # <<c, k>>
      OBVIOUS
    <2>1. ASSUME NEW d \in Clients, NEW j \in Owed(d)', e = <<d, j>>
          PROVE  e \in Ledger /\ e # <<c, k>>
      <3>1. j \in Owed(d) /\ (d = c => j # k)
        BY <1>6, <1>7
      <3> QED
        BY <1>10, <2>1, <3>1
    <2>2. ASSUME e \in Ledger, e # <<c, k>>
          PROVE  \E d \in Clients : \E j \in Owed(d)' : e = <<d, j>>
      <3>1. PICK d \in Clients : \E j \in Owed(d) : e = <<d, j>>
        BY <1>10, <2>2
      <3>2. PICK j \in Owed(d) : e = <<d, j>>
        BY <3>1
      <3>3. j \in Owed(d)'
        BY <1>6, <1>7, <2>2, <3>2
      <3> QED
        BY <3>2, <3>3
    <2> QED
      BY <2>1, <2>2
  <1>13. IsFiniteSet(Ledger \ {<<c, k>>}) /\ Cardinality(Ledger \ {<<c, k>>}) = ops - 1
    BY <1>11, FS_RemoveElement
  <1>14. ops # 0
    BY <1>11, FS_EmptySet
  <1>15. \A i \in Nodes : Stopped(i)
    BY <1>1 DEF Stopped, ClientsOn
  <1>16. \A i \in Nodes : cur'[i] = Null
    BY <1>4, <1>15 DEF RoundInv
  <1>17. /\ \A d \in Clients : \A i, j \in DOMAIN mq'[d] :
               mq'[d][i].op = "barrier" /\ mq'[d][j].op = "barrier" => i = j
         /\ \A d \in Clients : \A i \in DOMAIN mq'[d] : mq'[d][i].op # "barrier"
    BY <1>9 DEF BarrierQueued
  <1>18. CASE ops = 1
    <2>1. passed' = {} /\ ops' = 0
      BY <1>4, <1>18
    <2>2. Ledger \ {<<c, k>>} = {}
      BY <1>13, <1>18, FS_EmptySet
    <2>3. \A d \in Clients : Owed(d)' = {}
      BY <1>12, <2>2
    <2>4. \A d \in Clients : ~Pending(d)'
      BY <1>9, <2>1 DEF Pending
    <2>5. ASSUME NEW i \in Nodes PROVE rpc'[i].step \notin Past
      <3>1. CASE i = n
        BY <1>4, <3>1 DEF DirTypes, NoRpc, Past
      <3>2. CASE i # n
        <4> SUFFICES ASSUME rpc[i].step \in Past PROVE FALSE
          BY <1>4, <3>2 DEF DirTypes
        <4>1. rpc[i].step # "recv"
          BY DEF Past
        <4>2. PICK d \in Clients : d = rpc[i].client
          BY <4>1, ServedCall
        <4>3. /\ NodeOf[d] = i /\ pc[d] = "request" /\ todo[d] # <<>> /\ Call(d).op \in BarrierOps
          BY <4>1, <4>2, ServedCall
        <4>4. Owed(d) # {}
          BY <4>3, OwedEnd
        <4>5. Owed(d)' # {}
          BY <1>3, <1>7, <3>2, <4>3, <4>4
        <4> QED
          BY <2>3, <4>5
      <3> QED
        BY <3>1, <3>2
    <2>6. RoundInv'
      BY <1>9, <1>16, <1>17, <2>1, <2>3, <2>4, <2>5 DEF RoundInv
    <2>7. Ledger' = {}
      BY <2>1 DEF Ledger
    <2>8. LedgerInv'
      BY <1>17, <2>1, <2>7, FS_EmptySet DEF LedgerInv
    <2> QED
      BY <2>6, <2>8
  <1>19. CASE ops # 1
    <2>1. passed' = Clients /\ ops' = ops - 1
      BY <1>1, <1>4, <1>19
    <2>2. Ledger \ {<<c, k>>} # {}
      BY <1>11, <1>13, <1>14, <1>19, FS_EmptySet
    <2>3. \E d \in Clients : Owed(d)' # {}
      BY <1>12, <2>2
    <2>4. \A d \in Clients : Pending(d)'
      BY <2>1 DEF Pending
    <2>5. RoundInv'
      BY <1>9, <1>16, <1>17, <2>1, <2>3, <2>4 DEF RoundInv
    <2>6. Ledger' = Ledger \ {<<c, k>>}
      <3>1. \A e : e \in Ledger' <=> \E d \in Clients : \E j \in Owed(d)' : e = <<d, j>>
        BY <2>1 DEF Ledger
      <3>2. \A e : e \in Ledger' <=> e \in Ledger \ {<<c, k>>}
        BY <1>12, <3>1, Zenon
      <3> QED
        BY <3>2, Zenon
    <2>7. LedgerInv'
      BY <1>13, <1>17, <2>1, <2>6 DEF LedgerInv
    <2> QED
      BY <2>5, <2>7
  <1> QED
    BY <1>18, <1>19

\* The other steps of the threads leave the round where it is; Hold waits for
\* all announcements.
LEMMA RoundThreads ==
    ASSUME DirTypes, RpcInv, NoRenames, RoundInv, LedgerInv, NEW n \in Nodes,
           Rpc(n) \/ Cluster(n) \/ \E c \in Clients : RpcRecv(n, c) \/ Take(n, c)
    PROVE  RoundInv' /\ LedgerInv'
  <1>1. \A k \in Nodes : cur'[k] # Null /\ UNCHANGED cur => cur'[k] = cur[k]
    OBVIOUS
  <1>2. ASSUME NEW k \in Nodes, NEW x, NEW s, NEW P, RpcMoves(k, x, s, P),
               x \in Past => rpc[k].step \in Past \/ passed = Clients,
               UNCHANGED <<pc, todo, mq, passed, ops, cur>>
        PROVE  RoundInv' /\ LedgerInv'
    <2>1. \A i \in Nodes : rpc'[i].step \in Past => rpc[i].step \in Past \/ passed = Clients
      BY <1>2 DEF RpcMoves
    <2> QED
      BY <1>1, <1>2, <2>1, RoundSame
  <1>3. ASSUME ListSlot(n) \/ ListCount(n) \/ ListTold(n) PROVE RoundInv' /\ LedgerInv'
    <2>1. UNCHANGED <<pc, todo, mq, passed, ops, cur>>
      BY <1>3 DEF ListSlot, ListCount, ListTold, clientVars
    <2>2. {"listed", "tell", "hold"} \cap Past = {}
      BY DEF Past
    <2> QED
      BY <1>2, <1>3, <2>1, <2>2, ListMoves
  <1>4. ASSUME Unlist(n) PROVE RoundInv' /\ LedgerInv'
    <2> DEFINE x == IF Peers(n) = {} THEN "end" ELSE "untell"
    <2>1. UNCHANGED <<pc, todo, mq, passed, ops, cur>> /\ rpc[n].step \in Past
      BY <1>4 DEF Unlist, clientVars, At, Past
    <2>2. RpcMoves(n, x, rpc[n].stack, Peers(n))
      BY <1>4, ListMoves
    <2> HIDE DEF x
    <2> QED
      BY <1>2, <2>1, <2>2
  <1>5. ASSUME NEW p \in Paths, WalkDel(n, p) PROVE RoundInv' /\ LedgerInv'
    <2> DEFINE t == NextStack(n, p)
    <2>1. UNCHANGED <<pc, todo, mq, passed, ops, cur>> /\ rpc[n].step \in Past
      BY <1>5 DEF WalkDel, clientVars, At, Past
    <2>2. RpcMoves(n, "walk", t, rpc[n].peers)
      BY <1>5, WalkMoves
    <2> HIDE DEF t
    <2> QED
      BY <1>2, <2>1, <2>2
  <1>6. ASSUME WalkRmdir(n) PROVE RoundInv' /\ LedgerInv'
    <2> DEFINE x == IF Front(rpc[n].stack) = <<>> THEN "unlist" ELSE "walk"
    <2>1. UNCHANGED <<pc, todo, mq, passed, ops, cur>> /\ rpc[n].step \in Past
      BY <1>6 DEF WalkRmdir, clientVars, At, Past
    <2>2. RpcMoves(n, x, Front(rpc[n].stack), rpc[n].peers)
      BY <1>6, WalkMoves
    <2> HIDE DEF x
    <2> QED
      BY <1>2, <2>1, <2>2
  <1>7. ASSUME Hold(n) PROVE RoundInv' /\ LedgerInv'
    <2>1. UNCHANGED <<pc, todo, mq, passed, ops, cur>>
      BY <1>7 DEF Hold, clientVars
    <2>2. passed = Clients
      <3>1. \A c \in Clients : c \in passed
        BY <1>7, ConstantsAssumption DEF Hold, Stopped, ClientsOn
      <3> QED
        BY <3>1 DEF DirTypes
    <2>3. Served(n).op \in {"rmdir", "readdir"}
      BY <1>7, ServedOp DEF Hold, At
    <2>4. PICK x, s : RpcMoves(n, x, s, rpc[n].peers)
      BY <1>7, <2>3, HoldMoves
    <2> QED
      BY <1>2, <2>1, <2>2, <2>4
  <1>8. ASSUME NEW m \in Nodes, AddSlot(m, n) PROVE RoundInv' /\ LedgerInv'
    <2>1. UNCHANGED <<pc, todo, mq, passed, ops, cur, rpc>>
      BY <1>8 DEF AddSlot, clientVars
    <2> QED
      BY <1>1, <2>1, RoundSame
  <1>9. ASSUME AddCount(n) PROVE RoundInv' /\ LedgerInv'
    <2>1. UNCHANGED <<pc, todo, mq, passed, ops, cur>> /\ adding[n] # Null
      BY <1>9 DEF AddCount, clientVars
    <2>2. PICK k \in Nodes : k = adding[n].from
      BY <2>1, AddingTells
    <2>3. RpcMoves(k, rpc[k].step, rpc[k].stack, rpc[k].peers \ {n})
      BY <1>9, <2>2, PeerMoves
    <2> QED
      BY <1>2, <2>1, <2>3
  <1>10. ASSUME NEW m \in Nodes, DelRemoving(m, n) PROVE RoundInv' /\ LedgerInv'
    <2> DEFINE x == IF rpc[m].peers = {n} THEN "end" ELSE "untell"
    <2>1. UNCHANGED <<pc, todo, mq, passed, ops, cur>> /\ rpc[m].step \in Past
      BY <1>10 DEF DelRemoving, clientVars, At, Past
    <2>2. RpcMoves(m, x, rpc[m].stack, rpc[m].peers \ {n})
      BY <1>10, PeerMoves
    <2> HIDE DEF x
    <2> QED
      BY <1>2, <2>1, <2>2
  <1>11. ASSUME NEW c \in Clients, RpcRecv(n, c) PROVE RoundInv' /\ LedgerInv'
    <2>1. UNCHANGED <<pc, todo, mq, passed, ops, cur>>
      BY <1>11 DEF RpcRecv, clientVars
    <2>2. rpc'[n].step \in {"list", "hold"} /\ \A k \in Nodes : k # n => rpc'[k] = rpc[k]
      <3>1. rpc \in [Nodes -> RpcType]
        BY DEF DirTypes, RpcType
      <3> DEFINE x == IF Call(c).op = "rmdir" THEN "list" ELSE "hold"
      <3>2. rpc' = [rpc EXCEPT ![n].client = c, ![n].step = x] /\ x \in {"list", "hold"}
        BY <1>11 DEF RpcRecv
      <3> HIDE DEF x
      <3>3. rpc'[n].step = x /\ \A k \in Nodes : k # n => rpc'[k] = rpc[k]
        BY <3>1, <3>2 DEF RpcType
      <3> QED
        BY <3>2, <3>3
    <2>3. \A k \in Nodes : rpc'[k].step \in Past => rpc[k].step \in Past
      BY <2>2 DEF Past
    <2> QED
      BY <1>1, <2>1, <2>3, RoundSame
  <1>12. ASSUME NEW c \in Clients, Take(n, c) PROVE RoundInv' /\ LedgerInv'
    <2>1. UNCHANGED <<pc, todo, mq, passed, ops, rpc>> /\ cur' = [cur EXCEPT ![n] = c]
          /\ NodeOf[c] = n /\ mq[c] # <<>> /\ ~Stopped(n)
      BY <1>12 DEF Take, clientVars
    <2>2. \A k \in Nodes : cur'[k] # Null => cur'[k] = cur[k]
             \/ (NodeOf[cur'[k]] = k /\ mq[cur'[k]] # <<>> /\ ~Stopped(k))
      BY <2>1 DEF DirTypes
    <2> QED
      BY <2>1, <2>2, RoundSame
  <1> QED
    BY <1>3, <1>4, <1>5, <1>6, <1>7, <1>8, <1>9, <1>10, <1>11, <1>12, RoundEnd, NoRenameSteps
       DEF Rpc, Cluster

\* Every step keeps the account of the round.
LEMMA RoundNext ==
    ASSUME DirTypes, RpcInv, RoundInv, LedgerInv, StoreInv, LoadsInv, NotesFollowed, NotesFollowed', Next
    PROVE  RoundInv' /\ LedgerInv'
  <1>1. /\ AnnouncedFirst /\ AnnouncedByAll' /\ KeptOut /\ OnDirectories /\ NoRenames
    BY DEF NotesFollowed
  <1>2. ASSUME NEW c \in Clients, Client(c) PROVE RoundInv' /\ LedgerInv'
    <2>1. CASE Quiet(c)
      <3>1. /\ pc[c] = "idle" /\ todo[c] # <<>> /\ Call(c).op \in {"mkdir", "create", "rmdir", "readdir"}
            /\ UNCHANGED <<mq, passed, ops, cur, rpc>>
        BY <2>1 DEF Quiet
      <3>2. CASE UNCHANGED <<todo, pc>>
        BY <3>1, <3>2, RoundSame
      <3>3. CASE Done(c) /\ Call(c).op \in {"mkdir", "create"}
        BY <3>1, <3>3, RoundDone DEF BarrierOps
      <3>4. CASE pc' = [pc EXCEPT ![c] = "request"] /\ UNCHANGED todo /\ Call(c).op \in {"rmdir", "readdir"}
        <4>1. Calls(c, BarrierOps)
          BY <3>1, <3>4 DEF Calls, BarrierOps
        <4> QED
          BY <1>1, <3>1, <3>4, <4>1, RoundAsk
      <3> QED
        BY <2>1, <3>2, <3>3, <3>4 DEF Quiet
    <2>4. CASE Adds(c)
      <3>1. UNCHANGED <<mq, passed, ops, cur, rpc, todo, pc>>
        BY <2>4 DEF Adds
      <3> QED
        BY <3>1, RoundSame
    <2>6. CASE Sends(c)
      <3>1. /\ todo[c] # <<>> /\ Done(c) /\ Call(c).op \in {"mkdir", "create"}
            /\ UNCHANGED <<passed, ops, cur, rpc>> /\ NewMsg(c) \in MsgType
            /\ mq' = [mq EXCEPT ![c] = Append(@, NewMsg(c))] /\ NewType(c) \in {"dir", "file"}
        BY <2>6 DEF Sends, Calls
      <3>2. NewMsg(c).op # "barrier"
        BY <3>1 DEF NewMsg
      <3>3. Call(c).op \notin {"sync", "barrier"} /\ Call(c).op \notin BarrierOps
        BY <3>1 DEF BarrierOps
      <3> HIDE DEF NewMsg
      <3> QED
        BY <3>1, <3>2, <3>3, RoundDone
    <2>2. CASE Announce(c)
      BY <1>1, <2>2, RoundAnnounce
    <2>3. CASE Clean(c)
      <3>1. /\ todo[c] # <<>> /\ Done(c) /\ Call(c).op \notin {"sync", "barrier"} \cup BarrierOps
            /\ UNCHANGED <<mq, passed, ops, cur, rpc>>
        BY <2>3 DEF Clean, Calls, serverVars, BarrierOps
      <3> QED
        BY <3>1, RoundDone
    <2>5. CASE RmdirDel(c) \/ Listed(c) \/ Renamed(c)
      BY <1>1, <2>5, AnswerStep, RoundDone
    <2> QED
      BY <1>1, <1>2, <2>1, <2>2, <2>3, <2>4, <2>5, <2>6, ClientStep
  <1>3. ASSUME NEW n \in Nodes, Commit(n) PROVE RoundInv' /\ LedgerInv'
    BY <1>3, RoundApply, RoundCount DEF Commit
  <1> QED
    BY <1>1, <1>2, <1>3, RoundMpi, RoundThreads DEF Next

-----------------------------------------------------------------------------
(* What is queued.                                                         *)

\* The messages of a queue and the path of each.
LEMMA QueuedMsg ==
    ASSUME DirTypes, NEW c \in Clients, NEW i \in DOMAIN mq[c]
    PROVE  /\ mq[c][i] \in MsgType /\ i \in Nat \ {0}
           /\ mq[c][i].op # "barrier" =>
                 mq[c][i].path \in Paths \ {Root} /\ mq[c][i].op \in {"dir", "file"}
  <1>1. mq[c] \in Seq(MsgType)
    BY DEF DirTypes
  <1>2. i \in 1 .. Len(mq[c]) /\ Len(mq[c]) \in Nat
    BY <1>1, LenProperties
  <1>3. mq[c][i] \in MsgType
    BY <1>1, <1>2, ElementOfSeq
  <1> QED
    BY <1>2, <1>3, MsgFields

\* When no announcement is to come, everything in the queues is new.
LEMMA AllFresh ==
    ASSUME \A d \in Clients : ~BarrierAhead(d) /\ ~BarrierQueued(d)
    PROVE  \A c \in Clients : \A i \in DOMAIN mq[c] : Fresh(c, i) /\ mq[c][i].op # "barrier"
  BY DEF Fresh, BarrierQueued

\* While a directory is removed nothing of it is queued.
LEMMA RemovesClear ==
    ASSUME DirTypes, RpcInv, RoundInv, QueueInv, KeptOut, LoadsInv, NEW c \in Clients, Removes(c)
    PROVE  /\ \A d \in Clients : ~BarrierAhead(d) /\ ~BarrierQueued(d)
           /\ \A p \in Paths : Queued(p) => ~Within(p, Call(c).path)
  <1>1. \A d \in Clients : ~BarrierAhead(d) /\ ~BarrierQueued(d) /\ ~Calls(d, {"mkdir", "create"})
    BY RemovesRound
  <1>2. 1 \in InRound(c) /\ todo[c][1] = Call(c) /\ Call(c).op = "rmdir"
    BY RemovesCall
  <1>3. ASSUME NEW p \in Paths PROVE ~Sending(p)
    <2> SUFFICES ASSUME NEW d \in Clients, load[d].at = "send" PROVE FALSE
      BY DEF Sending, Doing
    <2>1. pc[d] = "idle" /\ todo[d] # <<>> /\ Making(d)
      BY LoadCall
    <2> QED
      BY <1>1, <2>1 DEF Calls, Making
  <1>4. ASSUME NEW p \in Paths, InQueue(p) PROVE ~Within(p, Call(c).path)
    <2>1. PICK d \in Clients : \E i \in DOMAIN mq[d] : mq[d][i].op # "barrier" /\ mq[d][i].path = p
      BY <1>4 DEF InQueue
    <2>2. PICK i \in DOMAIN mq[d] : mq[d][i].op # "barrier" /\ mq[d][i].path = p
      BY <2>1
    <2>3. Fresh(d, i) /\ MsgInv(d, i)
      BY <1>1, AllFresh DEF QueueInv
    <2> QED
      BY <1>2, <2>2, <2>3 DEF MsgInv
  <1> QED
    BY <1>1, <1>3, <1>4 DEF Queued

\* A thread behind the barrier removes for its client.
LEMMA PastRemoves ==
    ASSUME DirTypes, RpcInv, NEW n \in Nodes, rpc[n].step \in Past, Served(n).op = "rmdir"
    PROVE  /\ rpc[n].client \in Clients /\ Removes(rpc[n].client)
           /\ Served(n) = Call(rpc[n].client) /\ Served(n).path \in Paths
  <1>1. rpc[n].step # "recv"
    BY DEF Past
  <1>2. /\ rpc[n].client \in Clients /\ NodeOf[rpc[n].client] = n /\ pc[rpc[n].client] = "request"
        /\ Served(n) = Call(rpc[n].client) /\ Served(n).path \in Paths
    BY <1>1, ServedCall
  <1> QED
    BY <1>2 DEF Removes

\* The next entry of a walk lies within the directory that is removed.
LEMMA WalkEntry ==
    ASSUME DirTypes, RpcInv, WalkInv, NEW n \in Nodes, rpc[n].step = "walk",
           Served(n).op = "rmdir"
    PROVE  /\ rpc[n].stack # <<>> /\ Top(n).dir \in Paths /\ Within(Top(n).dir, Served(n).path)
           /\ \A p \in Top(n).left :
                 /\ p \in Paths \ {Root} /\ Front(p) = Top(n).dir
                 /\ Within(p, Served(n).path) /\ p # Served(n).path
  <1> DEFINE s == rpc[n].stack
  <1>1. s # <<>>
    BY DEF RpcInv
  <1>2. /\ s \in Seq(FrameType) /\ Len(s) \in Nat \ {0} /\ DOMAIN s = 1 .. Len(s)
        /\ Top(n) = s[Len(s)] /\ Top(n).dir \in Paths /\ Top(n).left \in SUBSET Paths
    BY <1>1, StackTypes
  <1>3. Chain(n)
    BY DEF WalkInv, Past
  <1> HIDE DEF s
  <1>4. 1 \in DOMAIN s /\ Len(s) \in DOMAIN s /\ 1 <= Len(s)
    BY <1>2
  <1>5. s[1].dir = Served(n).path /\ Within(Top(n).dir, s[1].dir)
    BY <1>1, <1>2, <1>3, <1>4 DEF Chain, s
  <1>6. \A q \in Top(n).left : q # Root /\ Front(q) = Top(n).dir
    <2>1. \A i \in DOMAIN s : \A q \in s[i].left : q # Root /\ Front(q) = s[i].dir
      BY <1>3, Zenon DEF Chain, s
    <2> QED
      BY <1>2, <1>4, <2>1, Zenon
  <1>7. Served(n).path \in Paths
    BY ServedCall
  <1>8. ASSUME NEW p \in Top(n).left
        PROVE  Within(p, Served(n).path) /\ p # Served(n).path
    <2>1. p \in Paths \ {Root} /\ Front(p) = Top(n).dir
      BY <1>2, <1>6
    <2>2. Within(p, Served(n).path)
      BY <1>5, <1>7, <2>1, WithinFront
    <2>3. ~Within(Top(n).dir, p)
      BY <2>1, WithinFront
    <2> QED
      BY <1>5, <2>2, <2>3
  <1> QED
    BY <1>1, <1>2, <1>5, <1>6, <1>8 DEF s

\* A message that was there before.
LEMMA MsgSame ==
    ASSUME NEW c \in Clients, NEW i \in DOMAIN mq'[c], NEW k \in DOMAIN mq[c],
           MsgInv(c, k), mq'[c][i] = mq[c][k], Fresh(c, i)' => Fresh(c, k),
           current_barrier_id'[c] = current_barrier_id[c],
           \A d \in Clients : \A j \in InRound(d)' : \E l \in InRound(d) : todo'[d][j] = todo[d][l],
           mq[c][k].op # "barrier" => Type(kv'[mq[c][k].path]) = Type(kv[mq[c][k].path])
    PROVE  MsgInv(c, i)'
  <1> SUFFICES ASSUME mq'[c][i].op # "barrier"
               PROVE  /\ Type(kv'[mq'[c][i].path]) = mq'[c][i].op
                      /\ Fresh(c, i)' =>
                            /\ mq'[c][i].id = current_barrier_id'[c]
                            /\ \A d \in Clients : \A j \in InRound(d)' :
                                  todo'[d][j].op = "rmdir" => ~Within(mq'[c][i].path, todo'[d][j].path)
    BY DEF MsgInv, Type, Within
  <1>1. Type(kv'[mq'[c][i].path]) = mq'[c][i].op
    BY DEF MsgInv
  <1>2. ASSUME Fresh(c, i)'
        PROVE  /\ mq'[c][i].id = current_barrier_id'[c]
               /\ \A d \in Clients : \A j \in InRound(d)' :
                     todo'[d][j].op = "rmdir" => ~Within(mq'[c][i].path, todo'[d][j].path)
    BY <1>2 DEF MsgInv
  <1> QED
    BY <1>1, <1>2

\* Steps that keep the queues, the announcements and the types of what is queued.
LEMMA QueueSame ==
    ASSUME DirTypes, QueueInv, UNCHANGED <<mq, current_barrier_id>>,
           \A d \in Clients : BarrierAhead(d)' <=> BarrierAhead(d),
           \A d \in Clients : \A j \in InRound(d)' : \E l \in InRound(d) : todo'[d][j] = todo[d][l],
           \A p \in Paths : InQueue(p) => Type(kv'[p]) = Type(kv[p])
    PROVE  QueueInv'
  <1>1. ASSUME NEW c \in Clients, NEW i \in DOMAIN mq'[c] PROVE MsgInv(c, i)'
    <2>1. i \in DOMAIN mq[c] /\ MsgInv(c, i)
      BY <1>1 DEF QueueInv
    <2>2. Fresh(c, i)' => Fresh(c, i)
      BY DEF Fresh
    <2>3. mq[c][i].op # "barrier" => Type(kv'[mq[c][i].path]) = Type(kv[mq[c][i].path])
      BY <2>1, QueuedMsg DEF InQueue
    <2> QED
      BY <2>1, <2>2, <2>3, MsgSame
  <1>2. IdsInv'
    BY DEF QueueInv, IdsInv
  <1> QED
    BY <1>1, <1>2 DEF QueueInv

\* What is queued is cached, and a load leaves it alone.
LEMMA QueuedLoads ==
    ASSUME DirTypes, QueueInv, LoadsInv, NEW p \in Paths, Queued(p)
    PROVE  /\ kv[p] # "none"
           /\ \A S, new : Loads(new, S) => Type(new[p]) = Type(kv[p]) /\ new[p] # "none"
  <1>1. Type(kv[p]) \in {"dir", "file"}
    <2>1. CASE InQueue(p)
      <3>1. PICK d \in Clients : \E i \in DOMAIN mq[d] : mq[d][i].op # "barrier" /\ mq[d][i].path = p
        BY <2>1 DEF InQueue
      <3>2. PICK i \in DOMAIN mq[d] : mq[d][i].op # "barrier" /\ mq[d][i].path = p
        BY <3>1
      <3> QED
        BY <3>2, QueuedMsg DEF QueueInv, MsgInv
    <2>2. CASE Sending(p)
      <3>1. PICK d \in Clients : load[d].at = "send" /\ Call(d).path = p
        BY <2>2 DEF Sending, Doing
      <3>2. Type(kv[p]) = NewType(d)
        BY <3>1 DEF LoadsInv, LoadInv, Doing
      <3> QED
        BY <3>2 DEF NewType
    <2> QED
      BY <2>1, <2>2 DEF Queued
  <1>2. kv[p] # "none"
    BY <1>1 DEF Type
  <1>3. ASSUME NEW S, NEW new, Loads(new, S) PROVE Type(new[p]) = Type(kv[p])
    BY <1>2, <1>3 DEF Loads
  <1> QED
    BY <1>1, <1>2, <1>3 DEF Type

\* A call that makes an entry: the name was free, so nothing queued has it.
LEMMA QueueMake ==
    ASSUME DirTypes, QueueInv, LoadsInv, NEW c \in Clients, Quiet(c) \/ Adds(c)
    PROVE  QueueInv'
  <1>1. CASE Quiet(c)
    <2>1. /\ todo[c] # <<>> /\ UNCHANGED <<mq, current_barrier_id>>
          /\ Loads(kv', {x \in Paths : ~Leaving(x)})
      BY <1>1 DEF Quiet
    <2>2. \A x \in Paths : InQueue(x) => Type(kv'[x]) = Type(kv[x])
      BY <2>1, QueuedLoads DEF Queued
    <2>3. /\ \A d \in Clients : BarrierAhead(d)' <=> BarrierAhead(d)
          /\ \A d \in Clients : \A i \in InRound(d)' : \E k \in InRound(d) : todo'[d][i] = todo[d][k]
      <3>1. CASE UNCHANGED todo
        BY <3>1, SameRound DEF InRound, BarrierAhead
      <3>2. CASE Done(c) /\ Call(c).op \in {"mkdir", "create"}
        <4>1. Call(c).op \notin {"sync", "barrier"} \cup BarrierOps
          BY <3>2 DEF BarrierOps
        <4> QED
          BY <2>1, <3>2, <4>1, DoneRound
      <3> QED
        BY <1>1, <3>1, <3>2 DEF Quiet
    <2> QED
      BY <2>1, <2>2, <2>3, QueueSame
  <1>2. CASE Adds(c)
    <2>1. /\ UNCHANGED <<mq, current_barrier_id, todo>> /\ Call(c).path \in Paths
          /\ kv[Call(c).path] = "none" /\ kv' = [kv EXCEPT ![Call(c).path] = NewType(c)]
      BY <1>2 DEF Adds
    <2>2. ASSUME NEW x \in Paths, InQueue(x) PROVE Type(kv'[x]) = Type(kv[x])
      <3>1. x # Call(c).path
        BY <2>1, <2>2, QueuedLoads DEF Queued
      <3> QED
        BY <2>1, <3>1 DEF DirTypes
    <2>3. /\ \A d \in Clients : BarrierAhead(d)' <=> BarrierAhead(d)
          /\ \A d \in Clients : \A i \in InRound(d)' : \E k \in InRound(d) : todo'[d][i] = todo[d][k]
      BY <2>1 DEF InRound, BarrierAhead
    <2> QED
      BY <2>1, <2>2, <2>3, QueueSame
  <1> QED
    BY <1>1, <1>2

\* add_to_mq: what is queued behind the announcement is not in a directory that
\* is removed.
LEMMA QueueSend ==
    ASSUME DirTypes, QueueInv, LoadsInv, KeptOut, NEW c \in Clients, Sends(c)
    PROVE  QueueInv'
  <1> DEFINE p == Call(c).path
             t == NewType(c)
             m == NewMsg(c)
  <1>1. /\ Calls(c, {"mkdir", "create"}) /\ load[c].at = "send" /\ Done(c)
        /\ todo[c] # <<>> /\ Call(c).op \in {"mkdir", "create"}
        /\ p \in Paths \ {Root} /\ m \in MsgType /\ mq' = [mq EXCEPT ![c] = Append(@, m)]
        /\ UNCHANGED <<kv, current_barrier_id>>
    BY DEF Sends, Calls
  <1>2. m.op = t /\ m.path = p /\ m.id = current_barrier_id[c]
    BY DEF NewMsg
  <1>3. Type(kv[p]) = t
    BY <1>1 DEF LoadsInv, LoadInv, Doing
  <1> HIDE DEF m, t
  <1>4. Call(c).op \notin {"sync", "barrier"} \cup BarrierOps
    BY <1>1 DEF BarrierOps
  <1>5. /\ \A d \in Clients : BarrierAhead(d)' <=> BarrierAhead(d)
        /\ \A d \in Clients : \A i \in InRound(d)' : \E k \in InRound(d) : todo'[d][i] = todo[d][k]
    BY <1>1, <1>4, DoneRound
  <1>6. /\ \A d \in Clients : d # c => mq'[d] = mq[d]
        /\ Len(mq[c]) \in Nat /\ DOMAIN mq[c] = 1 .. Len(mq[c])
        /\ DOMAIN (mq'[c]) = 1 .. Len(mq[c]) + 1
        /\ mq'[c][Len(mq[c]) + 1] = m /\ \A i \in 1 .. Len(mq[c]) : mq'[c][i] = mq[c][i]
    BY <1>1, QueueAppend
  <1>7. ASSUME NEW d \in Clients, NEW i \in DOMAIN mq'[d], i \in DOMAIN mq[d], mq'[d][i] = mq[d][i]
        PROVE  MsgInv(d, i)'
    <2>1. MsgInv(d, i)
      BY <1>7 DEF QueueInv
    <2>2. Fresh(d, i)' => Fresh(d, i)
      <3>1. \A j \in DOMAIN mq[d] : j \in DOMAIN mq'[d] /\ mq'[d][j] = mq[d][j]
        <4>1. CASE d = c
          BY <1>6, <4>1
        <4>2. CASE d # c
          BY <1>6, <4>2
        <4> QED
          BY <4>1, <4>2
      <3> QED
        BY <1>5, <3>1 DEF Fresh
    <2> QED
      BY <1>1, <1>5, <1>7, <2>1, <2>2, MsgSame
  <1>8. ASSUME NEW i \in DOMAIN mq'[c], i = Len(mq[c]) + 1 PROVE MsgInv(c, i)'
    <2>1. mq'[c][i].op = t /\ mq'[c][i].path = p /\ mq'[c][i].id = current_barrier_id[c]
      BY <1>2, <1>6, <1>8
    <2>2. Type(kv'[p]) = t
      BY <1>1, <1>3 DEF Type
    <2>3. ASSUME ~BarrierAhead(c), NEW d \in Clients, NEW j \in InRound(d)', todo'[d][j].op = "rmdir"
          PROVE  ~Within(p, todo'[d][j].path)
      <3>1. PICK k \in InRound(d) : todo'[d][j] = todo[d][k]
        BY <1>5
      <3> QED
        BY <1>1, <2>3, <3>1 DEF KeptOut
    <2>4. Fresh(c, i)' => ~BarrierAhead(c)
      BY <1>5 DEF Fresh
    <2>5. Fresh(c, i)' => /\ mq'[c][i].id = current_barrier_id'[c]
                          /\ \A d \in Clients : \A j \in InRound(d)' :
                                todo'[d][j].op = "rmdir" => ~Within(mq'[c][i].path, todo'[d][j].path)
      BY <1>1, <2>1, <2>3, <2>4
    <2> QED
      BY <2>1, <2>2, <2>5 DEF MsgInv, Type, Within
  <1>9. ASSUME NEW d \in Clients, NEW i \in DOMAIN mq'[d] PROVE MsgInv(d, i)'
    <2>1. CASE d = c /\ i = Len(mq[c]) + 1
      BY <1>8, <2>1
    <2>2. CASE ~(d = c /\ i = Len(mq[c]) + 1)
      <3>1. i \in DOMAIN mq[d] /\ mq'[d][i] = mq[d][i]
        BY <1>6, <2>2
      <3> QED
        BY <1>7, <3>1
    <2> QED
      BY <2>1, <2>2
  <1>10. IdsInv'
    BY <1>1, <1>5 DEF QueueInv, IdsInv
  <1> QED
    BY <1>9, <1>10 DEF QueueInv

\* The announcement: nothing in the queue is new then.
LEMMA QueueAnnounce ==
    ASSUME DirTypes, RoundInv, LedgerInv, QueueInv, AnnouncedFirst, NEW c \in Clients, Announce(c)
    PROVE  QueueInv'
  <1> DEFINE m == [op |-> "barrier", opt |-> Call(c).opt, id |-> current_barrier_id[c] + 1]
  <1>1. /\ todo[c] # <<>> /\ Done(c) /\ Call(c).op = "barrier" /\ UNCHANGED kv
        /\ mq' = [mq EXCEPT ![c] = Append(@, m)]
        /\ current_barrier_id' = [current_barrier_id EXCEPT ![c] = @ + 1]
    BY DEF Announce, Calls
  <1>2. m \in MsgType /\ m.op = "barrier"
    <2>1. Call(c).opt \in Nat
      BY <1>1, NextCall, CallFields
    <2>2. current_barrier_id[c] + 1 \in Nat
      BY DEF DirTypes
    <2> QED
      BY <2>1, <2>2 DEF MsgType
  <1> HIDE DEF m
  <1>3. /\ \A d \in Clients : d # c => (BarrierAhead(d)' <=> BarrierAhead(d))
        /\ \A d \in Clients : \A i \in InRound(d)' : \E k \in InRound(d) : todo'[d][i] = todo[d][k]
    BY <1>1, DoneRound DEF BarrierOps
  <1>4. BarrierAhead(c) /\ ~BarrierAhead(c)'
    BY RoundAnnounce
  <1>5. /\ \A d \in Clients : d # c => mq'[d] = mq[d]
        /\ Len(mq[c]) \in Nat /\ DOMAIN mq[c] = 1 .. Len(mq[c])
        /\ DOMAIN (mq'[c]) = 1 .. Len(mq[c]) + 1
        /\ mq'[c][Len(mq[c]) + 1] = m /\ \A i \in 1 .. Len(mq[c]) : mq'[c][i] = mq[c][i]
    BY <1>1, <1>2, QueueAppend
  <1>6. current_barrier_id'[c] = current_barrier_id[c] + 1
        /\ \A d \in Clients : d # c => current_barrier_id'[d] = current_barrier_id[d]
    BY <1>1 DEF DirTypes
  <1>7. ASSUME NEW i \in DOMAIN mq'[c] PROVE MsgInv(c, i)'
    <2>1. ~Fresh(c, i)'
      <3>1. Len(mq[c]) + 1 \in DOMAIN mq'[c] /\ Len(mq[c]) + 1 >= i
            /\ mq'[c][Len(mq[c]) + 1].op = "barrier"
        BY <1>2, <1>5
      <3> QED
        BY <3>1 DEF Fresh
    <2>2. CASE i = Len(mq[c]) + 1
      BY <1>2, <1>5, <2>2 DEF MsgInv
    <2>3. CASE i # Len(mq[c]) + 1
      <3>1. i \in DOMAIN mq[c] /\ mq'[c][i] = mq[c][i]
        BY <1>5, <2>3
      <3>2. MsgInv(c, i)
        BY <3>1 DEF QueueInv
      <3> QED
        BY <1>1, <2>1, <3>1, <3>2 DEF MsgInv, Type
    <2> QED
      BY <2>2, <2>3
  <1>8. ASSUME NEW d \in Clients, d # c, NEW i \in DOMAIN mq'[d] PROVE MsgInv(d, i)'
    <2>1. i \in DOMAIN mq[d] /\ mq'[d] = mq[d] /\ MsgInv(d, i)
      BY <1>5, <1>8 DEF QueueInv
    <2>2. Fresh(d, i)' => Fresh(d, i)
      BY <1>3, <1>8, <2>1 DEF Fresh
    <2> QED
      BY <1>1, <1>3, <1>6, <1>8, <2>1, <2>2, MsgSame
  <1>9. IdsInv'
    <2>1. \A d \in Clients : current_barrier_id[d] \in Nat
      BY DEF DirTypes
    <2>2. \A d, e \in Clients :
            /\ (BarrierAhead(d) <=> BarrierAhead(e)) => current_barrier_id[d] = current_barrier_id[e]
            /\ BarrierAhead(d) /\ ~BarrierAhead(e) =>
                  current_barrier_id[e] = current_barrier_id[d] + 1
      BY DEF QueueInv, IdsInv
    <2>3. ASSUME NEW d \in Clients, NEW e \in Clients
          PROVE  /\ (BarrierAhead(d)' <=> BarrierAhead(e)') =>
                       current_barrier_id'[d] = current_barrier_id'[e]
                 /\ BarrierAhead(d)' /\ ~BarrierAhead(e)' =>
                       current_barrier_id'[e] = current_barrier_id'[d] + 1
      <3>1. CASE d = c /\ e = c
        BY <3>1
      <3>2. CASE d = c /\ e # c
        BY <1>3, <1>4, <1>6, <2>2, <3>2
      <3>3. CASE d # c /\ e = c
        BY <1>3, <1>4, <1>6, <2>2, <3>3
      <3>4. CASE d # c /\ e # c
        BY <1>3, <1>6, <2>2, <3>4
      <3> QED
        BY <3>1, <3>2, <3>3, <3>4
    <2> QED
      BY <2>3 DEF IdsInv
  <1> QED
    BY <1>7, <1>8, <1>9 DEF QueueInv

\* MPI_Barrier: either all have a barrier ahead, or nothing is removed.
LEMMA QueueMpi ==
    ASSUME DirTypes, RoundInv, LedgerInv, QueueInv, AnnouncedByAll', MpiBarrier
    PROVE  QueueInv'
  <1>1. UNCHANGED <<kv, mq, current_barrier_id, pc>> /\ \A c \in Clients : pc[c] = "idle"
    BY DEF MpiBarrier, Calls
  <1>2. /\ \A c \in Clients : ~BarrierAhead(c) /\ ~BarrierQueued(c)
        /\ \/ \A c \in Clients : ~BarrierAhead(c)' /\ Owed(c)' = {}
           \/ \A c \in Clients : BarrierAhead(c)'
    BY RoundMpi
  <1>3. IdsInv'
    BY <1>1, <1>2 DEF QueueInv, IdsInv
  <1>4. ASSUME NEW c \in Clients, NEW i \in DOMAIN mq'[c] PROVE MsgInv(c, i)'
    <2>1. i \in DOMAIN mq[c] /\ MsgInv(c, i) /\ Fresh(c, i)
      BY <1>1, <1>2, AllFresh DEF QueueInv
    <2>2. CASE \A d \in Clients : BarrierAhead(d)'
      <3>1. ~Fresh(c, i)'
        BY <2>2 DEF Fresh
      <3> QED
        BY <1>1, <2>1, <3>1 DEF MsgInv, Type
    <2>3. CASE \A d \in Clients : Owed(d)' = {}
      <3>1. ASSUME NEW d \in Clients, NEW j \in InRound(d)' PROVE todo'[d][j].op # "rmdir"
        <4> SUFFICES ASSUME todo'[d][j].op \in BarrierOps PROVE FALSE
          BY DEF BarrierOps
        <4>1. todo'[d] \in Seq(CallType)
          BY TypesMpi DEF DirTypes
        <4>2. j \in 1 .. Len(todo'[d]) /\ Len(todo'[d]) \in Nat
          BY <4>1, LenProperties DEF InRound
        <4> DEFINE k == Len(todo'[d]) + 1 - j
        <4>3. k \in 1 .. Len(todo'[d]) /\ Len(todo'[d]) + 1 - k = j
          BY <4>2
        <4>4. pc'[d] # "reply"
          BY <1>1
        <4> HIDE DEF k
        <4>5. k \in Owed(d)'
          BY <4>3, <4>4 DEF Owed
        <4> QED
          BY <2>3, <4>5
      <3> QED
        BY <1>1, <2>1, <3>1 DEF MsgInv, Type, Within
    <2> QED
      BY <1>2, <2>2, <2>3
  <1> QED
    BY <1>3, <1>4 DEF QueueInv

\* A message leaves its queue.
LEMMA QueueCommit ==
    ASSUME DirTypes, RoundInv, QueueInv, NEW n \in Nodes, Commit(n)
    PROVE  QueueInv'
  <1>1. UNCHANGED <<kv, todo, current_barrier_id>>
    BY DEF Commit, Apply, Count, clientVars
  <1> PICK c \in Clients : c = cur[n]
    BY QueueTail
  <1>2. /\ \A d \in Clients : d # c => mq'[d] = mq[d]
        /\ \A i \in DOMAIN (mq'[c]) : i \in Nat \ {0} /\ i + 1 \in DOMAIN mq[c] /\ mq'[c][i] = mq[c][i + 1]
        /\ \A i \in DOMAIN mq[c] : i \in Nat /\ i # 0
        /\ \A i \in DOMAIN mq[c] : i # 1 => i - 1 \in DOMAIN (mq'[c])
    BY QueueTail
  <1>3. \A d \in Clients : (BarrierAhead(d)' <=> BarrierAhead(d)) /\ InRound(d)' = InRound(d)
    BY <1>1, SameRound
  <1>4. \A d \in Clients : \A j \in InRound(d)' : \E l \in InRound(d) : todo'[d][j] = todo[d][l]
    BY <1>1, <1>3
  <1>5. ASSUME NEW i \in DOMAIN mq'[c] PROVE MsgInv(c, i)'
    <2>1. PICK k \in DOMAIN mq[c] : k = i + 1
      BY <1>2
    <2>2. i \in Nat \ {0} /\ mq'[c][i] = mq[c][k] /\ MsgInv(c, k) /\ k \in Nat
      BY <1>2, <2>1 DEF QueueInv
    <2>3. ASSUME Fresh(c, i)' PROVE Fresh(c, k)
      <3>1. ASSUME NEW j \in DOMAIN mq[c], j >= k PROVE mq[c][j].op # "barrier"
        <4>1. j \in Nat /\ j # 1 /\ j # 0
          BY <1>2, <2>1, <2>2, <3>1, QueuedMsg
        <4>2. j - 1 \in DOMAIN (mq'[c]) /\ j - 1 >= i /\ (j - 1) + 1 = j
          BY <1>2, <2>1, <2>2, <3>1, <4>1
        <4>3. mq'[c][j - 1] = mq[c][j]
          BY <1>2, <4>2
        <4> QED
          BY <2>3, <4>2, <4>3 DEF Fresh
      <3> QED
        BY <1>3, <2>3, <3>1 DEF Fresh
    <2> QED
      BY <1>1, <1>4, <2>2, <2>3, MsgSame
  <1>6. ASSUME NEW d \in Clients, d # c, NEW i \in DOMAIN mq'[d] PROVE MsgInv(d, i)'
    <2>1. i \in DOMAIN mq[d] /\ mq'[d] = mq[d] /\ MsgInv(d, i)
      BY <1>2, <1>6 DEF QueueInv
    <2>2. Fresh(d, i)' => Fresh(d, i)
      BY <1>3, <2>1 DEF Fresh
    <2> QED
      BY <1>1, <1>4, <2>1, <2>2, MsgSame
  <1>7. IdsInv'
    BY <1>1, <1>3 DEF QueueInv, IdsInv
  <1> QED
    BY <1>5, <1>6, <1>7 DEF QueueInv

\* What the steps of the threads leave alone.
LEMMA ThreadsLeave ==
    ASSUME NEW n \in Nodes, Rpc(n) \/ Cluster(n) \/ \E c \in Clients : RpcRecv(n, c) \/ Take(n, c)
    PROVE  /\ UNCHANGED <<mq, current_barrier_id, todo, dirtab, load>>
           /\ UNCHANGED kv \/ \E p \in Paths : WalkDel(n, p) \/ WalkRename(n, p)
           /\ UNCHANGED dfs \/ WalkRmdir(n) \/ Rename(n) \/ \E p \in Paths : WalkDel(n, p)
           /\ UNCHANGED <<tree, pc, passed, ops, stale>> \/ End(n)
  BY DEF Rpc, Cluster, RpcRecv, Take, ListSlot, ListCount, ListTold, Hold, WalkDel, WalkRename,
         WalkRmdir, WalkBack, Rename, Unlist, End, AddCount, AddSlot, DelRemoving, clientVars

\* Every step keeps what is queued.
LEMMA QueueNext ==
    ASSUME DirTypes, RpcInv, RoundInv, LedgerInv, QueueInv, StoreInv, WalkInv, LoadsInv,
           NotesFollowed, NotesFollowed', Next
    PROVE  QueueInv'
  <1>1. /\ AnnouncedFirst /\ AnnouncedByAll' /\ KeptOut /\ OnDirectories /\ NoRenames
    BY DEF NotesFollowed
  <1>2. ASSUME UNCHANGED <<mq, current_barrier_id, todo>>,
               \A p \in Paths : InQueue(p) => Type(kv'[p]) = Type(kv[p])
        PROVE  QueueInv'
    <2>1. \A d \in Clients : (BarrierAhead(d)' <=> BarrierAhead(d)) /\ InRound(d)' = InRound(d)
      BY <1>2, SameRound
    <2>2. \A d \in Clients : \A j \in InRound(d)' : \E l \in InRound(d) : todo'[d][j] = todo[d][l]
      BY <1>2, <2>1
    <2> QED
      BY <1>2, <2>1, <2>2, QueueSame
  <1>3. ASSUME NEW c \in Clients, Client(c) PROVE QueueInv'
    <2>1. CASE Clean(c)
      <3>1. /\ todo[c] # <<>> /\ Done(c) /\ Call(c).op \notin {"sync", "barrier"} \cup BarrierOps
            /\ UNCHANGED <<kv, mq, current_barrier_id>>
        BY <2>1 DEF Clean, Calls, BarrierOps
      <3>2. /\ \A d \in Clients : BarrierAhead(d)' <=> BarrierAhead(d)
            /\ \A d \in Clients : \A i \in InRound(d)' : \E k \in InRound(d) : todo'[d][i] = todo[d][k]
        BY <3>1, DoneRound
      <3> QED
        BY <3>1, <3>2, QueueSame
    <2>3. CASE RmdirDel(c) \/ Listed(c) \/ Renamed(c)
      <3>1. /\ todo[c] # <<>> /\ Done(c) /\ pc[c] = "reply" /\ Call(c).op \in {"rmdir", "readdir"}
            /\ Call(c).path \in Paths /\ UNCHANGED <<mq, current_barrier_id>>
            /\ IF Call(c).op = "rmdir" THEN kv' = [kv EXCEPT ![Call(c).path] = "none"]
               ELSE UNCHANGED kv
        BY <1>1, <2>3, AnswerStep
      <3>2. /\ \A d \in Clients : BarrierAhead(d)' <=> BarrierAhead(d)
            /\ \A d \in Clients : \A i \in InRound(d)' : \E k \in InRound(d) : todo'[d][i] = todo[d][k]
        BY <3>1, DoneRound
      <3>3. ASSUME NEW p \in Paths, InQueue(p) PROVE kv'[p] = kv[p]
        <4>1. CASE Call(c).op = "rmdir"
          <5>1. Removes(c)
            BY <3>1, <4>1 DEF Removes
          <5>2. ~Within(p, Call(c).path)
            BY <1>1, <3>3, <5>1, RemovesClear DEF Queued
          <5>3. p # Call(c).path
            BY <3>1, <5>2, WithinOrder
          <5> QED
            BY <3>1, <4>1, <5>3 DEF DirTypes
        <4>2. CASE Call(c).op # "rmdir"
          BY <3>1, <4>2
        <4> QED
          BY <4>1, <4>2
      <3> QED
        BY <3>1, <3>2, <3>3, QueueSame
    <2> QED
      BY <1>1, <1>3, <2>1, <2>3, ClientStep, QueueMake, QueueSend, QueueAnnounce
  <1>4. ASSUME NEW n \in Nodes, Rpc(n) \/ Cluster(n) \/ \E c \in Clients : RpcRecv(n, c) \/ Take(n, c)
        PROVE  QueueInv'
    <2>1. /\ UNCHANGED <<mq, current_barrier_id, todo>>
          /\ UNCHANGED kv \/ \E p \in Paths : WalkDel(n, p) \/ WalkRename(n, p)
      BY <1>4, ThreadsLeave
    <2>2. CASE UNCHANGED kv
      BY <1>2, <2>1, <2>2
    <2>3. CASE \E p \in Paths : WalkDel(n, p)
      <3>1. PICK p \in Paths : WalkDel(n, p)
        BY <2>3
      <3>2. /\ rpc[n].step = "walk" /\ Served(n).op = "rmdir" /\ p \in Top(n).left
            /\ kv' = [kv EXCEPT ![p] = "none"]
        BY <3>1 DEF WalkDel, At, dmkv_del
      <3>3. Within(p, Served(n).path)
        BY <3>2, WalkEntry
      <3>4. rpc[n].client \in Clients /\ Removes(rpc[n].client) /\ Served(n) = Call(rpc[n].client)
        BY <3>2, PastRemoves DEF Past
      <3>5. \A x \in Paths : InQueue(x) => x # p
        BY <1>1, <3>3, <3>4, RemovesClear DEF Queued
      <3>6. \A x \in Paths : InQueue(x) => kv'[x] = kv[x]
        BY <3>2, <3>5 DEF DirTypes
      <3> QED
        BY <1>2, <2>1, <3>6
    <2> QED
      BY <1>1, <2>1, <2>2, <2>3, NoRenameSteps
  <1> QED
    BY <1>1, <1>3, <1>4, QueueMpi, QueueCommit DEF Next

-----------------------------------------------------------------------------
(* The cache and the DFS.                                                  *)

\* All clients have announced when a thread is behind the barrier.
LEMMA HoldPassed ==
    ASSUME DirTypes, RoundInv, NEW n \in Nodes, Hold(n)
    PROVE  passed = Clients /\ \A d \in Clients : ~BarrierAhead(d) /\ ~BarrierQueued(d)
  <1>1. \A c \in Clients : c \in passed
    BY ConstantsAssumption DEF Hold, Stopped, ClientsOn
  <1>2. passed = Clients
    BY <1>1 DEF DirTypes
  <1> QED
    BY <1>2 DEF RoundInv

\* Within the directory of an rmdir that has come to the barrier, what is
\* cached is in the DFS, and so is the directory.
LEMMA HoldClear ==
    ASSUME DirTypes, RpcInv, RoundInv, QueueInv, StoreInv, KeptOut, LoadsInv,
           NEW n \in Nodes, Hold(n), Served(n).op = "rmdir"
    PROVE  /\ Served(n).path \in Paths /\ dfs[Served(n).path] = "dir"
           /\ \A p \in Paths : Within(p, Served(n).path) /\ kv[p] # "none" => dfs[p] # "none"
  <1>1. rpc[n].step = "hold"
    BY DEF Hold, At
  <1>2. PICK c \in Clients : c = rpc[n].client
    BY <1>1, ServedCall
  <1>3. /\ NodeOf[c] = n /\ pc[c] = "request" /\ todo[c] # <<>> /\ Served(n) = Call(c)
        /\ Call(c).path \in Paths /\ Call(c).op = "rmdir" /\ Call(c).op \in BarrierOps
    BY <1>1, <1>2, ServedCall
  <1> DEFINE q == Call(c).path
  <1>4. \A d \in Clients : ~BarrierAhead(d) /\ ~BarrierQueued(d)
    BY HoldPassed
  <1>5. 1 \in InRound(c) /\ todo[c][1] = Call(c)
    BY <1>3, FirstInRound
  <1>6. ASSUME NEW p \in Paths, Within(p, q) PROVE ~Queued(p)
    <2>1. ASSUME NEW d \in Clients, NEW i \in DOMAIN mq[d], mq[d][i].op # "barrier",
                 mq[d][i].path = p
          PROVE  FALSE
      <3>1. Fresh(d, i) /\ MsgInv(d, i)
        BY <1>4, AllFresh DEF QueueInv
      <3> QED
        BY <1>3, <1>5, <1>6, <2>1, <3>1 DEF MsgInv
    <2>2. ASSUME NEW d \in Clients, load[d].at = "send" PROVE FALSE
      <3>1. pc[d] = "idle" /\ todo[d] # <<>> /\ Making(d)
        BY <2>2, LoadCall
      <3>2. Calls(d, {"mkdir", "create"})
        BY <3>1 DEF Calls, Making
      <3> QED
        BY <1>3, <1>4, <1>5, <3>2 DEF KeptOut
    <2> QED
      BY <2>1, <2>2 DEF Queued, InQueue, Sending, Doing
  <1>7. ASSUME NEW p \in Paths, Within(p, q) PROVE ~Leaving(p)
    <2> SUFFICES ASSUME NEW d \in Clients, Removes(d), Within(p, Call(d).path) PROVE FALSE
      BY DEF Leaving
    <2>1. d # c
      BY <1>1, <1>2, <1>3 DEF Removes, Past
    <2>2. todo[d] # <<>> /\ Call(d).op = "rmdir" /\ Call(d).op \in BarrierOps /\ Call(d).path \in Paths
      BY RemovesCall DEF BarrierOps
    <2>3. Within(q, Call(d).path) \/ Within(Call(d).path, q)
      BY <1>3, <1>7, <2>2, WithinOrder
    <2> QED
      BY <1>3, <2>1, <2>2, <2>3, KeptApart
  <1>8. ASSUME NEW p \in Paths, Within(p, q), kv[p] # "none"
        PROVE  dfs[p] = Type(kv[p]) /\ dfs[p] # "none"
    <2>1. PathInv(p) /\ ~Queued(p)
      BY <1>6, <1>7, <1>8 DEF StoreInv
    <2>2. kv[p] \in CacheType
      BY DEF DirTypes, CacheType
    <2> QED
      BY <1>8, <2>1, <2>2, TypeFacts DEF PathInv
  <1>9. Type(kv[q]) = "dir" /\ Within(q, q)
    BY <1>3, WithinOrder DEF StoreInv, AskedInv
  <1>10. dfs[q] = "dir"
    <2>1. kv[q] # "none"
      BY <1>9 DEF Type
    <2> QED
      BY <1>3, <1>8, <1>9, <2>1
  <1> QED
    BY <1>3, <1>8, <1>10

\* What is queued, or about to be, stays so unless its client queues it.
LEMMA QueuedSame ==
    ASSUME UNCHANGED <<mq, todo, load>>
    PROVE  \A p \in Paths : Queued(p)' <=> Queued(p)
  BY DEF Queued, InQueue, Sending, Doing, Call

\* The other clients still have to queue what they have added.
LEMMA SendingSame ==
    ASSUME NEW c \in Clients, load[c].at # "send",
           \A d \in Clients : d # c => load'[d] = load[d] /\ todo'[d] = todo[d]
    PROVE  \A p \in Paths : Sending(p) => Sending(p)'
  BY DEF Sending, Doing, Call

\* What a step does to the calls that wait: none, or one that was made or ended.
LEMMA RemovesSame ==
    ASSUME NEW d \in Clients, pc'[d] = pc[d], todo'[d] = todo[d],
           rpc'[NodeOf[d]] = rpc[NodeOf[d]]
    PROVE  Call(d)' = Call(d) /\ (Removes(d)' <=> Removes(d))
  BY DEF Call, Removes

\* Steps of threads that leave the stores.
LEMMA StoreSame ==
    ASSUME StoreInv, UNCHANGED <<kv, dfs, mq, tree, todo, pc, load>>,
           \A c \in Clients : Removes(c) => Removes(c)'
    PROVE  StoreInv'
  <1>1. \A c \in Clients : Call(c)' = Call(c)
    BY DEF Call
  <1>2. \A p \in Paths : Leaving(p) => Leaving(p)'
    BY <1>1 DEF Leaving, Within
  <1>3. \A p \in Paths : PathInv(p) => PathInv(p)'
    BY QueuedSame DEF PathInv, Type
  <1>4. \A c \in Clients : AskedInv(c) => AskedInv(c)'
    BY <1>1 DEF AskedInv, Type, Within
  <1>5. DfsTree'
    BY DEF StoreInv, DfsTree, Within
  <1> QED
    BY <1>2, <1>3, <1>4, <1>5 DEF StoreInv

\* A path that is loaded, or not touched.
LEMMA PathLoads ==
    ASSUME DirTypes, NEW S, NEW new, Loads(new, S), NEW p \in Paths, PathInv(p),
           kv'[p] = new[p], dfs'[p] = dfs[p], tree'[p] = tree[p], Queued(p) => Queued(p)'
    PROVE  PathInv(p)'
  <1>1. kv[p] \in CacheType /\ new[p] \in CacheType
    BY DEF DirTypes, CacheType, Loads
  <1>2. CASE kv[p] # "none"
    <2>1. Type(kv'[p]) = Type(kv[p]) /\ kv'[p] # "none"
      BY <1>1, <1>2, TypeFacts DEF Loads
    <2> QED
      BY <1>2, <2>1 DEF PathInv, Type
  <1>3. CASE kv[p] = "none"
    <2>1. kv'[p] = "none" \/ Type(kv'[p]) = dfs[p]
      BY <1>3 DEF Loads
    <2> QED
      BY <1>3, <2>1 DEF PathInv, Type
  <1> QED
    BY <1>2, <1>3

\* A call that waits while others load.
LEMMA AskedLoads ==
    ASSUME DirTypes, RpcInv, NEW S, NEW new, Loads(new, S), NEW c \in Clients, AskedInv(c),
           pc'[c] = pc[c], todo'[c] = todo[c], UNCHANGED dfs,
           pc[c] # "idle" =>
              \A p \in Paths : Within(p, Call(c).path)
                 /\ ((pc[c] = "reply" /\ Call(c).op = "rmdir")
                        \/ (pc[c] = "request" /\ p = Call(c).path)) =>
                    (kv'[p] = new[p] \/ (kv[p] # "none" /\ Type(kv'[p]) = Type(kv[p])))
                    /\ tree'[p] = tree[p]
    PROVE  AskedInv(c)'
  <1>1. Call(c)' = Call(c)
    BY DEF Call
  <1>2. pc[c] # "idle" => Call(c).path \in Paths /\ Within(Call(c).path, Call(c).path)
    BY NextCall, CallFields, WithinOrder DEF RpcInv
  <1>3. new \in [Paths -> CacheType] /\ kv \in [Paths -> CacheType]
    BY DEF Loads, DirTypes, CacheType
  <1>4. ASSUME pc[c] = "request" PROVE Type(kv'[Call(c).path]) = "dir"
    <2>1. Type(kv[Call(c).path]) = "dir" /\ Call(c).path \in Paths
      BY <1>2, <1>4 DEF AskedInv
    <2>2. kv[Call(c).path] # "none"
      BY <2>1 DEF Type
    <2>3. Type(new[Call(c).path]) = "dir"
      BY <2>1, <2>2 DEF Loads
    <2> QED
      BY <1>2, <1>4, <2>1, <2>3
  <1>5. ASSUME pc[c] = "reply", Call(c).op = "rmdir", NEW p \in Paths, Within(p, Call(c).path)
        PROVE  dfs'[p] = "none" /\ tree'[p] = "none" /\ (kv'[p] = "none" \/ p = Call(c).path)
    <2>1. dfs[p] = "none" /\ tree[p] = "none" /\ (kv[p] = "none" \/ p = Call(c).path)
      BY <1>5 DEF AskedInv
    <2>2. tree'[p] = tree[p] /\ (kv'[p] = new[p] \/ kv[p] # "none")
      BY <1>5
    <2>3. kv[p] = "none" => new[p] = "none"
      <3>1. kv[p] = "none" => new[p] = "none" \/ Type(new[p]) = "none"
        BY <2>1 DEF Loads
      <3> QED
        BY <1>3, <3>1, TypeFacts
    <2> QED
      BY <2>1, <2>2, <2>3
  <1> QED
    BY <1>1, <1>4, <1>5 DEF AskedInv, Type, Within

\* A client that does not wait: what is removed stays the same.
LEMMA ClientRemoves ==
    ASSUME DirTypes, RpcInv, NEW c \in Clients, pc[c] = "idle", pc'[c] # "reply", UNCHANGED rpc,
           \A d \in Clients : d # c => todo'[d] = todo[d] /\ pc'[d] = pc[d]
    PROVE  \A p \in Paths : Leaving(p)' <=> Leaving(p)
  <1>1. NodeOf[c] \in Nodes
    BY ConstantsAssumption
  <1>2. ~(rpc[NodeOf[c]].client = c /\ rpc[NodeOf[c]].step \in Past)
    BY <1>1, ServedCall DEF Past
  <1>3. ~Removes(c) /\ ~Removes(c)'
    BY <1>2 DEF Removes
  <1>4. \A d \in Clients : d # c => Call(d)' = Call(d) /\ (Removes(d)' <=> Removes(d))
    BY RemovesSame
  <1>5. \A d \in Clients : (Removes(d)' <=> Removes(d)) /\ (Removes(d) => Call(d)' = Call(d))
    BY <1>3, <1>4
  <1> QED
    BY <1>5 DEF Leaving, Within

\* What a client looks up or loads is what the DFS has; a request is for a directory.
LEMMA StoreQuiet ==
    ASSUME DirTypes, RpcInv, StoreInv, NEW c \in Clients, Quiet(c)
    PROVE  StoreInv'
  <1> DEFINE S == {x \in Paths : ~Leaving(x)}
  <1>1. /\ pc[c] = "idle" /\ Loads(kv', S) /\ load[c].at # "send"
        /\ \A d \in Clients : d # c => load'[d] = load[d]
        /\ UNCHANGED <<dfs, mq, rpc, tree>>
    BY DEF Quiet
  <1> HIDE DEF S
  <1>2. /\ \A d \in Clients : d # c => pc'[d] = pc[d] /\ todo'[d] = todo[d]
        /\ \/ pc'[c] = "idle"
           \/ pc'[c] = "request" /\ UNCHANGED todo /\ Type(kv'[Call(c).path]) = "dir"
    <2>1. CASE UNCHANGED <<todo, pc>>
      BY <1>1, <2>1
    <2>2. CASE Done(c)
      BY <2>2 DEF Done, DirTypes
    <2>3. CASE pc' = [pc EXCEPT ![c] = "request"] /\ UNCHANGED todo /\ Type(kv'[Call(c).path]) = "dir"
      BY <2>3 DEF DirTypes
    <2> QED
      BY <2>1, <2>2, <2>3 DEF Quiet
  <1>3. \A p \in Paths : Leaving(p)' <=> Leaving(p)
    BY <1>1, <1>2, ClientRemoves
  <1>4. DfsTree'
    BY <1>1 DEF StoreInv, DfsTree, Within
  <1>5. \A p \in Paths : PathInv(p) => PathInv(p)'
    <2>1. \A p \in Paths : Queued(p) => Queued(p)'
      <3>1. \A p \in Paths : Sending(p) => Sending(p)'
        BY <1>1, <1>2, SendingSame
      <3> QED
        BY <1>1, <3>1 DEF Queued, InQueue
    <2> QED
      BY <1>1, <2>1, PathLoads
  <1>6. AskedInv(c)'
    BY <1>2 DEF AskedInv, Call, Type
  <1>7. ASSUME NEW d \in Clients, d # c PROVE AskedInv(d)'
    <2>1. AskedInv(d) /\ pc'[d] = pc[d] /\ todo'[d] = todo[d]
      BY <1>2, <1>7 DEF StoreInv
    <2> QED
      BY <1>1, <2>1, AskedLoads
  <1> QED
    BY <1>3, <1>4, <1>5, <1>6, <1>7 DEF StoreInv

\* A new entry: it is seen in the cache and about to be queued, and it is not in
\* a directory that was just removed.
LEMMA StoreAdds ==
    ASSUME DirTypes, RpcInv, RoundInv, StoreInv, KeptOut, NEW c \in Clients, Adds(c)
    PROVE  StoreInv'
  <1> DEFINE t == NewType(c)
  <1>p. PICK p \in Paths \ {Root} : p = Call(c).path
    BY DEF Adds
  <1>1. /\ Calls(c, {"mkdir", "create"}) /\ pc[c] = "idle" /\ load[c].at = "add"
        /\ t \in {"dir", "file"} /\ kv[p] = "none"
        /\ kv' = [kv EXCEPT ![p] = t] /\ tree' = [tree EXCEPT ![p] = t]
        /\ load'[c].at = "send" /\ \A d \in Clients : d # c => load'[d] = load[d]
        /\ UNCHANGED <<dfs, mq, todo, pc, rpc>>
    BY <1>p DEF Adds, Calls
  <1> HIDE DEF t
  <1>2. /\ kv'[p] = t /\ tree'[p] = t
        /\ \A x \in Paths : x # p => kv'[x] = kv[x] /\ tree'[x] = tree[x]
    BY <1>1 DEF DirTypes
  <1>3. \A x \in Paths : Leaving(x)' <=> Leaving(x)
    BY <1>1, ClientRemoves
  <1>4. DfsTree'
    BY <1>1 DEF StoreInv, DfsTree, Within
  <1>5. \A x \in Paths : Queued(x) => Queued(x)'
    <2>1. \A x \in Paths : Sending(x) => Sending(x)'
      BY <1>1, SendingSame
    <2> QED
      BY <1>1, <2>1 DEF Queued, InQueue
  <1>6. Queued(p)'
    <2>1. load'[c].at = "send" /\ Call(c)'.path = p
      BY <1>p, <1>1 DEF Call
    <2> QED
      BY <2>1 DEF Queued, Sending, Doing
  <1>7. ASSUME NEW x \in Paths, PathInv(x) PROVE PathInv(x)'
    <2>1. CASE x = p
      <3>1. kv'[x] # "none" /\ Type(kv'[x]) = tree'[x]
        BY <1>1, <1>2, <2>1 DEF Type
      <3> QED
        BY <1>6, <2>1, <3>1 DEF PathInv, Type
    <2>2. CASE x # p
      BY <1>1, <1>2, <1>5, <1>7, <2>2 DEF PathInv, Type
    <2> QED
      BY <2>1, <2>2
  <1>8. ASSUME NEW d \in Clients PROVE AskedInv(d)'
    <2>1. AskedInv(d) /\ Call(d)' = Call(d) /\ pc'[d] = pc[d]
      BY <1>1 DEF StoreInv, Call
    <2>2. ~(pc[d] = "reply" /\ Call(d).op = "rmdir")
      <3> SUFFICES ASSUME pc[d] = "reply", Call(d).op = "rmdir" PROVE FALSE
        OBVIOUS
      <3>1. Removes(d)
        BY DEF Removes
      <3> QED
        BY <1>1, <3>1, RemovesRound
    <2>3. ASSUME pc[d] = "request" PROVE Type(kv'[Call(d).path]) = "dir"
      <3>1. Type(kv[Call(d).path]) = "dir"
        BY <2>1, <2>3 DEF AskedInv
      <3>2. Call(d).path # p
        BY <1>1, <3>1 DEF Type
      <3>3. Call(d).path \in Paths
        BY <2>3, NextCall, CallFields DEF RpcInv
      <3> QED
        BY <1>2, <3>1, <3>2, <3>3
    <2> QED
      BY <2>1, <2>2, <2>3 DEF AskedInv, Type
  <1> QED
    BY <1>3, <1>4, <1>7, <1>8 DEF StoreInv

\* A message is queued: the entry is in the queue now.
LEMMA StoreSends ==
    ASSUME DirTypes, RpcInv, StoreInv, NEW c \in Clients, Sends(c)
    PROVE  StoreInv'
  <1> DEFINE m == NewMsg(c)
  <1>p. PICK p \in Paths : p = Call(c).path
    BY DEF Sends
  <1>1. /\ todo[c] # <<>> /\ pc[c] = "idle" /\ Done(c) /\ m \in MsgType
        /\ mq' = [mq EXCEPT ![c] = Append(@, m)]
        /\ \A d \in Clients : d # c => load'[d] = load[d]
        /\ UNCHANGED <<kv, dfs, tree, rpc>>
    BY DEF Sends, Calls
  <1>2. m.op # "barrier" /\ m.path = p
    BY <1>p DEF NewMsg, NewType
  <1> HIDE DEF m
  <1>3. pc'[c] = "idle" /\ \A d \in Clients : d # c => pc'[d] = pc[d] /\ todo'[d] = todo[d]
    BY <1>1 DEF Done, DirTypes
  <1>4. \A x \in Paths : Leaving(x)' <=> Leaving(x)
    BY <1>1, <1>3, ClientRemoves
  <1>5. /\ \A d \in Clients : d # c => mq'[d] = mq[d]
        /\ Len(mq[c]) \in Nat /\ DOMAIN mq[c] = 1 .. Len(mq[c])
        /\ DOMAIN (mq'[c]) = 1 .. Len(mq[c]) + 1
        /\ mq'[c][Len(mq[c]) + 1] = m /\ \A i \in 1 .. Len(mq[c]) : mq'[c][i] = mq[c][i]
    BY <1>1, QueueAppend
  <1>6. \A x \in Paths : InQueue(x) => InQueue(x)'
    <2>1. \A d \in Clients : \A i \in DOMAIN mq[d] : i \in DOMAIN (mq'[d]) /\ mq'[d][i] = mq[d][i]
      BY <1>5
    <2> QED
      BY <2>1 DEF InQueue
  <1>7. InQueue(p)'
    <2>1. Len(mq[c]) + 1 \in DOMAIN (mq'[c])
      BY <1>5
    <2> QED
      BY <1>2, <1>5, <2>1 DEF InQueue
  <1>8. ASSUME NEW x \in Paths, Queued(x) PROVE Queued(x)'
    <2>1. CASE InQueue(x)
      BY <1>6, <2>1 DEF Queued
    <2>2. CASE Sending(x)
      <3>1. PICK d \in Clients : load[d].at = "send" /\ Call(d).path = x
        BY <2>2 DEF Sending, Doing
      <3>2. CASE d = c
        BY <1>p, <1>7, <3>1, <3>2 DEF Queued
      <3>3. CASE d # c
        <4>1. load'[d].at = "send" /\ Call(d)' = Call(d)
          BY <1>1, <1>3, <3>1, <3>3 DEF Call
        <4> QED
          BY <3>1, <4>1 DEF Queued, Sending, Doing
      <3> QED
        BY <3>2, <3>3
    <2> QED
      BY <1>8, <2>1, <2>2 DEF Queued
  <1>9. \A x \in Paths : PathInv(x) => PathInv(x)'
    BY <1>1, <1>8 DEF PathInv, Type
  <1>10. DfsTree'
    BY <1>1 DEF StoreInv, DfsTree, Within
  <1>11. AskedInv(c)'
    BY <1>3 DEF AskedInv
  <1>12. ASSUME NEW d \in Clients, d # c PROVE AskedInv(d)'
    <2>1. AskedInv(d) /\ Call(d)' = Call(d) /\ pc'[d] = pc[d]
      BY <1>3, <1>12 DEF StoreInv, Call
    <2> QED
      BY <1>1, <2>1 DEF AskedInv, Type, Within
  <1> QED
    BY <1>4, <1>9, <1>10, <1>11, <1>12 DEF StoreInv

\* The answer of the server: what is left of a removed directory goes.
LEMMA StoreAnswer ==
    ASSUME DirTypes, RpcInv, StoreInv, LoadsInv, KeptOut, NoRenames, NEW c \in Clients,
           RmdirDel(c) \/ Listed(c) \/ Renamed(c)
    PROVE  StoreInv'
  <1> DEFINE q == Call(c).path
  <1>1. /\ todo[c] # <<>> /\ Done(c) /\ pc[c] = "reply" /\ Call(c).op \in {"rmdir", "readdir"}
        /\ Call(c).op \in BarrierOps /\ q \in Paths
        /\ UNCHANGED <<dfs, mq, rpc, tree>>
    BY AnswerStep
  <1>2. IF Call(c).op = "rmdir" THEN kv' = [kv EXCEPT ![q] = "none"] ELSE UNCHANGED kv
    BY AnswerStep
  <1>3. pc'[c] = "idle" /\ \A d \in Clients : d # c => pc'[d] = pc[d] /\ todo'[d] = todo[d]
    BY <1>1 DEF Done, DirTypes
  <1>11. \A p \in Paths : Queued(p) => Queued(p)'
    <2>1. load[c].at = "start" /\ \A d \in Clients : d # c => load'[d] = load[d]
      BY <1>1, NotLoading, DoneTypes
    <2>2. \A p \in Paths : Sending(p) => Sending(p)'
      BY <1>3, <2>1, SendingSame
    <2> QED
      BY <1>1, <2>2 DEF Queued, InQueue
  <1>4. \A d \in Clients : d # c => Call(d)' = Call(d) /\ (Removes(d)' <=> Removes(d))
    BY <1>1, <1>3, RemovesSame
  <1>5. ~Removes(c)'
    BY <1>3 DEF Removes
  <1>6. ASSUME NEW p \in Paths, Leaving(p), ~Leaving(p)'
        PROVE  Call(c).op = "rmdir" /\ Within(p, q)
    <2>1. PICK d \in Clients : Removes(d) /\ Within(p, Call(d).path)
      BY <1>6 DEF Leaving
    <2>2. d = c
      BY <1>4, <1>6, <2>1 DEF Leaving, Within
    <2> QED
      BY <2>1, <2>2 DEF Removes
  <1>7. DfsTree'
    BY <1>1 DEF StoreInv, DfsTree, Within
  <1>8. AskedInv(c)'
    BY <1>3 DEF AskedInv
  <1>9. ASSUME NEW p \in Paths, ~Leaving(p)' PROVE PathInv(p)'
    <2>1. CASE Call(c).op = "rmdir" /\ Within(p, q)
      <3>1. dfs[p] = "none" /\ tree[p] = "none" /\ (kv[p] = "none" \/ p = q)
        BY <1>1, <2>1 DEF StoreInv, AskedInv
      <3>2. kv'[p] = "none"
        BY <1>1, <1>2, <2>1, <3>1 DEF DirTypes
      <3> QED
        BY <1>1, <3>1, <3>2 DEF PathInv
    <2>2. CASE ~(Call(c).op = "rmdir" /\ Within(p, q))
      <3>1. PathInv(p)
        BY <1>6, <1>9, <2>2 DEF StoreInv
      <3>2. kv'[p] = kv[p]
        <4>1. Call(c).op = "rmdir" => p # q
          BY <1>1, <2>2, WithinOrder
        <4> QED
          BY <1>2, <4>1 DEF DirTypes
      <3> QED
        BY <1>1, <1>11, <3>1, <3>2 DEF PathInv, Type
    <2> QED
      BY <2>1, <2>2
  <1>10. ASSUME NEW d \in Clients, d # c PROVE AskedInv(d)'
    <2>1. AskedInv(d) /\ Call(d)' = Call(d) /\ pc'[d] = pc[d]
      BY <1>3, <1>4, <1>10 DEF StoreInv
    <2>2. \A p \in Paths : kv'[p] = kv[p] \/ kv'[p] = "none"
      BY <1>2 DEF DirTypes
    <2>3. ASSUME pc[d] = "request" PROVE kv'[Call(d).path] = kv[Call(d).path]
      <3>1. todo[d] # <<>> /\ Call(d).op \in BarrierOps
        BY <2>3 DEF RpcInv
      <3>2. Call(d).path \in Paths
        BY <3>1, NextCall, CallFields
      <3>3. Call(c).op = "rmdir" => ~Within(Call(d).path, q)
        BY <1>1, <1>10, <3>1, KeptApart
      <3>4. Call(c).op = "rmdir" => Call(d).path # q
        BY <1>1, <3>3, WithinOrder
      <3> QED
        BY <1>2, <3>2, <3>4 DEF DirTypes
    <2> QED
      BY <1>1, <2>1, <2>2, <2>3 DEF AskedInv, Type, Within
  <1> QED
    BY <1>7, <1>8, <1>9, <1>10 DEF StoreInv

\* A client that only goes on to its next call.
LEMMA StoreIdle ==
    ASSUME DirTypes, RpcInv, StoreInv, LoadsInv, NEW c \in Clients, Clean(c) \/ Announce(c)
    PROVE  StoreInv'
  <1>1. /\ todo[c] # <<>> /\ Done(c) /\ pc[c] = "idle" /\ UNCHANGED <<kv, dfs, rpc, tree>>
    BY DEF Clean, Announce, Calls, serverVars
  <1>2. pc'[c] = "idle" /\ \A d \in Clients : d # c => pc'[d] = pc[d] /\ todo'[d] = todo[d]
    BY <1>1 DEF Done, DirTypes
  <1>3. \A p \in Paths : Leaving(p)' <=> Leaving(p)
    BY <1>1, <1>2, ClientRemoves
  <1>9. \A p \in Paths : Sending(p) => Sending(p)'
    <2>1. load[c].at = "start" /\ \A d \in Clients : d # c => load'[d] = load[d]
      BY <1>1, NotLoading, DoneTypes DEF Clean, Announce, Calls
    <2> QED
      BY <1>2, <2>1, SendingSame
  <1>4. \A p \in Paths : Queued(p) => Queued(p)'
    <2>1. CASE Clean(c)
      BY <1>9, <2>1 DEF Clean, Queued, InQueue
    <2>2. CASE Announce(c)
      <3> DEFINE m == [op |-> "barrier", opt |-> Call(c).opt, id |-> current_barrier_id[c] + 1]
      <3>1. Call(c).op = "barrier" /\ mq' = [mq EXCEPT ![c] = Append(@, m)]
        BY <2>2 DEF Announce, Calls
      <3>2. m \in MsgType
        <4>1. Call(c).opt \in Nat
          BY <1>1, <3>1, NextCall, CallFields
        <4>2. current_barrier_id[c] + 1 \in Nat
          BY DEF DirTypes
        <4> QED
          BY <4>1, <4>2 DEF MsgType
      <3> HIDE DEF m
      <3>3. /\ \A d \in Clients : d # c => mq'[d] = mq[d]
            /\ Len(mq[c]) \in Nat /\ DOMAIN mq[c] = 1 .. Len(mq[c])
            /\ DOMAIN (mq'[c]) = 1 .. Len(mq[c]) + 1
            /\ \A i \in 1 .. Len(mq[c]) : mq'[c][i] = mq[c][i]
        BY <3>1, <3>2, QueueAppend
      <3>4. \A d \in Clients : \A i \in DOMAIN mq[d] : i \in DOMAIN (mq'[d]) /\ mq'[d][i] = mq[d][i]
        BY <3>3
      <3> QED
        BY <1>9, <3>4 DEF Queued, InQueue
    <2> QED
      BY <2>1, <2>2
  <1>5. \A p \in Paths : PathInv(p) => PathInv(p)'
    BY <1>1, <1>4 DEF PathInv, Type
  <1>6. DfsTree'
    BY <1>1 DEF StoreInv, DfsTree, Within
  <1>7. AskedInv(c)'
    BY <1>2 DEF AskedInv
  <1>8. ASSUME NEW d \in Clients, d # c PROVE AskedInv(d)'
    <2>1. AskedInv(d) /\ Call(d)' = Call(d) /\ pc'[d] = pc[d]
      BY <1>2, <1>8 DEF StoreInv, Call
    <2> QED
      BY <1>1, <2>1 DEF AskedInv, Type, Within
  <1> QED
    BY <1>3, <1>5, <1>6, <1>7, <1>8 DEF StoreInv

\* At an MPI_Barrier nobody waits.
LEMMA StoreMpi ==
    ASSUME StoreInv, LoadsInv, MpiBarrier
    PROVE  StoreInv'
  <1>1. (\A c \in Clients : pc[c] = "idle") /\ UNCHANGED <<kv, dfs, mq, pc, tree>>
    BY DEF MpiBarrier, Calls
  <1>2. \A p \in Paths : ~Leaving(p)
    BY <1>1 DEF Leaving, Removes
  <1>6. \A p \in Paths : Queued(p) => Queued(p)'
    <2>1. \A c \in Clients : load[c].at = "start"
      BY NotLoading DEF MpiBarrier, Calls
    <2> QED
      BY <1>1, <2>1 DEF Queued, InQueue, Sending, Doing
  <1>3. \A p \in Paths : PathInv(p)'
    BY <1>1, <1>2, <1>6 DEF StoreInv, PathInv, Type
  <1>4. DfsTree'
    BY <1>1 DEF StoreInv, DfsTree, Within
  <1>5. \A c \in Clients : AskedInv(c)'
    BY <1>1 DEF AskedInv
  <1> QED
    BY <1>3, <1>4, <1>5 DEF StoreInv

\* What stays in the queues when a message is taken from one.
LEMMA QueuedTail ==
    ASSUME DirTypes, RoundInv, NEW n \in Nodes, Commit(n), NEW x \in Paths, Queued(x),
           Msg(n).op = "barrier" \/ x # Msg(n).path
    PROVE  Queued(x)'
  <1>1. CASE InQueue(x)
    <2>1. PICK c \in Clients : c = cur[n]
      BY QueueTail
    <2>2. /\ Msg(n) = mq[c][1]
          /\ \A d \in Clients : d # c => mq'[d] = mq[d]
          /\ \A i \in DOMAIN (mq'[c]) : i \in Nat \ {0} /\ mq'[c][i] = mq[c][i + 1]
          /\ \A i \in DOMAIN mq[c] : i \in Nat /\ i # 0
          /\ \A i \in DOMAIN mq[c] : i # 1 => i - 1 \in DOMAIN (mq'[c])
      BY <2>1, QueueTail
    <2>3. PICK d \in Clients : \E i \in DOMAIN mq[d] : mq[d][i].op # "barrier" /\ mq[d][i].path = x
      BY <1>1 DEF InQueue
    <2>4. PICK i \in DOMAIN mq[d] : mq[d][i].op # "barrier" /\ mq[d][i].path = x
      BY <2>3
    <2>5. CASE d # c
      BY <2>2, <2>4, <2>5 DEF Queued, InQueue
    <2>6. CASE d = c
      <3>1. i # 1 /\ i \in Nat
        BY <2>2, <2>4, <2>6
      <3>2. i - 1 \in DOMAIN (mq'[c]) /\ mq'[c][i - 1] = mq[c][(i - 1) + 1]
        BY <2>2, <2>4, <2>6, <3>1
      <3>3. (i - 1) + 1 = i
        BY <3>1
      <3>4. mq'[c][i - 1] = mq[c][i]
        BY <3>2, <3>3
      <3> QED
        BY <2>4, <2>6, <3>2, <3>4 DEF Queued, InQueue
    <2> QED
      BY <2>5, <2>6
  <1>2. CASE Sending(x)
    <2>1. UNCHANGED <<load, todo>>
      BY DEF Commit, Apply, Count, clientVars
    <2> QED
      BY <1>2, <2>1 DEF Queued, Sending, Doing, Call
  <1> QED
    BY <1>1, <1>2 DEF Queued

\* A short list filters nothing.
LEMMA NotFiltered ==
    ASSUME DirTypes, ListShort, NEW n \in Nodes, NEW p \in Paths \ {Root}
    PROVE  ~Filtered(n, p)
  <1>1. Len(p) \in Nat \ {0}
    BY FrontFacts
  <1>2. RootLen \in Nat /\ removing[n].count \in Nat /\ removing[n].count <= RootLen + 3
    BY ConstantsAssumption DEF DirTypes, ListShort
  <1>3. CharLen(p) >= removing[n].count - 1
    BY <1>1, <1>2 DEF CharLen
  <1> QED
    BY <1>1, <1>2, <1>3 DEF Filtered, CharLen

\* A commit thread brings a path of the DFS up to date, or counts.
LEMMA StoreCommit ==
    ASSUME DirTypes, RpcInv, RoundInv, QueueInv, StoreInv, LoadsInv, KeptOut, ListShort, NEW n \in Nodes, Commit(n)
    PROVE  StoreInv'
  <1>1. UNCHANGED <<kv, tree, todo, pc, rpc>>
    BY DEF Commit, Apply, Count, clientVars
  <1>2. \A d \in Clients : Call(d)' = Call(d) /\ (Removes(d)' <=> Removes(d))
    BY <1>1 DEF Call, Removes
  <1>3. \A x \in Paths : Leaving(x)' <=> Leaving(x)
    BY <1>2 DEF Leaving, Within
  <1>4. CASE Count(n)
    <2>1. UNCHANGED dfs /\ Msg(n).op = "barrier"
      BY <1>4 DEF Count
    <2>2. \A x \in Paths : Queued(x) => Queued(x)'
      BY <2>1, QueuedTail
    <2>3. \A x \in Paths : PathInv(x) => PathInv(x)'
      BY <1>1, <2>1, <2>2 DEF PathInv, Type
    <2>4. DfsTree'
      BY <2>1 DEF StoreInv, DfsTree, Within
    <2>5. \A d \in Clients : AskedInv(d) => AskedInv(d)'
      BY <1>1, <1>2, <2>1 DEF AskedInv, Type, Within
    <2> QED
      BY <1>3, <2>3, <2>4, <2>5 DEF StoreInv
  <1>5. CASE Apply(n)
    <2>1. PICK c \in Clients : c = cur[n]
      BY <1>5, QueueTail DEF Commit
    <2>2. 1 \in DOMAIN mq[c] /\ Msg(n) = mq[c][1] /\ Msg(n) \in MsgType /\ Msg(n).op # "barrier"
      BY <1>5, <2>1, QueueTail DEF Commit, Apply
    <2>3. PICK p \in Paths \ {Root} : p = Msg(n).path
      BY <2>2, MsgFields
    <2>4. PICK t \in {"dir", "file"} : t = Msg(n).op
      BY <2>2, MsgFields
    <2>5. ~Filtered(n, p)
      BY <2>3, NotFiltered
    <2>6. dfs[Front(p)] = "dir" /\ dfs[p] # "dir" /\ dfs' = [dfs EXCEPT ![p] = t]
      BY <1>5, <2>3, <2>4, <2>5 DEF Apply
    <2>7. dfs'[p] = t /\ \A x \in Paths : x # p => dfs'[x] = dfs[x]
      BY <2>3, <2>6 DEF DirTypes
    <2>8. Queued(p)
      BY <2>2, <2>3 DEF Queued, InQueue
    <2>9. Type(kv[p]) = t
      BY <2>2, <2>3, <2>4 DEF QueueInv, MsgInv
    <2>10. ASSUME NEW x \in Paths, PathInv(x) PROVE PathInv(x)'
      <3>1. CASE x = p
        <4>1. kv[p] # "none"
          BY <2>4, <2>9 DEF Type
        <4>2. tree[p] = t
          BY <2>9, <2>10, <3>1, <4>1 DEF PathInv
        <4> QED
          BY <1>1, <2>7, <2>9, <3>1, <4>1, <4>2 DEF PathInv, Type
      <3>2. CASE x # p
        <4>1. Queued(x) => Queued(x)'
          BY <2>3, <3>2, QueuedTail
        <4> QED
          BY <1>1, <2>7, <2>10, <3>2, <4>1 DEF PathInv, Type
      <3> QED
        BY <3>1, <3>2
    <2>11. ASSUME NEW x \in Paths, NEW y \in Paths, dfs'[x] # "none", Within(x, y), x # y
           PROVE  dfs'[y] = "dir"
      <3>1. Front(p) \in Paths /\ p # Front(p)
        BY WithinFront
      <3>2. CASE x = p
        <4>1. Within(Front(p), y)
          BY <2>11, <3>2, WithinFront
        <4>2. dfs[y] = "dir"
          BY <2>6, <3>1, <4>1 DEF StoreInv, DfsTree
        <4> QED
          BY <2>7, <2>11, <3>2, <4>2
      <3>3. CASE x # p
        <4>1. dfs[x] # "none"
          BY <2>7, <2>11, <3>3
        <4>2. dfs[y] = "dir"
          BY <2>11, <4>1 DEF StoreInv, DfsTree
        <4> QED
          BY <2>6, <2>7, <4>2
      <3> QED
        BY <3>2, <3>3
    <2>12. DfsTree'
      BY <2>11 DEF DfsTree, Within
    <2>13. ASSUME NEW d \in Clients PROVE AskedInv(d)'
      <3>1. AskedInv(d)
        BY DEF StoreInv
      <3>2. ASSUME pc[d] = "reply", Call(d).op = "rmdir", NEW x \in Paths, Within(x, Call(d).path)
            PROVE  dfs'[x] = dfs[x]
        <4>1. Removes(d)
          BY <3>2 DEF Removes
        <4>2. x # p
          BY <2>8, <3>2, <4>1, RemovesClear
        <4> QED
          BY <2>7, <4>2
      <3> QED
        BY <1>1, <1>2, <3>1, <3>2 DEF AskedInv, Type, Within
    <2> QED
      BY <1>3, <2>10, <2>12, <2>13 DEF StoreInv
  <1> QED
    BY <1>4, <1>5 DEF Commit

\* The steps of a thread other than the end keep what is behind the barrier.
LEMMA ThreadRemoves ==
    ASSUME DirTypes, NEW n \in Nodes, NEW x, NEW s, NEW P, RpcMoves(n, x, s, P),
           rpc[n].step \in Past => x \in Past, UNCHANGED <<pc, todo>>
    PROVE  /\ \A c \in Clients : Call(c)' = Call(c) /\ (Removes(c) => Removes(c)')
           /\ \A p \in Paths : Leaving(p) => Leaving(p)'
  <1>1. NodeOf \in [Clients -> Nodes]
    BY ConstantsAssumption
  <1>2. \A c \in Clients : Call(c)' = Call(c)
    BY DEF Call
  <1>3. ASSUME NEW c \in Clients, Removes(c) PROVE Removes(c)'
    <2>1. CASE NodeOf[c] = n
      BY <1>2, <1>3, <2>1 DEF Removes, RpcMoves
    <2>2. CASE NodeOf[c] # n
      <3>1. rpc'[NodeOf[c]] = rpc[NodeOf[c]]
        BY <1>1, <2>2 DEF RpcMoves
      <3> QED
        BY <1>2, <1>3, <3>1 DEF Removes
    <2> QED
      BY <2>1, <2>2
  <1> QED
    BY <1>2, <1>3 DEF Leaving, Within

\* A path that is being removed loses its entry in the cache or in the DFS.
LEMMA StoreClears ==
    ASSUME DirTypes, RpcInv, StoreInv, NEW p \in Paths, Leaving(p),
           UNCHANGED <<mq, tree, todo, pc, load>>,
           \A x \in Paths : Leaving(x) => Leaving(x)',
           \A x \in Paths : x # p => kv'[x] = kv[x] /\ dfs'[x] = dfs[x],
           kv'[p] \in {kv[p], "none"}, dfs'[p] \in {dfs[p], "none"},
           \A c \in Clients : pc[c] = "request" /\ Call(c).path = p => kv'[p] = kv[p],
           dfs[p] = "dir" => \/ dfs'[p] = "dir"
                             \/ \A x \in Paths : dfs[x] # "none" /\ Within(x, p) => x = p
    PROVE  StoreInv'
  <1>1. ASSUME NEW x \in Paths, ~Leaving(x)' PROVE PathInv(x)'
    <2>1. PathInv(x) /\ x # p
      BY <1>1 DEF StoreInv
    <2> QED
      BY <2>1, QueuedSame DEF PathInv, Type
  <1>2. ASSUME NEW x \in Paths, NEW y \in Paths, dfs'[x] # "none", Within(x, y), x # y
        PROVE  dfs'[y] = "dir"
    <2>1. dfs[x] # "none"
      BY <1>2
    <2>2. dfs[y] = "dir"
      BY <1>2, <2>1 DEF StoreInv, DfsTree
    <2> QED
      BY <1>2, <2>1, <2>2
  <1>3. DfsTree'
    BY <1>2 DEF DfsTree, Within
  <1>4. ASSUME NEW c \in Clients PROVE AskedInv(c)'
    <2>1. AskedInv(c) /\ Call(c)' = Call(c)
      BY DEF StoreInv, Call
    <2>2. pc[c] = "request" => Call(c).path \in Paths
      BY NextCall, CallFields DEF RpcInv
    <2>3. pc[c] = "request" => kv'[Call(c).path] = kv[Call(c).path]
      BY <2>2
    <2>4. \A x \in Paths : /\ kv[x] = "none" => kv'[x] = "none"
                           /\ dfs[x] = "none" => dfs'[x] = "none"
      OBVIOUS
    <2> QED
      BY <2>1, <2>3, <2>4 DEF AskedInv, Type, Within
  <1> QED
    BY <1>1, <1>3, <1>4 DEF StoreInv

\* An entry of the walk is deleted.
LEMMA StoreWalkDel ==
    ASSUME DirTypes, RpcInv, StoreInv, WalkInv, KeptOut, NEW n \in Nodes,
           NEW p \in Paths, WalkDel(n, p)
    PROVE  StoreInv'
  <1>1. /\ rpc[n].step = "walk" /\ Served(n).op = "rmdir" /\ p \in Top(n).left
        /\ kv' = [kv EXCEPT ![p] = "none"]
        /\ dfs' = IF dfs[p] = "file" THEN [dfs EXCEPT ![p] = "none"] ELSE dfs
        /\ UNCHANGED <<mq, tree, todo, pc, load>>
    BY DEF WalkDel, At, dmkv_del, clientVars
  <1>2. Within(p, Served(n).path) /\ p # Served(n).path
    BY <1>1, WalkEntry
  <1>3. PICK c \in Clients : c = rpc[n].client
    BY <1>1, PastRemoves DEF Past
  <1>4. Removes(c) /\ Served(n) = Call(c)
    BY <1>1, <1>3, PastRemoves DEF Past
  <1>5. Leaving(p)
    BY <1>2, <1>4 DEF Leaving
  <1>6. \A x \in Paths : Leaving(x) => Leaving(x)'
    <2> DEFINE t == NextStack(n, p)
    <2>1. RpcMoves(n, "walk", t, rpc[n].peers)
      BY WalkMoves
    <2> HIDE DEF t
    <2> QED
      BY <1>1, <2>1, ThreadRemoves DEF Past
  <1>7. /\ \A x \in Paths : x # p => kv'[x] = kv[x] /\ dfs'[x] = dfs[x]
        /\ kv'[p] = "none" /\ dfs'[p] = IF dfs[p] = "file" THEN "none" ELSE dfs[p]
    BY <1>1 DEF DirTypes
  <1>8. \A d \in Clients : pc[d] = "request" => Call(d).path # p
    <2> SUFFICES ASSUME NEW d \in Clients, pc[d] = "request", Call(d).path = p PROVE FALSE
      OBVIOUS
    <2>1. d # c
      BY <1>2, <1>4
    <2>2. todo[d] # <<>> /\ Call(d).op \in BarrierOps
      BY DEF RpcInv
    <2>3. todo[c] # <<>> /\ Call(c).op = "rmdir"
      BY <1>4, RemovesCall
    <2> QED
      BY <1>2, <1>4, <2>1, <2>2, <2>3, KeptApart
  <1>9. /\ kv'[p] \in {kv[p], "none"} /\ dfs'[p] \in {dfs[p], "none"}
        /\ dfs[p] = "dir" => dfs'[p] = "dir"
    BY <1>7
  <1> QED
    BY <1>1, <1>5, <1>6, <1>7, <1>8, <1>9, StoreClears

\* A directory without entries has nothing within it.
LEMMA NoChildren ==
    ASSUME DirTypes, DfsTree, NEW p \in Paths, Children(p, dfs) = {}
    PROVE  \A x \in Paths : dfs[x] # "none" /\ Within(x, p) => x = p
  <1> SUFFICES ASSUME NEW x \in Paths, dfs[x] # "none", Within(x, p), x # p PROVE FALSE
    OBVIOUS
  <1>1. PICK r \in Paths \ {Root} : Front(r) = p /\ Within(x, r)
    BY EntryTowards
  <1>2. dfs[r] # "none"
    BY <1>1 DEF DfsTree
  <1> QED
    BY <1>1, <1>2 DEF Children

\* A directory of the walk is removed.
LEMMA StoreWalkRmdir ==
    ASSUME DirTypes, RpcInv, StoreInv, WalkInv, NEW n \in Nodes, WalkRmdir(n)
    PROVE  StoreInv'
  <1>1. /\ rpc[n].step = "walk" /\ Served(n).op = "rmdir"
        /\ UNCHANGED <<kv, mq, tree, todo, pc, load>>
    BY DEF WalkRmdir, At, clientVars
  <1>2. PICK p \in Paths : p = Top(n).dir
    BY <1>1, WalkEntry
  <1>3. Within(p, Served(n).path)
    BY <1>1, <1>2, WalkEntry
  <1>4. dfs' = IF Children(p, dfs) = {} THEN [dfs EXCEPT ![p] = "none"] ELSE dfs
    BY <1>2 DEF WalkRmdir
  <1>5. rpc[n].client \in Clients /\ Removes(rpc[n].client) /\ Served(n) = Call(rpc[n].client)
    BY <1>1, PastRemoves DEF Past
  <1>6. Leaving(p)
    BY <1>3, <1>5 DEF Leaving
  <1>7. \A x \in Paths : Leaving(x) => Leaving(x)'
    <2> DEFINE x == IF Front(rpc[n].stack) = <<>> THEN "unlist" ELSE "walk"
    <2>1. RpcMoves(n, x, Front(rpc[n].stack), rpc[n].peers) /\ x \in Past
      BY WalkMoves DEF Past
    <2> HIDE DEF x
    <2> QED
      BY <1>1, <2>1, ThreadRemoves
  <1>8. /\ \A x \in Paths : x # p => kv'[x] = kv[x] /\ dfs'[x] = dfs[x]
        /\ kv'[p] = kv[p] /\ dfs'[p] = IF Children(p, dfs) = {} THEN "none" ELSE dfs[p]
    BY <1>1, <1>4 DEF DirTypes
  <1>9. dfs[p] = "dir" => \/ dfs'[p] = "dir"
                          \/ \A x \in Paths : dfs[x] # "none" /\ Within(x, p) => x = p
    BY <1>8, NoChildren DEF StoreInv
  <1>10. kv'[p] \in {kv[p], "none"} /\ dfs'[p] \in {dfs[p], "none"}
    BY <1>8
  <1> QED
    BY <1>1, <1>6, <1>7, <1>8, <1>9, <1>10, StoreClears

\* What the end of an operation leaves: the answer is on its way, and of a
\* removed directory there is only its entry in the cache.
LEMMA EndStep ==
    ASSUME DirTypes, RpcInv, NoRenames, NEW n \in Nodes, End(n)
    PROVE  /\ rpc[n].step = "end" /\ rpc[n].client \in Clients /\ Served(n).op \in {"rmdir", "readdir"}
           /\ Served(n) = Call(rpc[n].client) /\ Served(n).path \in Paths /\ rpc[n].stack = <<>>
           /\ pc[rpc[n].client] = "request" /\ todo[rpc[n].client] # <<>>
           /\ pc'[rpc[n].client] = "reply" /\ NodeOf[rpc[n].client] = n
           /\ \A d \in Clients : d # rpc[n].client => pc'[d] = pc[d]
           /\ rpc'[n] = NoRpc /\ \A m \in Nodes : m # n => rpc'[m] = rpc[m]
           /\ \A x \in Paths : tree'[x] = IF Served(n).op = "rmdir" /\ Within(x, Served(n).path)
                                          THEN "none" ELSE tree[x]
           /\ UNCHANGED <<kv, dfs, mq, todo, load>>
  <1>1. rpc[n].step = "end"
    BY DEF End, At
  <1>2. /\ rpc[n].client \in Clients /\ Served(n) = Call(rpc[n].client) /\ Served(n).path \in Paths
        /\ pc[rpc[n].client] = "request" /\ todo[rpc[n].client] # <<>> /\ NodeOf[rpc[n].client] = n
    BY <1>1, ServedCall
  <1>3. Served(n).op \in {"rmdir", "readdir"}
    BY <1>1, ServedOp
  <1>4. rpc[n].stack = <<>>
    BY <1>1 DEF RpcInv
  <1>5. rpc' = [rpc EXCEPT ![n] = NoRpc] /\ pc' = [pc EXCEPT ![rpc[n].client] = "reply"]
        /\ tree' = TreeAfter(Served(n)) /\ UNCHANGED <<kv, dfs, mq, todo, load>>
    BY DEF End
  <1>6. \A x \in Paths : tree'[x] = IF Served(n).op = "rmdir" /\ Within(x, Served(n).path)
                                    THEN "none" ELSE tree[x]
    <2>1. CASE Served(n).op = "rmdir"
      BY <1>5, <2>1 DEF TreeAfter
    <2>2. CASE Served(n).op = "readdir"
      BY <1>5, <2>2 DEF TreeAfter
    <2> QED
      BY <1>3, <2>1, <2>2
  <1>7. rpc'[n] = NoRpc /\ \A m \in Nodes : m # n => rpc'[m] = rpc[m]
    BY <1>5 DEF DirTypes
  <1>8. /\ pc'[rpc[n].client] = "reply"
        /\ \A d \in Clients : d # rpc[n].client => pc'[d] = pc[d]
    BY <1>2, <1>5 DEF DirTypes
  <1> QED
    BY <1>1, <1>2, <1>3, <1>4, <1>5, <1>6, <1>7, <1>8

\* The end of an operation: of the directory that was removed only its own cached
\* entry is left, which the client deletes.
LEMMA StoreEnd ==
    ASSUME DirTypes, RpcInv, NoRenames, StoreInv, WalkInv, NEW n \in Nodes, End(n)
    PROVE  StoreInv'
  <1>1. PICK c \in Clients : c = rpc[n].client
    BY EndStep
  <1>2. /\ rpc[n].step = "end" /\ Call(c).op \in {"rmdir", "readdir"}
        /\ Served(n) = Call(c) /\ Call(c).path \in Paths /\ rpc[n].stack = <<>>
        /\ pc[c] = "request" /\ todo[c] # <<>> /\ pc'[c] = "reply" /\ NodeOf[c] = n
        /\ \A d \in Clients : d # c => pc'[d] = pc[d]
        /\ rpc'[n] = NoRpc /\ \A m \in Nodes : m # n => rpc'[m] = rpc[m]
        /\ \A x \in Paths : tree'[x] = IF Call(c).op = "rmdir" /\ Within(x, Call(c).path)
                                       THEN "none" ELSE tree[x]
        /\ UNCHANGED <<kv, dfs, mq, todo, load>>
    BY <1>1, EndStep
  <1>3. \A d \in Clients : Call(d)' = Call(d)
    BY <1>2 DEF Call
  <1>4. ASSUME NEW d \in Clients, d # c, Removes(d) PROVE Removes(d)'
    <2>1. NodeOf[d] \in Nodes
      BY ConstantsAssumption
    <2>2. CASE NodeOf[d] = n
      BY <1>1, <1>2, <1>3, <1>4, <2>2 DEF Removes
    <2>3. CASE NodeOf[d] # n
      BY <1>2, <1>3, <1>4, <2>1, <2>3 DEF Removes
    <2> QED
      BY <2>2, <2>3
  <1>5. Call(c).op = "rmdir" => Removes(c)'
    BY <1>2, <1>3 DEF Removes
  <1>6. Removes(c) => Removes(c)'
    BY <1>5 DEF Removes
  <1>7. \A x \in Paths : Leaving(x) => Leaving(x)'
    BY <1>3, <1>4, <1>6 DEF Leaving, Within
  <1>8. ASSUME NEW x \in Paths, ~Leaving(x)' PROVE PathInv(x)'
    <2>1. PathInv(x)
      BY <1>7, <1>8 DEF StoreInv
    <2>2. ~(Call(c).op = "rmdir" /\ Within(x, Call(c).path))
      BY <1>3, <1>5, <1>8 DEF Leaving, Within
    <2>3. tree'[x] = tree[x]
      BY <1>2, <2>2
    <2> QED
      BY <1>2, <2>1, <2>3, QueuedSame DEF PathInv, Type
  <1>9. DfsTree'
    BY <1>2 DEF StoreInv, DfsTree, Within
  <1>10. ASSUME NEW d \in Clients, d # c PROVE AskedInv(d)'
    <2>1. AskedInv(d) /\ pc'[d] = pc[d] /\ Call(d)' = Call(d)
      BY <1>2, <1>3, <1>10 DEF StoreInv
    <2>2. \A x \in Paths : tree[x] = "none" => tree'[x] = "none"
      BY <1>2
    <2> QED
      BY <1>2, <2>1, <2>2 DEF AskedInv, Type, Within
  <1>11. AskedInv(c)'
    <2>1. CASE Call(c).op = "readdir"
      BY <1>2, <1>3, <2>1 DEF AskedInv
    <2>2. CASE Call(c).op = "rmdir"
      <3>1. Cover(n)
        BY <1>2, <2>2 DEF WalkInv, Past
      <3>2. \A x \in Paths : ~InLeft(n, x) /\ ~\E i \in DOMAIN rpc[n].stack : x = rpc[n].stack[i].dir
        BY <1>2 DEF InLeft
      <3>3. \A x \in Paths : Within(x, Call(c).path) =>
               dfs[x] = "none" /\ (kv[x] = "none" \/ x = Call(c).path)
        BY <1>2, <3>1, <3>2 DEF Cover
      <3>4. \A x \in Paths : Within(x, Call(c).path) => tree'[x] = "none"
        BY <1>2, <2>2
      <3> QED
        BY <1>2, <1>3, <3>3, <3>4 DEF AskedInv, Within
    <2> QED
      BY <1>2, <2>1, <2>2
  <1> QED
    BY <1>8, <1>9, <1>10, <1>11 DEF StoreInv

\* A request is taken up: nothing is behind the barrier on the node before.
LEMMA RecvStep ==
    ASSUME DirTypes, RpcInv, NEW n \in Nodes, NEW c \in Clients, RpcRecv(n, c)
    PROVE  /\ rpc[n].step = "recv" /\ rpc'[n].step \in {"list", "hold"}
           /\ \A k \in Nodes : k # n => rpc'[k] = rpc[k]
           /\ UNCHANGED <<kv, dfs, mq, todo, pc, load, tree>>
           /\ \A d \in Clients : Call(d)' = Call(d) /\ (Removes(d)' <=> Removes(d))
  <1>1. rpc \in [Nodes -> RpcType] /\ NodeOf \in [Clients -> Nodes]
    BY ConstantsAssumption DEF DirTypes, RpcType
  <1> DEFINE x == IF Call(c).op = "rmdir" THEN "list" ELSE "hold"
  <1>2. /\ rpc' = [rpc EXCEPT ![n].client = c, ![n].step = x] /\ x \in {"list", "hold"}
        /\ rpc[n].step = "recv" /\ UNCHANGED <<kv, dfs, mq, todo, pc, load, tree>>
    BY DEF RpcRecv, At, clientVars
  <1> HIDE DEF x
  <1>3. rpc'[n].step = x /\ \A k \in Nodes : k # n => rpc'[k] = rpc[k]
    BY <1>1, <1>2 DEF RpcType
  <1>4. \A d \in Clients : Call(d)' = Call(d)
    BY <1>2 DEF Call
  <1>5. ASSUME NEW d \in Clients PROVE Removes(d)' <=> Removes(d)
    <2>1. CASE NodeOf[d] = n
      BY <1>2, <1>3, <1>4, <2>1 DEF Removes, Past
    <2>2. CASE NodeOf[d] # n
      BY <1>1, <1>2, <1>3, <1>4, <2>2 DEF Removes
    <2> QED
      BY <2>1, <2>2
  <1> QED
    BY <1>2, <1>3, <1>4, <1>5

\* The steps of the threads.
LEMMA StoreThreads ==
    ASSUME DirTypes, RpcInv, NoRenames, StoreInv, WalkInv, KeptOut, NEW n \in Nodes,
           Rpc(n) \/ Cluster(n) \/ \E c \in Clients : RpcRecv(n, c) \/ Take(n, c)
    PROVE  StoreInv'
  <1>1. ASSUME NEW k \in Nodes, NEW x, NEW s, NEW P, RpcMoves(k, x, s, P),
               rpc[k].step \in Past => x \in Past,
               UNCHANGED <<kv, dfs, mq, tree, todo, pc, load>>
        PROVE  StoreInv'
    BY <1>1, ThreadRemoves, StoreSame
  <1>2. ASSUME UNCHANGED <<kv, dfs, mq, tree, todo, pc, load, rpc>> PROVE StoreInv'
    <2>1. \A c \in Clients : Removes(c) => Removes(c)'
      BY <1>2 DEF Removes, Call
    <2> QED
      BY <1>2, <2>1, StoreSame
  <1>3. ASSUME ListSlot(n) \/ ListCount(n) \/ ListTold(n) PROVE StoreInv'
    <2>1. UNCHANGED <<kv, dfs, mq, tree, todo, pc, load>> /\ rpc[n].step \notin Past
      BY <1>3 DEF ListSlot, ListCount, ListTold, clientVars, At, Past
    <2> QED
      BY <1>1, <1>3, <2>1, ListMoves
  <1>4. ASSUME Unlist(n) PROVE StoreInv'
    <2> DEFINE x == IF Peers(n) = {} THEN "end" ELSE "untell"
    <2>1. UNCHANGED <<kv, dfs, mq, tree, todo, pc, load>> /\ x \in Past
      BY <1>4 DEF Unlist, clientVars, Past
    <2>2. RpcMoves(n, x, rpc[n].stack, Peers(n))
      BY <1>4, ListMoves
    <2> HIDE DEF x
    <2> QED
      BY <1>1, <2>1, <2>2
  <1>5. ASSUME Hold(n) PROVE StoreInv'
    <2>1. UNCHANGED <<kv, dfs, mq, tree, todo, pc, load>> /\ rpc[n].step = "hold"
      BY <1>5 DEF Hold, clientVars, At
    <2>2. Served(n).op \in {"rmdir", "readdir"}
      BY <2>1, ServedOp
    <2>3. PICK x, s : RpcMoves(n, x, s, rpc[n].peers)
      BY <1>5, <2>2, HoldMoves
    <2> QED
      BY <1>1, <2>1, <2>3 DEF Past
  <1>6. ASSUME NEW m \in Nodes, AddSlot(m, n) PROVE StoreInv'
    BY <1>2, <1>6 DEF AddSlot, clientVars
  <1>7. ASSUME AddCount(n) PROVE StoreInv'
    <2>1. UNCHANGED <<kv, dfs, mq, tree, todo, pc, load>> /\ adding[n] # Null
      BY <1>7 DEF AddCount, clientVars
    <2>2. PICK k \in Nodes : k = adding[n].from
      BY <2>1, AddingTells
    <2>3. RpcMoves(k, rpc[k].step, rpc[k].stack, rpc[k].peers \ {n})
      BY <1>7, <2>2, PeerMoves
    <2> QED
      BY <1>1, <2>1, <2>3
  <1>8. ASSUME NEW m \in Nodes, DelRemoving(m, n) PROVE StoreInv'
    <2> DEFINE x == IF rpc[m].peers = {n} THEN "end" ELSE "untell"
    <2>1. UNCHANGED <<kv, dfs, mq, tree, todo, pc, load>> /\ x \in Past
      BY <1>8 DEF DelRemoving, clientVars, Past
    <2>2. RpcMoves(m, x, rpc[m].stack, rpc[m].peers \ {n})
      BY <1>8, PeerMoves
    <2> HIDE DEF x
    <2> QED
      BY <1>1, <2>1, <2>2
  <1>9. ASSUME NEW c \in Clients, RpcRecv(n, c) PROVE StoreInv'
    BY <1>9, RecvStep, StoreSame
  <1>10. ASSUME NEW c \in Clients, Take(n, c) PROVE StoreInv'
    BY <1>2, <1>10 DEF Take, clientVars
  <1> QED
    BY <1>3, <1>4, <1>5, <1>6, <1>7, <1>8, <1>9, <1>10, StoreWalkDel, StoreWalkRmdir, StoreEnd,
       NoRenameSteps DEF Rpc, Cluster

\* Every step keeps what the cache, the DFS and the queues are to each other.
LEMMA StoreNext ==
    ASSUME DirTypes, RpcInv, RoundInv, QueueInv, StoreInv, WalkInv, LoadsInv,
           NotesFollowed, ListShort, Next
    PROVE  StoreInv'
  <1>1. KeptOut /\ OnDirectories /\ NoRenames
    BY DEF NotesFollowed
  <1>2. ASSUME NEW c \in Clients, Client(c) PROVE StoreInv'
    BY <1>1, <1>2, ClientStep, StoreQuiet, StoreAdds, StoreSends, StoreIdle, StoreAnswer
  <1> QED
    BY <1>1, <1>2, StoreMpi, StoreCommit, StoreThreads DEF Next

-----------------------------------------------------------------------------
(* The walk over a directory.                                              *)

\* The walk of n goes on as before if nothing appears in its directory.
LEMMA WalkSame ==
    ASSUME NEW n \in Nodes, Chain(n), Cover(n), Served(n)' = Served(n),
           rpc'[n].stack = rpc[n].stack,
           \A p \in Paths : Within(p, Served(n).path) =>
              /\ dfs'[p] = dfs[p]
              /\ kv'[p] # "none" /\ p # Served(n).path => kv[p] # "none"
    PROVE  Chain(n)' /\ Cover(n)'
  <1>1. \A p \in Paths : InLeft(n, p)' <=> InLeft(n, p)
    BY DEF InLeft, Within
  <1>2. Chain(n)'
    BY DEF Chain, Within
  <1>3. Cover(n)'
    BY <1>1 DEF Cover, Within
  <1> QED
    BY <1>2, <1>3

\* What the thread of n serves while the calls stay.
LEMMA ServedSame ==
    ASSUME NEW n \in Nodes, rpc'[n].client = rpc[n].client,
           todo'[rpc[n].client] = todo[rpc[n].client]
    PROVE  Served(n)' = Served(n)
  BY DEF Served, Call

\* A step that leaves the threads and the calls they serve.
LEMMA WalkStay ==
    ASSUME DirTypes, RpcInv, WalkInv, UNCHANGED rpc,
           \A c \in Clients : pc[c] = "request" => todo'[c] = todo[c],
           \A n \in Nodes : rpc[n].step \in Past /\ Served(n).op = "rmdir" =>
              \A p \in Paths : Within(p, Served(n).path) =>
                 /\ dfs'[p] = dfs[p]
                 /\ kv'[p] # "none" /\ p # Served(n).path => kv[p] # "none"
    PROVE  WalkInv'
  <1> SUFFICES ASSUME NEW n \in Nodes, rpc'[n].step \in Past, Served(n)'.op = "rmdir"
               PROVE  Chain(n)' /\ Cover(n)'
    BY DEF WalkInv
  <1>1. rpc[n].step \in Past /\ rpc[n].step # "recv"
    BY DEF Past
  <1>2. rpc[n].client \in Clients /\ pc[rpc[n].client] = "request"
    BY <1>1, ServedCall
  <1>3. Served(n)' = Served(n)
    BY <1>2, ServedSame
  <1>4. Chain(n) /\ Cover(n)
    BY <1>1, <1>3 DEF WalkInv
  <1> QED
    BY <1>1, <1>3, <1>4, WalkSame

\* A call does not disturb the walks: the notes keep it out of the directories.
LEMMA WalkClient ==
    ASSUME DirTypes, RpcInv, RoundInv, StoreInv, WalkInv, LoadsInv, KeptOut, OnDirectories, NoRenames,
           NEW c \in Clients, Client(c)
    PROVE  WalkInv'
  <1>1. CASE Clean(c) \/ Announce(c) \/ Sends(c)
    <2>1. pc[c] = "idle" /\ UNCHANGED <<kv, dfs, rpc>> /\ Done(c)
      BY <1>1 DEF Clean, Announce, Sends, Calls, serverVars
    <2>2. \A d \in Clients : pc[d] = "request" => todo'[d] = todo[d]
      BY <2>1 DEF Done, DirTypes
    <2> QED
      BY <2>1, <2>2, WalkStay
  <1>2. CASE RmdirDel(c) \/ Listed(c) \/ Renamed(c)
    <2>1. /\ pc[c] = "reply" /\ UNCHANGED <<dfs, rpc>> /\ Done(c)
          /\ IF Call(c).op = "rmdir" THEN kv' = [kv EXCEPT ![Call(c).path] = "none"]
             ELSE UNCHANGED kv
      BY <1>2, AnswerStep
    <2>2. \A d \in Clients : pc[d] = "request" => todo'[d] = todo[d]
      BY <2>1 DEF Done, DirTypes
    <2>3. \A p \in Paths : kv'[p] # "none" => kv[p] # "none"
      BY <2>1 DEF DirTypes
    <2> QED
      BY <2>1, <2>2, <2>3, WalkStay
  <1>3. CASE Quiet(c)
    <2>1. pc[c] = "idle" /\ Loads(kv', {x \in Paths : ~Leaving(x)}) /\ UNCHANGED <<dfs, rpc>>
      BY <1>3 DEF Quiet
    <2>2. \A d \in Clients : pc[d] = "request" => todo'[d] = todo[d]
      BY <1>3 DEF Quiet, Done, DirTypes
    <2>3. ASSUME NEW n \in Nodes, rpc[n].step \in Past, Served(n).op = "rmdir", NEW p \in Paths,
                 Within(p, Served(n).path), kv'[p] # "none"
          PROVE  kv[p] # "none"
      <3>1. Leaving(p)
        BY <2>3, PastRemoves DEF Leaving
      <3> QED
        BY <2>1, <2>3, <3>1 DEF Loads
    <2> QED
      BY <2>1, <2>2, <2>3, WalkStay
  <1>4. CASE Adds(c)
    <2>1. Calls(c, {"mkdir", "create"}) /\ UNCHANGED <<dfs, rpc, todo>>
      BY <1>4 DEF Adds
    <2>2. \A n \in Nodes : ~(rpc[n].step \in Past /\ Served(n).op = "rmdir")
      BY <2>1, PastRemoves, RemovesRound
    <2> QED
      BY <2>1, <2>2, WalkStay
  <1> QED
    BY <1>1, <1>2, <1>3, <1>4, ClientStep

\* At an MPI_Barrier no thread is at work.
LEMMA WalkMpi ==
    ASSUME DirTypes, RpcInv, MpiBarrier
    PROVE  WalkInv'
  <1>1. (\A c \in Clients : pc[c] = "idle") /\ UNCHANGED rpc
    BY DEF MpiBarrier, Calls, serverVars
  <1>2. \A n \in Nodes : rpc[n].step = "recv"
    BY <1>1, ServedCall
  <1> QED
    BY <1>1, <1>2 DEF WalkInv, Past

\* A commit is not in a directory that is being removed.
LEMMA WalkCommit ==
    ASSUME DirTypes, RpcInv, RoundInv, QueueInv, WalkInv, LoadsInv, KeptOut, NEW n \in Nodes, Commit(n)
    PROVE  WalkInv'
  <1>1. UNCHANGED <<kv, todo, pc, rpc>>
    BY DEF Commit, Apply, Count, clientVars
  <1>2. CASE Count(n)
    BY <1>1, <1>2, WalkStay DEF Count
  <1>3. CASE Apply(n)
    <2>1. PICK c \in Clients : c = cur[n]
      BY <1>3, QueueTail DEF Commit
    <2>2. 1 \in DOMAIN mq[c] /\ Msg(n) = mq[c][1] /\ Msg(n) \in MsgType /\ Msg(n).op # "barrier"
      BY <1>3, <2>1, QueueTail DEF Commit, Apply
    <2>3. PICK p \in Paths : p = Msg(n).path
      BY <2>2, MsgFields
    <2>4. UNCHANGED dfs \/ dfs' = [dfs EXCEPT ![p] = Msg(n).op]
      BY <1>3, <2>3 DEF Apply
    <2>5. Queued(p)
      BY <2>2, <2>3 DEF Queued, InQueue
    <2>6. ASSUME NEW m \in Nodes, rpc[m].step \in Past, Served(m).op = "rmdir", NEW x \in Paths,
                 Within(x, Served(m).path)
          PROVE  dfs'[x] = dfs[x]
      <3>1. x # p
        BY <2>5, <2>6, PastRemoves, RemovesClear
      <3> QED
        BY <2>4, <3>1 DEF DirTypes
    <2> QED
      BY <1>1, <2>6, WalkStay
  <1> QED
    BY <1>2, <1>3 DEF Commit

\* Two threads walk over different directories.
LEMMA WalkApart ==
    ASSUME DirTypes, RpcInv, KeptOut, NEW n \in Nodes, NEW m \in Nodes, n # m,
           rpc[n].step \in Past, Served(n).op = "rmdir",
           rpc[m].step \in Past, Served(m).op = "rmdir",
           NEW p \in Paths, Within(p, Served(m).path)
    PROVE  ~Within(p, Served(n).path)
  <1> SUFFICES ASSUME Within(p, Served(n).path) PROVE FALSE
    OBVIOUS
  <1>1. rpc[n].step # "recv" /\ rpc[m].step # "recv"
    BY DEF Past
  <1>2. PICK c \in Clients, d \in Clients : c = rpc[n].client /\ d = rpc[m].client
    BY <1>1, ServedCall
  <1>3. /\ Served(n) = Call(c) /\ Call(c).path \in Paths /\ todo[c] # <<>> /\ NodeOf[c] = n
        /\ Served(m) = Call(d) /\ Call(d).path \in Paths /\ todo[d] # <<>> /\ NodeOf[d] = m
    BY <1>1, <1>2, ServedCall
  <1>4. "rmdir" \in BarrierOps /\ c # d
    BY <1>3 DEF BarrierOps
  <1>5. Within(Call(c).path, Call(d).path) \/ Within(Call(d).path, Call(c).path)
    BY <1>3, WithinOrder
  <1> QED
    BY <1>3, <1>4, <1>5, KeptApart

\* A step of the thread of m: it is enough to look at m itself.
LEMMA WalkByThread ==
    ASSUME DirTypes, RpcInv, WalkInv, KeptOut, NEW m \in Nodes, UNCHANGED todo,
           \A k \in Nodes : k # m => rpc'[k] = rpc[k],
           \/ UNCHANGED <<kv, dfs>>
           \/ /\ rpc[m].step \in Past /\ Served(m).op = "rmdir"
              /\ \E p \in Paths : /\ Within(p, Served(m).path)
                                  /\ \A x \in Paths : x # p => kv'[x] = kv[x] /\ dfs'[x] = dfs[x],
           rpc'[m].step \in Past /\ Served(m)'.op = "rmdir" => Chain(m)' /\ Cover(m)'
    PROVE  WalkInv'
  <1> SUFFICES ASSUME NEW n \in Nodes, n # m, rpc'[n].step \in Past, Served(n)'.op = "rmdir"
               PROVE  Chain(n)' /\ Cover(n)'
    BY DEF WalkInv
  <1>1. rpc'[n] = rpc[n]
    OBVIOUS
  <1>2. Served(n)' = Served(n)
    BY <1>1, ServedSame
  <1>3. rpc[n].step \in Past /\ Served(n).op = "rmdir"
    BY <1>1, <1>2
  <1>4. Chain(n) /\ Cover(n)
    BY <1>3 DEF WalkInv
  <1>5. \A x \in Paths : Within(x, Served(n).path) => kv'[x] = kv[x] /\ dfs'[x] = dfs[x]
    <2>1. CASE UNCHANGED <<kv, dfs>>
      BY <2>1
    <2>2. CASE /\ rpc[m].step \in Past /\ Served(m).op = "rmdir"
               /\ \E p \in Paths : /\ Within(p, Served(m).path)
                                   /\ \A x \in Paths : x # p => kv'[x] = kv[x] /\ dfs'[x] = dfs[x]
      <3>1. PICK p \in Paths : /\ Within(p, Served(m).path)
                               /\ \A x \in Paths : x # p => kv'[x] = kv[x] /\ dfs'[x] = dfs[x]
        BY <2>2
      <3>2. ~Within(p, Served(n).path)
        BY <1>3, <2>2, <3>1, WalkApart
      <3> QED
        BY <3>1, <3>2
    <2> QED
      BY <2>1, <2>2
  <1> QED
    BY <1>1, <1>2, <1>4, <1>5, WalkSame

\* What of the DFS lies within p is p, or lies within a child of p.
LEMMA WithinChild ==
    ASSUME DirTypes, DfsTree, NEW p \in Paths, NEW x \in Paths, Within(x, p), x # p,
           dfs[x] # "none"
    PROVE  dfs[p] = "dir" /\ \E r \in Children(p, dfs) : Within(x, r)
  <1>1. PICK r \in Paths \ {Root} : Front(r) = p /\ Within(x, r)
    BY EntryTowards
  <1>2. dfs[r] # "none"
    BY <1>1 DEF DfsTree
  <1> QED
    BY <1>1, <1>2 DEF Children, DfsTree

\* The walk starts when all that is cached of the directory is committed.
LEMMA WalkHold ==
    ASSUME DirTypes, RpcInv, RoundInv, QueueInv, StoreInv, WalkInv, LoadsInv, KeptOut, NoRenames,
           NEW n \in Nodes, Hold(n)
    PROVE  WalkInv'
  <1>1. rpc[n].step = "hold" /\ UNCHANGED <<kv, dfs, todo>>
    BY DEF Hold, At, clientVars
  <1>2. Served(n).op \in {"rmdir", "readdir"}
    BY <1>1, ServedOp
  <1>3. PICK x, s : RpcMoves(n, x, s, rpc[n].peers)
    BY <1>2, HoldMoves
  <1>4. (\A k \in Nodes : k # n => rpc'[k] = rpc[k]) /\ rpc'[n].client = rpc[n].client
    BY <1>3 DEF RpcMoves
  <1>5. Served(n)' = Served(n)
    BY <1>1, <1>4, ServedSame
  <1>6. ASSUME Served(n).op = "rmdir" PROVE Chain(n)' /\ Cover(n)'
    <2>1. PICK q \in Paths : q = Served(n).path
      BY <1>6, HoldClear
    <2>2. dfs[q] = "dir" /\ \A p \in Paths : Within(p, q) /\ kv[p] # "none" => dfs[p] # "none"
      BY <1>6, <2>1, HoldClear
    <2>3. PICK f : f = Frame(q)
      OBVIOUS
    <2>4. rpc'[n].stack = <<f>>
      BY <1>6, <2>1, <2>3, HoldMoves DEF RpcMoves
    <2>5. /\ f.dir = q /\ f.left = Children(q, dfs)
          /\ \A y \in f.left : y \in Paths /\ y # Root /\ Front(y) = q
      BY <2>3, FrameFacts DEF Children
    <2>6. PICK s1 : s1 = <<f>>
      OBVIOUS
    <2>7. Len(s1) = 1 /\ DOMAIN s1 = 1 .. 1 /\ s1[1] = f /\ s1 # <<>>
      BY <2>6
    <2>8. rpc'[n].stack = s1 /\ \A i \in DOMAIN s1 : i = 1
      BY <2>4, <2>6, <2>7
    <2>9. Within(q, q)
      BY WithinOrder
    <2>10. Chain(n)'
      <3>1. s1 # <<>> => s1[1].dir = Served(n)'.path
        BY <1>5, <2>1, <2>5, <2>7
      <3>2. \A i \in DOMAIN s1 : \A y \in s1[i].left : y # Root /\ Front(y) = s1[i].dir
        BY <2>5, <2>7, <2>8
      <3>3. \A i, j \in DOMAIN s1 : Within(s1[j].dir, s1[i].dir) /\ j # i + 1
        BY <2>5, <2>7, <2>8, <2>9
      <3> QED
        BY <2>8, <3>1, <3>2, <3>3 DEF Chain, Within
    <2>11. ASSUME NEW p \in Paths, Within(p, q), p # q, dfs[p] # "none" PROVE InLeft(n, p)'
      <3>1. DfsTree
        BY DEF StoreInv
      <3>2. \E y \in f.left : Within(p, y)
        BY <2>5, <2>11, <3>1, WithinChild
      <3>3. 1 \in DOMAIN s1 /\ s1[1].left = f.left
        BY <2>7
      <3> QED
        BY <2>8, <3>2, <3>3 DEF InLeft, Within
    <2>12. Cover(n)'
      <3>1. \E i \in DOMAIN s1 : q = s1[i].dir
        BY <2>5, <2>7
      <3> QED
        BY <1>1, <1>5, <2>1, <2>2, <2>8, <2>11, <3>1 DEF Cover, Within
    <2> QED
      BY <2>10, <2>12
  <1> QED
    BY <1>1, <1>4, <1>5, <1>6, WalkByThread

\* The first L frames of s are a path down, as Chain says.
Frames(s, L) ==
    /\ \A i \in 1 .. L : s[i].dir \in Paths /\ s[i].left \in SUBSET Paths
    /\ \A i \in 1 .. L : \A y \in s[i].left : y \in Paths \ {Root} /\ Front(y) = s[i].dir
    /\ \A i, j \in 1 .. L : i <= j => Within(s[j].dir, s[i].dir)
    /\ \A i, j \in 1 .. L : j = i + 1 =>
          s[j].dir # Root /\ Front(s[j].dir) = s[i].dir /\ s[j].dir \notin s[i].left

\* The frames of a thread that walks.
LEMMA ChainFacts ==
    ASSUME DirTypes, RpcInv, WalkInv, NEW n \in Nodes, rpc[n].step = "walk", Served(n).op = "rmdir",
           NEW s, s = rpc[n].stack, NEW L, L = Len(s)
    PROVE  /\ L \in Nat \ {0} /\ DOMAIN s = 1 .. L /\ L \in DOMAIN s /\ s # <<>>
           /\ Top(n) = s[L] /\ s[1].dir = Served(n).path /\ Cover(n) /\ Frames(s, L)
  <1>1. s # <<>>
    BY DEF RpcInv
  <1>2. L \in Nat \ {0} /\ DOMAIN s = 1 .. L /\ Top(n) = s[L] /\ s \in Seq(FrameType)
    BY <1>1, StackTypes
  <1>3. Chain(n) /\ Cover(n)
    BY DEF WalkInv, Past
  <1>4. \A i \in 1 .. L : s[i] \in FrameType
    BY <1>2, ElementOfSeq
  <1>5. \A i \in 1 .. L : s[i].dir \in Paths /\ s[i].left \in SUBSET Paths
    BY <1>4 DEF FrameType
  <1>6. s[1].dir = Served(n).path
    BY <1>1, <1>3 DEF Chain
  <1>7. \A i \in 1 .. L : \A y \in s[i].left : y # Root /\ Front(y) = s[i].dir
    BY <1>2, <1>3 DEF Chain
  <1>8. \A i, j \in 1 .. L : i <= j => Within(s[j].dir, s[i].dir)
    BY <1>2, <1>3 DEF Chain
  <1>9. \A i, j \in 1 .. L : j = i + 1 =>
           s[j].dir # Root /\ Front(s[j].dir) = s[i].dir /\ s[j].dir \notin s[i].left
    <2>1. \A i, j \in DOMAIN s : j = i + 1 =>
             s[j].dir # Root /\ Front(s[j].dir) = s[i].dir /\ s[j].dir \notin s[i].left
      BY <1>3, Zenon DEF Chain
    <2> QED
      BY <1>2, <2>1
  <1>10. Frames(s, L)
    <2>1. \A i \in 1 .. L : \A y \in s[i].left : y \in Paths \ {Root} /\ Front(y) = s[i].dir
      BY <1>5, <1>7, Zenon
    <2> QED
      BY <1>5, <1>8, <1>9, <2>1, Zenon DEF Frames
  <1> QED
    BY <1>1, <1>2, <1>3, <1>6, <1>10

\* The walk deletes an entry and goes down into a directory.
LEMMA WalkDown ==
    ASSUME DirTypes, RpcInv, StoreInv, WalkInv, KeptOut, NEW n \in Nodes,
           NEW p \in Paths, WalkDel(n, p)
    PROVE  WalkInv'
  <1>1. /\ rpc[n].step = "walk" /\ Served(n).op = "rmdir" /\ p \in Top(n).left
        /\ kv' = [kv EXCEPT ![p] = "none"]
        /\ dfs' = IF dfs[p] = "file" THEN [dfs EXCEPT ![p] = "none"] ELSE dfs
        /\ UNCHANGED todo
    BY DEF WalkDel, At, dmkv_del, clientVars
  <1>2. PICK s, L : s = rpc[n].stack /\ L = Len(s)
    OBVIOUS
  <1>3. PICK t : t = NextStack(n, p)
    OBVIOUS
  <1>4. /\ L \in Nat \ {0} /\ DOMAIN s = 1 .. L /\ L \in DOMAIN s /\ s # <<>>
        /\ Top(n) = s[L] /\ s[1].dir = Served(n).path /\ Cover(n) /\ Frames(s, L)
    BY <1>1, <1>2, ChainFacts
  <1>5. /\ RpcMoves(n, "walk", t, rpc[n].peers)
    BY <1>3, WalkMoves
  <1>6. rpc'[n].stack = t /\ rpc'[n].client = rpc[n].client /\ \A k \in Nodes : k # n => rpc'[k] = rpc[k]
    BY <1>5 DEF RpcMoves
  <1>7. Served(n)' = Served(n)
    BY <1>1, <1>6, ServedSame
  <1>8. /\ t # <<>> /\ DOMAIN t = 1 .. Len(t)
        /\ Len(t) = L + (IF dfs[p] = "dir" THEN 1 ELSE 0)
        /\ \A i \in 1 .. L : /\ t[i].dir = s[i].dir
                             /\ t[i].left = IF i = L THEN s[i].left \ {p} ELSE s[i].left
        /\ dfs[p] = "dir" => t[L + 1] = Frame(p)
    <2>1. rpc[n].stack # <<>>
      BY <1>2, <1>4
    <2>2. t = NextStack(n, p)
      BY <1>3
    <2>3. t # <<>> /\ StepsDown(t, rpc[n].stack, p)
      BY <2>1, <2>2, VisitedStack
    <2> QED
      BY <1>2, <2>3 DEF StepsDown
  <1>9. p # Root /\ Front(p) = s[L].dir /\ Within(p, s[L].dir)
    BY <1>1, <1>4, WithinFront DEF Frames
  <1>10. Frame(p).dir = p /\ Frame(p).left = Children(p, dfs)
         /\ \A y \in Frame(p).left : y \in Paths \ {Root} /\ Front(y) = p
    BY FrameFacts DEF Children
  <1>11. \A i \in DOMAIN t : i \in 1 .. L \/ (i = L + 1 /\ dfs[p] = "dir")
    BY <1>4, <1>8 DEF Frames
  <1>12. Within(p, Served(n).path) /\ Served(n).path \in Paths
    <2>1. 1 <= L
      BY <1>4 DEF Frames
    <2>2. Within(s[L].dir, s[1].dir)
      BY <1>4, <2>1 DEF Frames
    <2> QED
      BY <1>4, <1>9, <2>2, WithinOrder DEF Frames
  <1>13. Chain(n)'
    <2>1. t[1].dir = Served(n)'.path
      <3>1. 1 \in 1 .. L
        BY <1>4
      <3> QED
        BY <1>4, <1>7, <1>8, <3>1
    <2>2. ASSUME NEW i \in DOMAIN t, NEW y \in t[i].left PROVE y # Root /\ Front(y) = t[i].dir
      <3>1. CASE i \in 1 .. L
        BY <1>4, <1>8, <2>2, <3>1 DEF Frames
      <3>2. CASE i = L + 1 /\ dfs[p] = "dir"
        BY <1>8, <1>10, <2>2, <3>2
      <3> QED
        BY <1>11, <3>1, <3>2
    <2>3. ASSUME NEW i \in DOMAIN t, NEW j \in DOMAIN t, i <= j PROVE Within(t[j].dir, t[i].dir)
      <3>1. CASE j \in 1 .. L
        <4>1. i \in 1 .. L
          BY <1>4, <1>11, <2>3, <3>1 DEF Frames
        <4> QED
          BY <1>4, <1>8, <2>3, <3>1, <4>1 DEF Frames
      <3>2. CASE j = L + 1 /\ dfs[p] = "dir"
        <4>1. t[j].dir = p
          BY <1>8, <1>10, <3>2
        <4>2. CASE i \in 1 .. L
          <5>1. Within(s[L].dir, s[i].dir) /\ t[i].dir = s[i].dir /\ s[L].dir \in Paths
            <6>1. L \in 1 .. L /\ i <= L
              BY <1>4, <4>2
            <6> QED
              BY <1>4, <1>8, <4>2, <6>1 DEF Frames
          <5> QED
            BY <1>4, <1>9, <4>1, <4>2, <5>1, WithinOrder DEF Frames
        <4>3. CASE i = L + 1
          BY <3>2, <4>1, <4>3, WithinOrder
        <4> QED
          BY <1>11, <4>2, <4>3
      <3> QED
        BY <1>11, <3>1, <3>2
    <2>4. ASSUME NEW i \in DOMAIN t, NEW j \in DOMAIN t, j = i + 1
          PROVE  t[j].dir # Root /\ Front(t[j].dir) = t[i].dir /\ t[j].dir \notin t[i].left
      <3>1. CASE j \in 1 .. L
        <4>1. i \in 1 .. L
          BY <1>4, <1>11, <2>4, <3>1 DEF Frames
        <4>2. s[j].dir # Root /\ Front(s[j].dir) = s[i].dir /\ s[j].dir \notin s[i].left
          BY <1>4, <2>4, <3>1, <4>1 DEF Frames
        <4> QED
          BY <1>8, <3>1, <4>1, <4>2
      <3>2. CASE j = L + 1 /\ dfs[p] = "dir"
        <4>1. i = L /\ i \in 1 .. L /\ t[j].dir = p
          BY <1>4, <1>8, <1>10, <1>11, <2>4, <3>2 DEF Frames
        <4> QED
          BY <1>8, <1>9, <4>1
      <3> QED
        BY <1>11, <3>1, <3>2
    <2> QED
      BY <1>6, <2>1, <2>2, <2>3, <2>4 DEF Chain, Within
  <1>14. /\ \A x \in Paths : x # p => kv'[x] = kv[x] /\ dfs'[x] = dfs[x]
         /\ kv'[p] = "none" /\ dfs'[p] = IF dfs[p] = "file" THEN "none" ELSE dfs[p]
    BY <1>1 DEF DirTypes
  <1>15. ASSUME NEW x \in Paths, InLeft(n, x), dfs[x] # "none", x # p PROVE InLeft(n, x)'
    <2>1. PICK i \in DOMAIN s : \E y \in s[i].left : Within(x, y)
      BY <1>2, <1>15 DEF InLeft
    <2>2. PICK y \in s[i].left : Within(x, y)
      BY <2>1
    <2>3. i \in DOMAIN t /\ i \in 1 .. L
      BY <1>4, <1>8, <2>1 DEF Frames
    <2>4. CASE y \in t[i].left
      BY <1>6, <2>2, <2>3, <2>4 DEF InLeft, Within
    <2>5. CASE y \notin t[i].left
      <3>1. y = p
        BY <1>8, <2>3, <2>5
      <3>2. dfs[p] = "dir" /\ \E r \in Children(p, dfs) : Within(x, r)
        BY <1>15, <2>2, <3>1, WithinChild DEF StoreInv
      <3>3. L + 1 \in DOMAIN t /\ t[L + 1].left = Children(p, dfs)
        BY <1>4, <1>8, <1>10, <3>2 DEF Frames
      <3> QED
        BY <1>6, <3>2, <3>3 DEF InLeft, Within
    <2> QED
      BY <2>4, <2>5
  <1>16. ASSUME NEW x \in Paths, Within(x, Served(n).path), dfs'[x] # "none"
         PROVE  InLeft(n, x)' \/ \E i \in DOMAIN t : x = t[i].dir
    <2>1. dfs[x] # "none"
      BY <1>14, <1>16
    <2>2. CASE x = p
      <3>1. dfs[p] = "dir"
        BY <1>14, <1>16, <2>1, <2>2 DEF DirTypes, Kind
      <3>2. L + 1 \in DOMAIN t /\ t[L + 1].dir = p
        BY <1>4, <1>8, <1>10, <3>1 DEF Frames
      <3> QED
        BY <2>2, <3>2
    <2>3. CASE x # p /\ InLeft(n, x)
      BY <1>15, <2>1, <2>3
    <2>4. CASE \E i \in DOMAIN s : x = s[i].dir
      <3>1. \A i \in DOMAIN s : i \in DOMAIN t /\ t[i].dir = s[i].dir
        <4>1. \A i \in 1 .. L : i \in 1 .. Len(t)
          BY <1>4, <1>8
        <4> QED
          BY <1>4, <1>8, <4>1
      <3> QED
        BY <2>4, <3>1
    <2> QED
      BY <1>2, <1>4, <1>16, <2>1, <2>2, <2>3, <2>4 DEF Cover, Frames
  <1>17. ASSUME NEW x \in Paths, Within(x, Served(n).path), kv'[x] # "none", x # Served(n).path
         PROVE  dfs'[x] # "none" /\ InLeft(n, x)'
    <2>1. x # p /\ kv[x] # "none"
      BY <1>14, <1>17
    <2>2. dfs[x] # "none" /\ InLeft(n, x)
      BY <1>4, <1>17, <2>1 DEF Cover, Frames
    <2> QED
      BY <1>14, <1>15, <2>1, <2>2
  <1>18. Cover(n)'
    BY <1>6, <1>7, <1>16, <1>17 DEF Cover, Within
  <1>19. rpc[n].step \in Past
    BY <1>1 DEF Past
  <1> QED
    BY <1>1, <1>6, <1>12, <1>13, <1>14, <1>18, <1>19, WalkByThread

\* The walk removes a directory after its last entry: it is empty by then.
LEMMA WalkUp ==
    ASSUME DirTypes, RpcInv, StoreInv, WalkInv, KeptOut, NEW n \in Nodes, WalkRmdir(n)
    PROVE  WalkInv'
  <1>1. /\ rpc[n].step = "walk" /\ Served(n).op = "rmdir" /\ Top(n).left = {}
        /\ UNCHANGED <<kv, todo>>
    BY DEF WalkRmdir, At, clientVars
  <1>2. PICK s, L : s = rpc[n].stack /\ L = Len(s)
    OBVIOUS
  <1>3. /\ L \in Nat \ {0} /\ DOMAIN s = 1 .. L /\ L \in DOMAIN s /\ s # <<>>
        /\ Top(n) = s[L] /\ s[1].dir = Served(n).path /\ Cover(n) /\ Frames(s, L)
    BY <1>1, <1>2, ChainFacts
  <1>4. PICK d \in Paths : d = s[L].dir
    BY <1>3 DEF Frames
  <1>5. ASSUME NEW x \in Paths, Within(x, d) PROVE ~InLeft(n, x)
    <2> SUFFICES ASSUME NEW i \in DOMAIN s, NEW y \in s[i].left, Within(x, y) PROVE FALSE
      BY <1>2 DEF InLeft
    <2>1. i # L
      BY <1>1, <1>3 DEF Frames
    <2>2. i \in 1 .. L /\ i + 1 \in 1 .. L /\ i + 1 <= L
      BY <1>3, <2>1 DEF Frames
    <2>3. PICK z \in Paths : z = s[i + 1].dir
      BY <1>3, <2>2 DEF Frames
    <2>4. z # Root /\ Front(z) = s[i].dir /\ z \notin s[i].left /\ Within(d, z)
      BY <1>3, <1>4, <2>2, <2>3 DEF Frames
    <2>5. Within(x, z)
      BY <1>5, <2>4, WithinOrder
    <2>6. y \in Paths \ {Root} /\ Front(y) = Front(z)
      BY <1>3, <2>2, <2>4 DEF Frames
    <2> QED
      BY <2>4, <2>5, <2>6, SameEntry
  <1>6. Within(d, Served(n).path) /\ Served(n).path \in Paths
    BY <1>3, <1>4 DEF Frames
  <1>7. Children(d, dfs) = {}
    <2> SUFFICES ASSUME NEW r \in Paths \ {Root}, Front(r) = d, dfs[r] # "none" PROVE FALSE
      BY DEF Children
    <2>1. Within(r, d) /\ ~Within(d, r)
      BY WithinFront
    <2>2. Within(r, Served(n).path)
      BY <1>6, <2>1, WithinOrder
    <2>3. PICK i \in DOMAIN s : r = s[i].dir
      BY <1>2, <1>3, <1>5, <2>1, <2>2 DEF Cover, Frames
    <2> QED
      BY <1>3, <1>4, <2>1, <2>3 DEF Frames
  <1>8. dfs' = [dfs EXCEPT ![d] = "none"]
    BY <1>3, <1>4, <1>7 DEF WalkRmdir, Frames
  <1>9. dfs'[d] = "none" /\ \A x \in Paths : x # d => dfs'[x] = dfs[x]
    BY <1>8 DEF DirTypes
  <1>10. PICK t : t = Front(s)
    OBVIOUS
  <1>11. Len(t) = L - 1 /\ DOMAIN t = 1 .. L - 1 /\ \A i \in 1 .. L - 1 : t[i] = s[i]
    BY <1>2, <1>3, <1>10, StackTypes DEF Frames
  <1>12. PICK x : RpcMoves(n, x, t, rpc[n].peers)
    BY <1>2, <1>10, WalkMoves
  <1>13. rpc'[n].stack = t /\ rpc'[n].client = rpc[n].client /\ \A k \in Nodes : k # n => rpc'[k] = rpc[k]
    BY <1>12 DEF RpcMoves
  <1>14. Served(n)' = Served(n)
    BY <1>1, <1>13, ServedSame
  <1>15. \A i \in DOMAIN t : i \in 1 .. L /\ t[i] = s[i]
    BY <1>3, <1>11 DEF Frames
  <1>16. Chain(n)'
    <2>1. t # <<>> => t[1].dir = Served(n)'.path
      <3>1. t # <<>> => 1 \in DOMAIN t
        <4>1. t \in Seq(FrameType)
          BY <1>2, <1>3, <1>10, StackTypes DEF Frames
        <4> QED
          BY <4>1
      <3> QED
        BY <1>3, <1>14, <1>15, <3>1 DEF Frames
    <2>2. \A i \in DOMAIN t : \A y \in t[i].left : y # Root /\ Front(y) = t[i].dir
      BY <1>3, <1>15 DEF Frames
    <2>3. \A i, j \in DOMAIN t : i <= j => Within(t[j].dir, t[i].dir)
      BY <1>3, <1>15 DEF Frames
    <2>4. \A i, j \in DOMAIN t : j = i + 1 =>
             t[j].dir # Root /\ Front(t[j].dir) = t[i].dir /\ t[j].dir \notin t[i].left
      BY <1>3, <1>15 DEF Frames
    <2> QED
      BY <1>13, <2>1, <2>2, <2>3, <2>4 DEF Chain, Within
  <1>17. \A i \in DOMAIN s : i # L => i \in DOMAIN t /\ t[i] = s[i]
    BY <1>3, <1>11 DEF Frames
  <1>18. ASSUME NEW y \in Paths, InLeft(n, y) PROVE InLeft(n, y)'
    <2>1. PICK i \in DOMAIN s : \E z \in s[i].left : Within(y, z)
      BY <1>2, <1>18 DEF InLeft
    <2>2. i # L
      BY <1>1, <1>3, <2>1 DEF Frames
    <2> QED
      BY <1>13, <1>17, <2>1, <2>2 DEF InLeft, Within
  <1>19. ASSUME NEW y \in Paths, Within(y, Served(n).path), dfs'[y] # "none"
         PROVE  InLeft(n, y)' \/ \E i \in DOMAIN t : y = t[i].dir
    <2>1. y # d /\ dfs[y] # "none"
      BY <1>9, <1>19
    <2>2. InLeft(n, y) \/ \E i \in DOMAIN s : y = s[i].dir
      BY <1>2, <1>3, <1>19, <2>1 DEF Cover, Frames
    <2> QED
      BY <1>4, <1>17, <1>18, <2>1, <2>2
  <1>20. ASSUME NEW y \in Paths, Within(y, Served(n).path), kv'[y] # "none", y # Served(n).path
         PROVE  dfs'[y] # "none" /\ InLeft(n, y)'
    <2>1. dfs[y] # "none" /\ InLeft(n, y)
      BY <1>1, <1>3, <1>20 DEF Cover, Frames
    <2>2. y # d
      BY <1>5, <2>1, WithinOrder
    <2> QED
      BY <1>9, <1>18, <2>1, <2>2
  <1>21. Cover(n)'
    BY <1>13, <1>14, <1>19, <1>20 DEF Cover, Within
  <1>22. rpc[n].step \in Past
    BY <1>1 DEF Past
  <1>23. \A y \in Paths : y # d => kv'[y] = kv[y] /\ dfs'[y] = dfs[y]
    BY <1>1, <1>9
  <1> QED
    BY <1>1, <1>6, <1>13, <1>16, <1>21, <1>22, <1>23, WalkByThread

\* The steps of the threads and the walks.
LEMMA WalkThreads ==
    ASSUME DirTypes, RpcInv, RoundInv, QueueInv, StoreInv, WalkInv, LoadsInv, KeptOut, NoRenames,
           NEW n \in Nodes,
           Rpc(n) \/ Cluster(n) \/ \E c \in Clients : RpcRecv(n, c) \/ Take(n, c)
    PROVE  WalkInv'
  <1>1. ASSUME NEW k \in Nodes, NEW x, NEW P, RpcMoves(k, x, rpc[k].stack, P),
               x \in Past => rpc[k].step \in Past, UNCHANGED <<kv, dfs, todo>>
        PROVE  WalkInv'
    <2>1. /\ \A m \in Nodes : m # k => rpc'[m] = rpc[m]
          /\ rpc'[k].step = x /\ rpc'[k].client = rpc[k].client /\ rpc'[k].stack = rpc[k].stack
      BY <1>1 DEF RpcMoves
    <2>2. Served(k)' = Served(k)
      BY <1>1, <2>1, ServedSame
    <2>3. ASSUME rpc'[k].step \in Past, Served(k)'.op = "rmdir" PROVE Chain(k)' /\ Cover(k)'
      <3>1. Chain(k) /\ Cover(k)
        BY <1>1, <2>1, <2>2, <2>3 DEF WalkInv
      <3> QED
        BY <1>1, <2>1, <2>2, <3>1, WalkSame
    <2> QED
      BY <1>1, <2>1, <2>3, WalkByThread
  <1>2. ASSUME UNCHANGED <<kv, dfs, todo, rpc>> PROVE WalkInv'
    BY <1>2, WalkStay
  <1>3. ASSUME ListSlot(n) \/ ListCount(n) \/ ListTold(n) PROVE WalkInv'
    <2>1. UNCHANGED <<kv, dfs, todo>>
      BY <1>3 DEF ListSlot, ListCount, ListTold, clientVars
    <2>2. {"listed", "tell", "hold"} \cap Past = {}
      BY DEF Past
    <2> QED
      BY <1>1, <1>3, <2>1, <2>2, ListMoves
  <1>4. ASSUME Unlist(n) PROVE WalkInv'
    <2> DEFINE x == IF Peers(n) = {} THEN "end" ELSE "untell"
    <2>1. UNCHANGED <<kv, dfs, todo>> /\ rpc[n].step \in Past
      BY <1>4 DEF Unlist, clientVars, At, Past
    <2>2. RpcMoves(n, x, rpc[n].stack, Peers(n))
      BY <1>4, ListMoves
    <2> HIDE DEF x
    <2> QED
      BY <1>1, <2>1, <2>2
  <1>5. ASSUME NEW m \in Nodes, AddSlot(m, n) PROVE WalkInv'
    BY <1>2, <1>5 DEF AddSlot, clientVars
  <1>6. ASSUME AddCount(n) PROVE WalkInv'
    <2>1. UNCHANGED <<kv, dfs, todo>> /\ adding[n] # Null
      BY <1>6 DEF AddCount, clientVars
    <2>2. PICK k \in Nodes : k = adding[n].from
      BY <2>1, AddingTells
    <2>3. RpcMoves(k, rpc[k].step, rpc[k].stack, rpc[k].peers \ {n})
      BY <1>6, <2>2, PeerMoves
    <2> QED
      BY <1>1, <2>1, <2>3
  <1>7. ASSUME NEW m \in Nodes, DelRemoving(m, n) PROVE WalkInv'
    <2> DEFINE x == IF rpc[m].peers = {n} THEN "end" ELSE "untell"
    <2>1. UNCHANGED <<kv, dfs, todo>> /\ rpc[m].step \in Past
      BY <1>7 DEF DelRemoving, clientVars, At, Past
    <2>2. RpcMoves(m, x, rpc[m].stack, rpc[m].peers \ {n})
      BY <1>7, PeerMoves
    <2> HIDE DEF x
    <2> QED
      BY <1>1, <2>1, <2>2
  <1>8. ASSUME NEW c \in Clients, RpcRecv(n, c) PROVE WalkInv'
    <2>1. rpc'[n].step \notin Past
      BY <1>8, RecvStep DEF Past
    <2>2. (\A k \in Nodes : k # n => rpc'[k] = rpc[k]) /\ UNCHANGED <<kv, dfs, todo>>
      BY <1>8, RecvStep
    <2> QED
      BY <2>1, <2>2, WalkByThread
  <1>9. ASSUME NEW c \in Clients, Take(n, c) PROVE WalkInv'
    BY <1>2, <1>9 DEF Take, clientVars
  <1>10. ASSUME End(n) PROVE WalkInv'
    <2>1. (\A k \in Nodes : k # n => rpc'[k] = rpc[k]) /\ UNCHANGED <<kv, dfs, todo>> /\ rpc'[n] = NoRpc
      BY <1>10, EndStep
    <2>2. rpc'[n].step \notin Past
      BY <2>1 DEF NoRpc, Past
    <2> QED
      BY <2>1, <2>2, WalkByThread
  <1> QED
    BY <1>3, <1>4, <1>5, <1>6, <1>7, <1>8, <1>9, <1>10, WalkHold, WalkDown, WalkUp, NoRenameSteps
       DEF Rpc, Cluster

\* Every step keeps what the walks of the local RPC threads have still to visit.
LEMMA WalkNext ==
    ASSUME DirTypes, RpcInv, RoundInv, QueueInv, StoreInv, WalkInv, LoadsInv, NotesFollowed, Next
    PROVE  WalkInv'
  <1>1. KeptOut /\ OnDirectories /\ NoRenames
    BY DEF NotesFollowed
  <1> QED
    BY <1>1, WalkClient, WalkMpi, WalkCommit, WalkThreads DEF Next

-----------------------------------------------------------------------------
(* Calls under way.                                                        *)

\* A client that is not within a call.
LEMMA LoadOff ==
    ASSUME NEW d \in Clients, load'[d].at = "start"
    PROVE  LoadInv(d)'
  BY DEF LoadInv, Doing

\* A client that stays where it is: what it has got stays right.
LEMMA LoadKeep ==
    ASSUME NEW d \in Clients, LoadInv(d), load'[d] = load[d], todo'[d] = todo[d], pc'[d] = pc[d],
           load[d].at = "stat" /\ ~Making(d) => dfs'[load[d].path] = dfs[load[d].path],
           load[d].at = "store" /\ kv'[load[d].path] = "none" =>
              kv[load[d].path] = "none" /\ tree'[load[d].path] = tree[load[d].path],
           load[d].at = "send" => Type(kv'[Call(d).path]) = Type(kv[Call(d).path])
    PROVE  LoadInv(d)'
  <1>1. /\ Call(d)' = Call(d) /\ (Making(d)' <=> Making(d)) /\ NewType(d)' = NewType(d)
        /\ \A S : Calls(d, S)' <=> Calls(d, S)
    BY DEF Call, Making, NewType, Calls
  <1>2. load'[d].at # "start" =>
          /\ Calls(d, {"mkdir", "create", "rmdir", "readdir"})'
          /\ load'[d].at # "new" /\ (load'[d].at \notin {"stat", "store"} => Making(d)')
          /\ ~Making(d)' => load'[d].path = Call(d)'.path
    BY <1>1 DEF LoadInv
  <1>3. load'[d].at = "stat" /\ ~Making(d)' => dfs'[load'[d].path] = "dir"
    BY <1>1 DEF LoadInv, Doing
  <1>4. load'[d].at = "store" /\ kv'[load'[d].path] = "none" => load'[d].got = tree'[load'[d].path]
    BY <1>1 DEF LoadInv, Doing
  <1>5. load'[d].at = "send" => Type(kv'[Call(d)'.path]) = NewType(d)'
    BY <1>1 DEF LoadInv, Doing
  <1> QED
    BY <1>2, <1>3, <1>4, <1>5 DEF LoadInv, Doing, Type

\* What a client has stored and not yet queued is cached.
LEMMA SentCached ==
    ASSUME LoadsInv, NEW d \in Clients, load[d].at = "send"
    PROVE  kv[Call(d).path] # "none"
  BY DEF LoadsInv, LoadInv, Doing, NewType, Type

\* Nothing of what a client is within a call for lies in a directory that is removed.
LEMMA LoadsOutside ==
    ASSUME DirTypes, RpcInv, RoundInv, KeptOut, LoadsInv, NEW d \in Clients,
           load'[d] = load[d], todo'[d] = todo[d], pc'[d] = pc[d],
           \A x \in Paths : ~Leaving(x) => kv'[x] = kv[x] /\ dfs'[x] = dfs[x] /\ tree'[x] = tree[x]
    PROVE  LoadInv(d)'
  <1>1. CASE load[d].at = "start"
    BY <1>1, LoadOff
  <1>2. CASE load[d].at # "start"
    <2>1. /\ Calls(d, {"mkdir", "create", "rmdir", "readdir"}) /\ todo[d] # <<>>
          /\ Call(d).op \in {"mkdir", "create", "rmdir", "readdir"}
          /\ ~Making(d) => load[d].path = Call(d).path
      BY <1>2, LoadCall
    <2>2. load[d].path \in Paths /\ Call(d).path \in Paths
      BY <2>1, CallPath, LoadRecords DEF LoadType
    <2>3. ~Leaving(load[d].path) /\ ~Leaving(Call(d).path)
      BY <2>1, <2>2, LoadStays
    <2>4. LoadInv(d)
      BY DEF LoadsInv
    <2> QED
      BY <2>2, <2>3, <2>4, LoadKeep
  <1> QED
    BY <1>1, <1>2

\* The steps of the calls themselves.
LEMMA LoadsSteps ==
    ASSUME DirTypes, LoadsInv, NEW c \in Clients, Quiet(c) \/ Adds(c)
    PROVE  LoadsInv'
  <1> SUFFICES ASSUME NEW d \in Clients PROVE LoadInv(d)'
    BY DEF LoadsInv
  <1>1. LoadInv(d) /\ load[d].path \in Paths
    BY LoadRecords DEF LoadsInv, LoadType
  <1>2. load[d].at = "send" => kv[Call(d).path] # "none" /\ Call(d).path \in Paths
    BY SentCached, LoadCall, CallPath
  <1>3. CASE Quiet(c)
    <2>1. CASE d = c
      BY <1>3, <2>1 DEF Quiet
    <2>2. CASE d # c
      <3>1. /\ load'[d] = load[d] /\ todo'[d] = todo[d] /\ pc'[d] = pc[d] /\ UNCHANGED <<dfs, tree>>
            /\ Loads(kv', {x \in Paths : ~Leaving(x)})
        BY <1>3, <2>2 DEF Quiet, Done, DirTypes
      <3>2. \A x \in Paths : kv[x] # "none" => Type(kv'[x]) = Type(kv[x]) /\ kv'[x] # "none"
        <4>1. \A x \in Paths : kv[x] \in CacheType /\ kv'[x] \in CacheType
          BY <3>1 DEF Loads, DirTypes, CacheType
        <4>2. \A x \in Paths : kv[x] # "none" => Type(kv'[x]) = Type(kv[x])
          BY <3>1 DEF Loads
        <4> QED
          BY <4>1, <4>2, TypeFacts
      <3> QED
        BY <1>1, <1>2, <3>1, <3>2, LoadKeep
    <2> QED
      BY <2>1, <2>2
  <1>4. CASE Adds(c)
    <2>p. PICK p \in Paths : p = Call(c).path
      BY <1>4 DEF Adds
    <2>1. /\ Calls(c, {"mkdir", "create"}) /\ kv[p] = "none" /\ NewType(c) \in {"dir", "file"}
          /\ kv' = [kv EXCEPT ![p] = NewType(c)] /\ tree' = [tree EXCEPT ![p] = NewType(c)]
          /\ load'[c].at = "send" /\ \A e \in Clients : e # c => load'[e] = load[e]
          /\ UNCHANGED <<dfs, todo, pc>>
      BY <1>4, <2>p DEF Adds
    <2>2. /\ kv'[p] = NewType(c) /\ \A x \in Paths : x # p => kv'[x] = kv[x] /\ tree'[x] = tree[x]
      BY <2>1 DEF DirTypes
    <2>3. CASE d = c
      <3>1. /\ Call(c)' = Call(c) /\ NewType(c)' = NewType(c) /\ Making(c)'
            /\ Calls(c, {"mkdir", "create", "rmdir", "readdir"})'
        BY <2>1 DEF Calls, Call, NewType, Making
      <3>2. Type(kv'[Call(c)'.path]) = NewType(c)'
        BY <2>p, <2>1, <2>2, <3>1 DEF Type
      <3> QED
        BY <2>1, <2>3, <3>1, <3>2 DEF LoadInv, Doing, Type
    <2>4. CASE d # c
      <3>1. load[d].at = "send" => kv'[Call(d).path] = kv[Call(d).path]
        BY <1>2, <2>1, <2>2
      <3>2. kv'[load[d].path] = "none" => kv[load[d].path] = "none" /\ tree'[load[d].path] = tree[load[d].path]
        BY <1>1, <2>1, <2>2
      <3> QED
        BY <1>1, <2>1, <2>4, <3>1, <3>2, LoadKeep
    <2> QED
      BY <2>3, <2>4
  <1> QED
    BY <1>3, <1>4

\* Every step keeps what the calls under way have got.
LEMMA LoadsStep ==
    ASSUME DirTypes, RpcInv, RoundInv, QueueInv, StoreInv, WalkInv, LoadsInv, NotesFollowed, Next
    PROVE  LoadsInv'
  <1>1. KeptOut /\ OnDirectories /\ NoRenames
    BY DEF NotesFollowed
  <1>2. ASSUME NEW c \in Clients, Done(c), todo[c] # <<>>, UNCHANGED <<dfs, tree>>,
               \A x \in Paths : ~Leaving(x) => kv'[x] = kv[x]
        PROVE  LoadsInv'
    <2> SUFFICES ASSUME NEW d \in Clients PROVE LoadInv(d)'
      BY DEF LoadsInv
    <2>1. CASE d = c
      BY <1>2, <2>1, DoneTypes, LoadOff
    <2>2. CASE d # c
      <3>1. load'[d] = load[d]
        BY <1>2, <2>2, DoneTypes
      <3>2. todo'[d] = todo[d] /\ pc'[d] = pc[d]
        BY <1>2, <2>2 DEF Done, DirTypes
      <3> QED
        BY <1>1, <1>2, <3>1, <3>2, LoadsOutside
    <2> QED
      BY <2>1, <2>2
  <1>3. ASSUME NEW c \in Clients, Client(c) PROVE LoadsInv'
    <2>1. CASE Sends(c) \/ Announce(c) \/ Clean(c)
      <3>1. Done(c) /\ todo[c] # <<>> /\ UNCHANGED <<kv, dfs, tree>>
        BY <2>1 DEF Sends, Announce, Clean, Calls
      <3> QED
        BY <1>2, <3>1
    <2>2. CASE RmdirDel(c) \/ Listed(c) \/ Renamed(c)
      <3>1. /\ todo[c] # <<>> /\ Done(c) /\ pc[c] = "reply" /\ Call(c).path \in Paths
            /\ IF Call(c).op = "rmdir" THEN kv' = [kv EXCEPT ![Call(c).path] = "none"] ELSE UNCHANGED kv
            /\ UNCHANGED <<dfs, tree>>
        BY <1>1, <2>2, AnswerStep
      <3>2. Call(c).op = "rmdir" => Leaving(Call(c).path)
        BY <3>1, WithinOrder DEF Leaving, Removes
      <3>3. \A x \in Paths : ~Leaving(x) => kv'[x] = kv[x]
        BY <3>1, <3>2 DEF DirTypes
      <3> QED
        BY <1>2, <3>1, <3>3
    <2> QED
      BY <1>1, <1>3, <2>1, <2>2, ClientStep, LoadsSteps
  <1>4. ASSUME MpiBarrier PROVE LoadsInv'
    <2>1. \A c \in Clients : load[c].at = "start"
      BY <1>4, NotLoading DEF MpiBarrier, Calls
    <2>2. UNCHANGED load
      BY <1>4 DEF MpiBarrier
    <2> QED
      BY <2>1, <2>2, LoadOff DEF LoadsInv
  <1>5. ASSUME NEW n \in Nodes, Commit(n) PROVE LoadsInv'
    <2>1. UNCHANGED <<kv, tree, todo, pc, load>>
      BY <1>5 DEF Commit, Apply, Count, clientVars
    <2>2. ASSUME NEW q, dfs[q] = "dir" PROVE dfs'[q] = dfs[q]
      <3>1. CASE UNCHANGED dfs
        BY <3>1
      <3>2. CASE dfs[Msg(n).path] # "dir" /\ dfs' = [dfs EXCEPT ![Msg(n).path] = Msg(n).op]
        BY <2>2, <3>2 DEF DirTypes
      <3> QED
        BY <1>5, <3>1, <3>2 DEF Commit, Apply, Count
    <2>3. ASSUME NEW d \in Clients PROVE LoadInv(d)'
      <3>1. LoadInv(d)
        BY DEF LoadsInv
      <3>2. load[d].at = "stat" /\ ~Making(d) => dfs[load[d].path] = "dir"
        BY <3>1 DEF LoadInv, Doing
      <3> QED
        BY <2>1, <2>2, <3>1, <3>2, LoadKeep
    <2> QED
      BY <2>3 DEF LoadsInv
  <1>6. ASSUME NEW n \in Nodes, Rpc(n) \/ Cluster(n) \/ \E c \in Clients : RpcRecv(n, c) \/ Take(n, c)
        PROVE  LoadsInv'
    <2>1. /\ UNCHANGED <<todo, load>>
          /\ UNCHANGED kv \/ \E p \in Paths : WalkDel(n, p)
          /\ UNCHANGED dfs \/ WalkRmdir(n) \/ \E p \in Paths : WalkDel(n, p)
          /\ UNCHANGED <<tree, pc>> \/ End(n)
      BY <1>1, <1>6, ThreadsLeave, NoRenameSteps
    <2>2. ASSUME UNCHANGED <<tree, pc>>,
                 \A x \in Paths : ~Leaving(x) => kv'[x] = kv[x] /\ dfs'[x] = dfs[x]
          PROVE  LoadsInv'
      BY <1>1, <2>1, <2>2, LoadsOutside DEF LoadsInv
    <2>3. CASE UNCHANGED <<kv, dfs, tree, pc>>
      BY <2>2, <2>3
    <2>4. CASE \E p \in Paths : WalkDel(n, p)
      <3>1. PICK p \in Paths : WalkDel(n, p)
        BY <2>4
      <3>2. /\ rpc[n].step = "walk" /\ Served(n).op = "rmdir" /\ p \in Top(n).left
            /\ kv' = [kv EXCEPT ![p] = "none"]
            /\ dfs' = IF dfs[p] = "file" THEN [dfs EXCEPT ![p] = "none"] ELSE dfs
            /\ UNCHANGED <<tree, pc>>
        BY <3>1 DEF WalkDel, At, dmkv_del, clientVars
      <3>3. Leaving(p)
        BY <3>2, WalkEntry, PastRemoves DEF Past, Leaving
      <3>4. \A x \in Paths : ~Leaving(x) => kv'[x] = kv[x] /\ dfs'[x] = dfs[x]
        BY <3>2, <3>3 DEF DirTypes
      <3> QED
        BY <2>2, <3>2, <3>4
    <2>5. CASE WalkRmdir(n)
      <3>1. /\ rpc[n].step = "walk" /\ Served(n).op = "rmdir" /\ UNCHANGED <<kv, tree, pc>>
            /\ UNCHANGED dfs \/ dfs' = [dfs EXCEPT ![Top(n).dir] = "none"]
        BY <2>5 DEF WalkRmdir, At, clientVars
      <3>2. Top(n).dir \in Paths /\ Leaving(Top(n).dir)
        BY <3>1, WalkEntry, PastRemoves DEF Past, Leaving
      <3>3. \A x \in Paths : ~Leaving(x) => dfs'[x] = dfs[x]
        BY <3>1, <3>2 DEF DirTypes
      <3> QED
        BY <2>2, <3>1, <3>3
    <2>6. CASE End(n)
      <3>1. PICK c \in Clients : c = rpc[n].client
        BY <1>1, <2>6, EndStep
      <3>2. /\ rpc[n].step = "end" /\ Served(n) = Call(c) /\ pc[c] = "request" /\ NodeOf[c] = n
            /\ \A d \in Clients : d # c => pc'[d] = pc[d]
            /\ \A x \in Paths : tree'[x] = IF Served(n).op = "rmdir" /\ Within(x, Served(n).path)
                                           THEN "none" ELSE tree[x]
            /\ UNCHANGED <<kv, dfs, load, todo>>
        BY <1>1, <2>6, <3>1, EndStep
      <3>3. Call(c).op = "rmdir" => Removes(c)
        BY <3>1, <3>2 DEF Removes, Past
      <3>4. \A x \in Paths : ~Leaving(x) => tree'[x] = tree[x]
        BY <3>2, <3>3 DEF Leaving
      <3>5. ASSUME NEW d \in Clients PROVE LoadInv(d)'
        <4>1. CASE d = c
          BY <3>2, <4>1, NotLoading, LoadOff
        <4>2. CASE d # c
          BY <1>1, <3>2, <3>4, <4>2, LoadsOutside
        <4> QED
          BY <4>1, <4>2
      <3> QED
        BY <3>5 DEF LoadsInv
    <2> QED
      BY <2>1, <2>3, <2>4, <2>5, <2>6
  <1> QED
    BY <1>3, <1>4, <1>5, <1>6 DEF Next

-----------------------------------------------------------------------------
(* The invariant.                                                          *)

\* The invariant holds at the start.
LEMMA IndInit ==
    ASSUME Init, NotesFollowed
    PROVE  IndInv
  <1>1. PICK s \in Setups : dfs = s.dfs /\ tree = s.dfs /\ todo = s.todo
    BY DEF Init
  <1>2. /\ todo \in [Clients -> Seq(CallType)] /\ dfs \in [Paths -> Kind] /\ dfs[Root] = "dir"
        /\ tree = dfs
        /\ \A p, q \in Paths : dfs[p] # "none" /\ IsStrictPrefix(q, p) => dfs[q] = "dir"
    BY <1>1, SetupsAssumption
  <1>3. /\ kv = [p \in Paths |-> IF p = Root THEN "ldir" ELSE "none"]
        /\ mq = [c \in Clients |-> <<>>] /\ dirtab = [c \in Clients |-> {}]
        /\ current_barrier_id = [c \in Clients |-> 0] /\ pc = [c \in Clients |-> "idle"]
        /\ load = [c \in Clients |-> NoLoad]
        /\ cur = [n \in Nodes |-> Null] /\ passed = {} /\ ops = 0
        /\ rpc = [n \in Nodes |-> NoRpc]
        /\ removing = [n \in Nodes |-> [count |-> 0, list |-> [i \in 0 .. MaxRemoving |-> Blank]]]
        /\ adding = [n \in Nodes |-> Null]
    BY DEF Init
  <1>4. DirTypes
    <2>1. kv \in [Paths -> Kind \cup {"ldir"}]
      BY <1>3 DEF Kind
    <2>2. mq \in [Clients -> Seq(MsgType)]
      BY <1>3
    <2>3. rpc \in [Nodes -> [step : Steps, client : Clients \cup {Null}, stack : Seq(FrameType),
                             peers : SUBSET Nodes, slot : Nat]]
      BY <1>3 DEF NoRpc, Steps
    <2>4. removing \in [Nodes -> [count : Nat, list : [0 .. MaxRemoving -> Paths \cup {Blank}]]]
      BY <1>3
    <2>5. /\ cur \in [Nodes -> Clients \cup {Null}] /\ dirtab \in [Clients -> SUBSET Paths]
          /\ current_barrier_id \in [Clients -> Nat] /\ passed \in SUBSET Clients
          /\ pc \in [Clients -> {"idle", "request", "reply"}]
          /\ adding \in [Nodes -> [from : Nodes, slot : Nat] \cup {Null}]
      BY <1>3
    <2>6. load \in [Clients -> LoadType]
      <3>1. NoLoad \in LoadType
        BY ConstantsAssumption DEF NoLoad, LoadType, Kind
      <3> QED
        BY <1>3, <3>1
    <2> QED
      BY <1>2, <2>1, <2>2, <2>3, <2>4, <2>5, <2>6 DEF DirTypes
  <1>5. /\ \A n \in Nodes : rpc[n] = NoRpc /\ rpc[n].step = "recv" /\ rpc[n].peers = {}
                             /\ rpc[n].stack = <<>> /\ adding[n] = Null /\ cur[n] = Null
        /\ \A c \in Clients : pc[c] = "idle" /\ mq[c] = <<>> /\ current_barrier_id[c] = 0
    BY <1>3 DEF NoRpc
  <1>6. RpcInv
    BY <1>5 DEF RpcInv
  <1>7. \A c \in Clients : DOMAIN mq[c] = {} /\ ~BarrierQueued(c)
    BY <1>5 DEF BarrierQueued
  <1>8. \/ \A c \in Clients : ~BarrierAhead(c) /\ Owed(c) = {}
        \/ (\A c \in Clients : BarrierAhead(c)) /\ \E c \in Clients : Owed(c) # {}
    BY <1>3, <1>7 DEF NotesFollowed, AnnouncedByAll
  <1>9. \A c \in Clients : Pending(c) <=> BarrierAhead(c)
    BY <1>3, <1>7 DEF Pending
  <1>10. RoundInv
    <2>1. \/ \A c \in Clients : ~Pending(c) /\ Owed(c) = {}
          \/ (\A c \in Clients : Pending(c)) /\ \E c \in Clients : Owed(c) # {}
      BY <1>8, <1>9
    <2> QED
      BY <1>3, <1>5, <1>7, <2>1 DEF RoundInv, Past
  <1>11. LedgerInv
    <2>1. Ledger = {}
      BY <1>3 DEF Ledger
    <2> QED
      BY <1>3, <1>7, <2>1, FS_EmptySet DEF LedgerInv
  <1>12. QueueInv
    BY <1>5, <1>7, <1>8 DEF QueueInv, IdsInv
  <1>13. StoreInv
    <2>1. DfsTree
      BY <1>2 DEF DfsTree, Within, IsStrictPrefix
    <2>2. \A p \in Paths : PathInv(p)
      BY <1>2, <1>3 DEF PathInv, Type
    <2>3. \A c \in Clients : AskedInv(c)
      BY <1>5 DEF AskedInv
    <2> QED
      BY <2>1, <2>2, <2>3 DEF StoreInv
  <1>14. WalkInv
    BY <1>5 DEF WalkInv, Past
  <1>15. LoadsInv
    BY <1>3 DEF LoadsInv, LoadInv, Doing, NoLoad
  <1> QED
    BY <1>4, <1>6, <1>10, <1>11, <1>12, <1>13, <1>14, <1>15 DEF IndInv

\* Every step keeps the invariant.
LEMMA IndNext ==
    ASSUME IndInv, NotesFollowed, NotesFollowed', ListShort, [Next]_vars
    PROVE  IndInv'
  <1>1. /\ DirTypes /\ RpcInv /\ RoundInv /\ LedgerInv /\ QueueInv /\ StoreInv /\ WalkInv
        /\ LoadsInv
    BY DEF IndInv
  <1>2. KeptOut /\ OnDirectories /\ NoRenames
    BY DEF NotesFollowed
  <1>3. CASE Next
    <2>1. DirTypes'
      BY <1>1, <1>2, <1>3, TypesNext
    <2>2. \A n \in Nodes : Hold(n) /\ Served(n).op = "rmdir" => dfs[Served(n).path] = "dir"
      BY <1>1, <1>2, HoldClear
    <2>3. RpcInv'
      BY <1>1, <1>2, <1>3, <2>2, RpcNext
    <2>4. RoundInv' /\ LedgerInv'
      BY <1>1, <1>3, RoundNext
    <2>5. QueueInv'
      BY <1>1, <1>3, QueueNext
    <2>6. StoreInv' /\ WalkInv'
      BY <1>1, <1>3, StoreNext, WalkNext
    <2>7. LoadsInv'
      BY <1>1, <1>3, LoadsStep
    <2> QED
      BY <2>1, <2>3, <2>4, <2>5, <2>6, <2>7 DEF IndInv
  <1>4. CASE UNCHANGED vars
    <2>1. UNCHANGED <<kv, dfs, mq, dirtab, current_barrier_id, todo, pc, load, cur, passed, ops, rpc,
                      removing, adding, tree, stale>>
      BY <1>4 DEF vars, clientVars, serverVars
    <2>2. DirTypes'
      BY <1>1, <2>1 DEF DirTypes
    <2>3. RpcInv'
      BY <1>1, <2>1 DEF RpcInv, Call, Served, At
    <2>4. RoundInv' /\ LedgerInv'
      BY <1>1, <2>1, RoundSame
    <2>5. QueueInv'
      <3>1. \A d \in Clients : (BarrierAhead(d)' <=> BarrierAhead(d)) /\ InRound(d)' = InRound(d)
        BY <2>1, SameRound
      <3> QED
        BY <1>1, <2>1, <3>1, QueueSame
    <2>6. StoreInv'
      <3>1. \A c \in Clients : Removes(c) => Removes(c)'
        BY <2>1 DEF Removes, Call
      <3> QED
        BY <1>1, <2>1, <3>1, StoreSame
    <2>7. WalkInv'
      BY <1>1, <2>1, WalkStay
    <2>8. LoadsInv'
      BY <1>1, <2>1, LoadKeep DEF LoadsInv
    <2> QED
      BY <2>2, <2>3, <2>4, <2>5, <2>6, <2>7, <2>8 DEF IndInv
  <1> QED
    BY <1>3, <1>4

\* The inductive invariant, for every rename-free program that follows the notes in
\* pacon.h, as long as removing_dirs stays shorter than a path.
THEOREM IndInvariant == Spec /\ []NotesFollowed /\ []ListShort => []IndInv
  <1>1. Init /\ NotesFollowed => IndInv
    BY IndInit
  <1>2. IndInv /\ NotesFollowed /\ NotesFollowed' /\ ListShort /\ [Next]_vars => IndInv'
    BY IndNext
  <1> QED
    BY <1>1, <1>2, PTL DEF Spec

\* What follows from the invariant in a state: no server dies, the clients see
\* one namespace, and it is in the DFS when the queues are empty.
LEMMA IndImplies ==
    ASSUME IndInv
    PROVE  ServerAlive /\ VisibleTree /\ CommittedTree
  <1>1. DirTypes /\ RpcInv /\ StoreInv
    BY DEF IndInv
  <1>2. ServerAlive
    BY <1>1 DEF RpcInv, ServerAlive
  <1>3. VisibleTree
    <2> SUFFICES ASSUME NEW p \in Paths \ stale, ~InTransit(p) PROVE Visible(p) = tree[p]
      BY DEF VisibleTree
    <2>1. ~Leaving(p)
      BY DEF Leaving, Removes, InTransit
    <2>2. PathInv(p)
      BY <1>1, <2>1 DEF StoreInv
    <2> QED
      BY <2>2 DEF PathInv, Visible
  <1>4. CommittedTree
    <2> SUFFICES ASSUME Quiescent PROVE dfs = tree
      BY DEF CommittedTree
    <2>1. \A c \in Clients : pc[c] = "idle" /\ DOMAIN mq[c] = {} /\ load[c].at # "send"
      BY DEF Quiescent, NoLoad
    <2>2. \A p \in Paths : ~Leaving(p) /\ ~Queued(p)
      BY <2>1 DEF Leaving, Removes, Queued, InQueue, Sending, Doing
    <2>3. \A p \in Paths : dfs[p] = tree[p]
      BY <1>1, <2>2 DEF StoreInv, PathInv
    <2> QED
      BY <1>1, <2>3 DEF DirTypes
  <1> QED
    BY <1>2, <1>3, <1>4

\* What a listing holds.
LEMMA ListedComplete ==
    ASSUME IndInv, NEW c \in Clients, Listed(c), NEW p \in Paths, kv[p] # "none", ~InTransit(p)
    PROVE  \/ dfs[p] # "none"
           \/ \E d \in Clients : \E i \in DOMAIN mq[d] :
                /\ mq[d][i].op # "barrier" /\ mq[d][i].path = p
                /\ mq[d][i].id >= current_barrier_id[c]
           \/ \E d \in Clients : /\ Doing(d, "send") /\ Call(d).path = p
                                 /\ current_barrier_id[d] >= current_barrier_id[c]
  <1>1. DirTypes /\ RoundInv /\ QueueInv /\ StoreInv
    BY DEF IndInv
  <1>2. pc[c] = "reply"
    BY DEF Listed, Answered
  <1>3. \A d \in Clients : ~BarrierAhead(d) /\ ~BarrierQueued(d)
    BY <1>1, <1>2 DEF RoundInv
  <1>4. ~Leaving(p)
    BY DEF Leaving, Removes, InTransit
  <1>5. Type(kv[p]) = tree[p] /\ (dfs[p] = tree[p] \/ Queued(p))
    BY <1>1, <1>4 DEF StoreInv, PathInv
  <1>6. Type(kv[p]) # "none"
    <2>1. kv[p] \in CacheType
      BY <1>1 DEF DirTypes, CacheType
    <2> QED
      BY <2>1, TypeFacts
  <1>8. \A d \in Clients :
          current_barrier_id[d] = current_barrier_id[c] /\ current_barrier_id[c] \in Nat
    BY <1>1, <1>3 DEF QueueInv, IdsInv, DirTypes
  <1>7. CASE InQueue(p)
    <2>1. PICK d \in Clients : \E i \in DOMAIN mq[d] : mq[d][i].op # "barrier" /\ mq[d][i].path = p
      BY <1>7 DEF InQueue
    <2>2. PICK i \in DOMAIN mq[d] : mq[d][i].op # "barrier" /\ mq[d][i].path = p
      BY <2>1
    <2>3. Fresh(d, i) /\ MsgInv(d, i)
      BY <1>1, <1>3, AllFresh DEF QueueInv
    <2>4. mq[d][i].id = current_barrier_id[d]
      BY <2>2, <2>3 DEF MsgInv
    <2>6. mq[d][i].id >= current_barrier_id[c]
      BY <1>8, <2>4
    <2> QED
      BY <2>2, <2>6
  <1>9. CASE Sending(p)
    <2>1. \A d \in Clients : current_barrier_id[d] >= current_barrier_id[c]
      BY <1>8
    <2> QED
      BY <1>9, <2>1 DEF Sending
  <1> QED
    BY <1>5, <1>6, <1>7, <1>9 DEF Queued

\* The same as the invariant that TLC checks.
THEOREM DirInvariant == Spec /\ []NotesFollowed /\ []ListShort => []DirInv
  <1>1. IndInv /\ NotesFollowed => DirInv
    BY DEF DirInv
  <1> QED
    BY <1>1, IndInvariant, PTL

\* traversedir_dmkv_del never reads a directory that opendir did not find: the
\* barrier has every mkdir that was queued before the rmdir in the DFS by then.
THEOREM ServerAliveHolds == Spec /\ []NotesFollowed /\ []ListShort => []ServerAlive
  <1>1. IndInv => ServerAlive
    BY IndImplies
  <1> QED
    BY <1>1, IndInvariant, PTL

\* Cache and DFS together show one namespace: rmdir takes the directory and all that
\* is in it out of both, and commits, and loads by clients that create nothing behind
\* the announcement, do not bring it back.
THEOREM VisibleTreeHolds == Spec /\ []NotesFollowed /\ []ListShort => []VisibleTree
  <1>1. IndInv => VisibleTree
    BY IndImplies
  <1> QED
    BY <1>1, IndInvariant, PTL

\* When the queues are empty the DFS is that namespace: no commit thread drops a
\* message and none brings back what was removed.
THEOREM CommittedTreeHolds == Spec /\ []NotesFollowed /\ []ListShort => []CommittedTree
  <1>1. IndInv => CommittedTree
    BY IndImplies
  <1> QED
    BY <1>1, IndInvariant, PTL

\* The listing that pacon_opendir leads to has every cached child but for those of
\* calls after the announcements, which are queued or about to be.
THEOREM ReaddirCompleteHolds == Spec /\ []NotesFollowed /\ []ListShort => ReaddirComplete
  <1>1. IndInv => [\A c \in Clients : Listed(c) =>
                     \A p \in Paths \ {Root} :
                        Front(p) = Call(c).path /\ kv[p] # "none" /\ p \notin stale /\ ~InTransit(p) =>
                          \/ dfs[p] # "none"
                          \/ \E d \in Clients : \E i \in DOMAIN mq[d] :
                               /\ mq[d][i].op # "barrier" /\ mq[d][i].path = p
                               /\ mq[d][i].id >= current_barrier_id[c]
                          \/ \E d \in Clients : /\ Doing(d, "send") /\ Call(d).path = p
                                                /\ current_barrier_id[d] >= current_barrier_id[c]]_vars
    BY ListedComplete
  <1> QED
    BY <1>1, IndInvariant, PTL DEF ReaddirComplete

-----------------------------------------------------------------------------
(* removing_dirs when directories are removed one at a time.               *)

\* n serves an rmdir.
Works(n) == rpc[n].step # "recv" /\ Served(n).op = "rmdir"

\* One node serves an rmdir at a time.
LEMMA OneWorks ==
    ASSUME DirTypes, RpcInv, OneRemover, NEW n \in Nodes, NEW m \in Nodes, Works(n), Works(m)
    PROVE  n = m
  <1>1. /\ rpc[n].client \in Clients /\ NodeOf[rpc[n].client] = n /\ InRmdir(rpc[n].client)
        /\ rpc[m].client \in Clients /\ NodeOf[rpc[m].client] = m /\ InRmdir(rpc[m].client)
    BY ServedCall DEF Works, InRmdir
  <1> QED
    BY <1>1 DEF OneRemover

\* The lists are what the one node that removes a directory has made of them.
ListBy(k) ==
    /\ \A m \in Nodes : removing[m].count = IF Lists(k, m) THEN 1 ELSE 0
    /\ \A m \in Nodes : Lists(k, m) => removing[m].list[0] = Served(k).path
    /\ At(k, "listed") => rpc[k].slot = 0 /\ removing[k].list[0] = Served(k).path
    /\ \A m \in Nodes : adding[m] # Null =>
          adding[m].slot = 0 /\ removing[m].list[0] = Served(k).path

\* The same seen from that node.
LEMMA ListByWorks ==
    ASSUME DirTypes, RpcInv, OneRemover, NEW k \in Nodes, Works(k)
    PROVE  ListInv <=> ListBy(k)
  <1>1. \A n \in Nodes, m \in Nodes : Lists(n, m) => n = k
    BY OneWorks DEF Lists, Works
  <1>2. \A m \in Nodes : At(m, "listed") => m = k
    BY OneWorks DEF At, Works, RpcInv
  <1>3. \A m \in Nodes : adding[m] # Null => adding[m].from = k
    <2> SUFFICES ASSUME NEW m \in Nodes, adding[m] # Null PROVE adding[m].from = k
      OBVIOUS
    <2>1. adding[m].from \in Nodes /\ rpc[adding[m].from].step = "tell"
      BY AddingTells
    <2>2. Works(adding[m].from)
      BY <2>1 DEF Works, RpcInv
    <2> QED
      BY <2>1, <2>2, OneWorks
  <1>4. ASSUME NEW m \in Nodes PROVE (\E n \in Nodes : Lists(n, m)) <=> Lists(k, m)
    BY <1>1
  <1> QED
    BY <1>1, <1>2, <1>3, <1>4 DEF ListInv, ListBy

\* While n serves an rmdir the peers that are being told are its own.
LEMMA TellsAlone ==
    ASSUME DirTypes, RpcInv, OneRemover, NEW k \in Nodes, Works(k), rpc[k].step # "tell"
    PROVE  \A m \in Nodes : adding[m] = Null
  <1> SUFFICES ASSUME NEW m \in Nodes, adding[m] # Null PROVE FALSE
    OBVIOUS
  <1>1. adding[m].from \in Nodes /\ rpc[adding[m].from].step = "tell"
    BY AddingTells
  <1>2. Works(adding[m].from)
    BY <1>1 DEF Works, RpcInv
  <1> QED
    BY <1>1, <1>2, OneWorks

\* A step that leaves the lists.
LEMMA ListKeep ==
    ASSUME DirTypes, RpcInv, ListInv, UNCHANGED <<removing, adding>>,
           \A n \in Nodes, m \in Nodes : Lists(n, m)' <=> Lists(n, m),
           \A n \in Nodes : rpc[n].step \notin {"recv", "end"} => Served(n)' = Served(n),
           \A n \in Nodes : At(n, "listed")' => At(n, "listed") /\ rpc'[n].slot = rpc[n].slot
    PROVE  ListInv'
  <1>1. \A n \in Nodes, m \in Nodes : Lists(n, m) => Served(n)' = Served(n)
    BY DEF Lists
  <1>2. \A n \in Nodes : At(n, "listed") => Served(n)' = Served(n)
    BY DEF At
  <1>3. \A m \in Nodes : adding[m] # Null => Served(adding[m].from)' = Served(adding[m].from)
    BY AddingTells
  <1>4. \A m \in Nodes : (\E n \in Nodes : Lists(n, m)') <=> (\E n \in Nodes : Lists(n, m))
    OBVIOUS
  <1> QED
    BY <1>1, <1>2, <1>3, <1>4 DEF ListInv

\* The lemma above as a formula, which can be primed.
LEMMA ListByAll ==
    \A k \in Nodes : DirTypes /\ RpcInv /\ OneRemover /\ Works(k) => (ListInv <=> ListBy(k))
  BY ListByWorks

\* The same after a step.
LEMMA ListByNext ==
    (\A k \in Nodes : DirTypes /\ RpcInv /\ OneRemover /\ Works(k) => (ListInv <=> ListBy(k)))'
  BY ListByAll, PTL

\* sprintf into the first slot of an empty list, and count++.
LEMMA ListWrites ==
    ASSUME DirTypes, NEW m \in Nodes, NEW p \in Paths
    PROVE  /\ removing[m].count = 0 /\ removing' = [removing EXCEPT ![m].list[removing[m].count] = p]
                 => /\ removing'[m].count = 0 /\ removing'[m].list[0] = p
                    /\ \A k \in Nodes : k # m => removing'[k] = removing[k]
           /\ removing[m].count = 0 /\ Incremented(m, 0)
                 => /\ removing'[m].count = 1 /\ removing'[m].list = removing[m].list
                    /\ \A k \in Nodes : k # m => removing'[k] = removing[k]
  <1>1. removing \in [Nodes -> ListType]
    BY DEF DirTypes, ListType
  <1>2. removing[m] \in ListType /\ removing[m].list \in [0 .. MaxRemoving -> Paths \cup {Blank}]
        /\ 0 \in 0 .. MaxRemoving
    BY <1>1, ConstantsAssumption DEF ListType
  <1>3. ASSUME removing[m].count = 0, removing' = [removing EXCEPT ![m].list[removing[m].count] = p]
        PROVE  /\ removing'[m].count = 0 /\ removing'[m].list[0] = p
               /\ \A k \in Nodes : k # m => removing'[k] = removing[k]
    <2>1. removing' = [removing EXCEPT ![m].list[0] = p]
      BY <1>3
    <2>2. removing'[m] = [removing[m] EXCEPT !.list[0] = p]
      BY <1>1, <2>1
    <2> QED
      BY <1>1, <1>2, <1>3, <2>1, <2>2 DEF ListType
  <1>4. ASSUME removing[m].count = 0, Incremented(m, 0)
        PROVE  /\ removing'[m].count = 1 /\ removing'[m].list = removing[m].list
               /\ \A k \in Nodes : k # m => removing'[k] = removing[k]
    <2>1. removing' = [removing EXCEPT ![m].count = 1]
      <3>1. PICK k \in {0} : removing' = [removing EXCEPT ![m].count = k + 1]
        BY <1>4 DEF Incremented
      <3>2. k + 1 = 1
        OBVIOUS
      <3> QED
        BY <3>1, <3>2
    <2> QED
      BY <1>1, <2>1 DEF ListType
  <1> QED
    BY <1>3, <1>4

\* A path that is in the first slot of a list leaves it.
LEMMA ListForgets ==
    ASSUME DirTypes, NEW m \in Nodes, NEW p \in Paths, NEW n \in Nodes,
           removing[m].count = 1, removing[m].list[0] = p, Forget(m, p),
           \A k \in Nodes : At(k, "unlist") \/ At(k, "untell") => k = n
    PROVE  removing'[m].count = 0 /\ \A k \in Nodes : k # m => removing'[k] = removing[k]
  <1>1. removing \in [Nodes -> ListType]
    BY DEF DirTypes, ListType
  <1> DEFINE others == {k \in Nodes : At(k, "unlist") \/ At(k, "untell")}
             new == Unlisted(removing[m], p)
             held == {i \in 0 .. removing[m].count - 1 : removing[m].list[i] = p}
  <1>2. ~(Cardinality(others) > 1)
    <2>1. others = {} \/ others = {n}
      OBVIOUS
    <2>2. Cardinality({n}) = 1 /\ Cardinality({}) = 0
      BY FS_Singleton, FS_EmptySet
    <2>3. Cardinality(others) = 0 \/ Cardinality(others) = 1
      BY <2>1, <2>2
    <2> HIDE DEF others
    <2> QED
      BY <2>3
  <1>3. removing' = [removing EXCEPT ![m] = new]
    BY <1>2 DEF Forget
  <1>4. 0 \in held
    OBVIOUS
  <1>5. new.count = removing[m].count - 1
    BY <1>4 DEF Unlisted
  <1> HIDE DEF new
  <1> QED
    BY <1>1, <1>3, <1>5

\* The thread of a node that removes a directory takes a step.
LEMMA WorksOn ==
    ASSUME DirTypes, RpcInv, OneRemover, ListInv, DirTypes', RpcInv', OneRemover',
           NEW n \in Nodes, Works(n), NEW x, NEW s, NEW P, RpcMoves(n, x, s, P), x # "recv",
           UNCHANGED todo
    PROVE  /\ ListBy(n) /\ Served(n)' = Served(n) /\ Served(n).path \in Paths
           /\ ListBy(n)' => ListInv'
           /\ \A m \in Nodes : Lists(n, m)' <=> \/ x \in {"hold", "walk", "unlist"}
                                                \/ x = "tell" /\ m \notin P
                                                \/ x = "untell" /\ m \in P
           /\ At(n, "listed")' <=> x = "listed"
  <1>1. rpc'[n].step = x /\ rpc'[n].client = rpc[n].client /\ rpc'[n].peers = P
    BY DEF RpcMoves
  <1>2. Served(n)' = Served(n)
    BY <1>1, ServedSame
  <1>3. Works(n)'
    BY <1>1, <1>2 DEF Works
  <1>4. ListBy(n)' => ListInv'
    BY <1>3, ListByNext
  <1>5. ListBy(n)
    BY ListByWorks
  <1>6. Served(n).path \in Paths
    BY ServedCall DEF Works
  <1> QED
    BY <1>1, <1>2, <1>3, <1>4, <1>5, <1>6 DEF Lists, Works, At

\* removing_dirs of the node.
LEMMA ListOwn ==
    ASSUME DirTypes, RpcInv, OneRemover, ListInv, DirTypes', RpcInv', OneRemover',
           NEW n \in Nodes, ListSlot(n) \/ ListCount(n) \/ Unlist(n)
    PROVE  ListInv'
  <1>1. rpc[n].step \in {"list", "listed", "unlist"} /\ UNCHANGED <<todo, adding>>
    BY DEF ListSlot, ListCount, Unlist, At, clientVars
  <1>2. Works(n)
    BY <1>1 DEF Works, RpcInv
  <1>3. \A m \in Nodes : adding[m] = Null
    BY <1>1, <1>2, TellsAlone
  <1>4. \A m \in Nodes : adding'[m] = Null
    BY <1>1, <1>3
  <1>5. rpc \in [Nodes -> RpcType]
    BY DEF DirTypes, RpcType
  <1>6. CASE ListSlot(n)
    <2>1. rpc[n].step = "list" /\ RpcMoves(n, "listed", rpc[n].stack, rpc[n].peers)
      BY <1>6, ListMoves DEF ListSlot, At
    <2>2. /\ ListBy(n) /\ Served(n)' = Served(n) /\ Served(n).path \in Paths
          /\ (ListBy(n)' => ListInv') /\ \A m \in Nodes : ~Lists(n, m)'
      BY <1>1, <1>2, <2>1, WorksOn
    <2>3. \A m \in Nodes : removing[m].count = 0
      BY <2>1, <2>2 DEF ListBy, Lists
    <2>4. removing' = [removing EXCEPT ![n].list[removing[n].count] = Served(n).path]
      BY <1>6 DEF ListSlot
    <2>5. /\ removing'[n].count = 0 /\ removing'[n].list[0] = Served(n).path
          /\ \A k \in Nodes : k # n => removing'[k] = removing[k]
      BY <2>2, <2>3, <2>4, ListWrites
    <2>6. rpc'[n].slot = 0
      <3>1. rpc' = [rpc EXCEPT ![n].slot = 0, ![n].step = "listed"]
        BY <1>6, <2>3 DEF ListSlot
      <3> QED
        BY <1>5, <3>1 DEF RpcType
    <2>7. \A m \in Nodes : removing'[m].count = 0
      BY <2>3, <2>5
    <2>8. ListBy(n)'
      BY <1>4, <2>2, <2>5, <2>6, <2>7 DEF ListBy
    <2> QED
      BY <2>2, <2>8
  <1>7. CASE ListCount(n)
    <2>1. rpc[n].step = "listed" /\ RpcMoves(n, "tell", rpc[n].stack, Peers(n))
      BY <1>7, ListMoves DEF ListCount, At
    <2>2. /\ ListBy(n) /\ Served(n)' = Served(n) /\ Served(n).path \in Paths
          /\ (ListBy(n)' => ListInv') /\ ~At(n, "listed")'
          /\ \A m \in Nodes : Lists(n, m)' <=> m \notin Peers(n)
      BY <1>1, <1>2, <2>1, WorksOn
    <2>3. /\ \A m \in Nodes : removing[m].count = 0
          /\ rpc[n].slot = 0 /\ removing[n].list[0] = Served(n).path
      BY <2>1, <2>2 DEF ListBy, Lists, At
    <2>4. Incremented(n, 0)
      BY <1>7, <2>3 DEF ListCount
    <2>5. /\ removing'[n].count = 1 /\ removing'[n].list = removing[n].list
          /\ \A k \in Nodes : k # n => removing'[k] = removing[k]
      BY <2>2, <2>3, <2>4, ListWrites
    <2>6. \A m \in Nodes : Lists(n, m)' <=> m = n
      BY <2>2 DEF Peers
    <2>7. \A m \in Nodes : removing'[m].count = IF Lists(n, m)' THEN 1 ELSE 0
      BY <2>3, <2>5, <2>6
    <2>8. \A m \in Nodes : Lists(n, m)' => removing'[m].list[0] = Served(n)'.path
      BY <2>2, <2>3, <2>5, <2>6
    <2>9. ListBy(n)'
      BY <1>4, <2>2, <2>7, <2>8 DEF ListBy
    <2> QED
      BY <2>2, <2>9
  <1>8. CASE Unlist(n)
    <2> DEFINE x == IF Peers(n) = {} THEN "end" ELSE "untell"
    <2>1. rpc[n].step = "unlist" /\ RpcMoves(n, x, rpc[n].stack, Peers(n)) /\ x \in {"end", "untell"}
      BY <1>8, ListMoves DEF Unlist, At
    <2>2. x = "untell" \/ Peers(n) = {}
      OBVIOUS
    <2> HIDE DEF x
    <2>3. /\ ListBy(n) /\ Served(n)' = Served(n) /\ Served(n).path \in Paths
          /\ (ListBy(n)' => ListInv') /\ ~At(n, "listed")'
          /\ \A m \in Nodes : Lists(n, m)' <=> x = "untell" /\ m \in Peers(n)
      BY <1>1, <1>2, <2>1, WorksOn
    <2>4. \A m \in Nodes : removing[m].count = 1 /\ removing[m].list[0] = Served(n).path
      <3>1. \A m \in Nodes : Lists(n, m)
        BY <1>2, <2>1 DEF Lists, Works
      <3> QED
        BY <2>3, <3>1 DEF ListBy
    <2>5. \A k \in Nodes : At(k, "unlist") \/ At(k, "untell") => k = n
      BY <1>2, OneWorks DEF At, Works, RpcInv
    <2>6. Forget(n, Served(n).path)
      BY <1>8 DEF Unlist
    <2>7. removing'[n].count = 0 /\ \A k \in Nodes : k # n => removing'[k] = removing[k]
      BY <2>3, <2>4, <2>5, <2>6, ListForgets
    <2>8. \A m \in Nodes : Lists(n, m)' <=> m # n
      BY <2>2, <2>3 DEF Peers
    <2>9. \A m \in Nodes : removing'[m].count = IF Lists(n, m)' THEN 1 ELSE 0
      BY <2>4, <2>7, <2>8
    <2>10. \A m \in Nodes : Lists(n, m)' => removing'[m].list[0] = Served(n)'.path
      BY <2>3, <2>4, <2>7, <2>8
    <2>11. ListBy(n)'
      BY <1>4, <2>3, <2>9, <2>10 DEF ListBy
    <2> QED
      BY <2>3, <2>11
  <1> QED
    BY <1>6, <1>7, <1>8

\* removing_dirs of a peer.
LEMMA ListPeer ==
    ASSUME DirTypes, RpcInv, OneRemover, ListInv, DirTypes', RpcInv', OneRemover',
           NEW m \in Nodes, Cluster(m)
    PROVE  ListInv'
  <1>1. rpc \in [Nodes -> RpcType] /\ adding \in [Nodes -> [from : Nodes, slot : Nat] \cup {Null}]
    BY DEF DirTypes, RpcType
  <1>2. UNCHANGED todo
    BY DEF Cluster, AddCount, AddSlot, DelRemoving, clientVars
  <1>3. ASSUME NEW n \in Nodes, AddSlot(n, m) PROVE ListInv'
    <2>1. /\ rpc[n].step = "tell" /\ m \in rpc[n].peers /\ adding[m] = Null /\ UNCHANGED rpc
          /\ removing' = [removing EXCEPT ![m].list[removing[m].count] = Served(n).path]
          /\ adding' = [adding EXCEPT ![m] = [from |-> n, slot |-> removing[m].count]]
      BY <1>3 DEF AddSlot, At
    <2>2. RpcMoves(n, "tell", rpc[n].stack, rpc[n].peers) /\ Works(n)
      BY <1>1, <2>1 DEF RpcMoves, Works, RpcInv
    <2>3. /\ ListBy(n) /\ Served(n)' = Served(n) /\ Served(n).path \in Paths
          /\ (ListBy(n)' => ListInv') /\ ~At(n, "listed")'
          /\ \A k \in Nodes : Lists(n, k)' <=> k \notin rpc[n].peers
      BY <1>2, <2>2, WorksOn
    <2>4. \A k \in Nodes : Lists(n, k) <=> k \notin rpc[n].peers
      BY <2>1, <2>2 DEF Lists, Works
    <2>5. removing[m].count = 0
      BY <2>1, <2>3, <2>4 DEF ListBy
    <2>6. /\ removing'[m].count = 0 /\ removing'[m].list[0] = Served(n).path
          /\ \A k \in Nodes : k # m => removing'[k] = removing[k]
      BY <2>1, <2>3, <2>5, ListWrites
    <2>7. adding'[m].slot = 0 /\ \A k \in Nodes : k # m => adding'[k] = adding[k]
      BY <1>1, <2>1, <2>5
    <2>8. \A k \in Nodes : /\ removing'[k].count = IF Lists(n, k)' THEN 1 ELSE 0
                           /\ Lists(n, k)' => removing'[k].list[0] = Served(n)'.path
      BY <2>1, <2>3, <2>4, <2>6 DEF ListBy
    <2>9. \A k \in Nodes : adding'[k] # Null =>
             adding'[k].slot = 0 /\ removing'[k].list[0] = Served(n)'.path
      BY <2>3, <2>6, <2>7 DEF ListBy
    <2>10. ListBy(n)'
      BY <2>3, <2>8, <2>9 DEF ListBy
    <2> QED
      BY <2>3, <2>10
  <1>4. ASSUME AddCount(m) PROVE ListInv'
    <2>1. adding[m] # Null /\ Incremented(m, adding[m].slot) /\ adding' = [adding EXCEPT ![m] = Null]
      BY <1>4 DEF AddCount
    <2>2. PICK n \in Nodes : n = adding[m].from
      BY <2>1, AddingTells
    <2>3. /\ rpc[n].step = "tell" /\ m \in rpc[n].peers
          /\ RpcMoves(n, rpc[n].step, rpc[n].stack, rpc[n].peers \ {m})
      BY <1>4, <2>1, <2>2, AddingTells, PeerMoves
    <2>4. RpcMoves(n, "tell", rpc[n].stack, rpc[n].peers \ {m}) /\ Works(n)
      BY <2>3 DEF Works, RpcInv
    <2>5. /\ ListBy(n) /\ Served(n)' = Served(n) /\ Served(n).path \in Paths
          /\ (ListBy(n)' => ListInv') /\ ~At(n, "listed")'
          /\ \A k \in Nodes : Lists(n, k)' <=> k \notin rpc[n].peers \ {m}
      BY <1>2, <2>4, WorksOn
    <2>6. \A k \in Nodes : Lists(n, k) <=> k \notin rpc[n].peers
      BY <2>3, <2>4 DEF Lists, Works
    <2>7. removing[m].count = 0 /\ adding[m].slot = 0 /\ removing[m].list[0] = Served(n).path
      BY <2>1, <2>3, <2>5, <2>6 DEF ListBy
    <2>8. /\ removing'[m].count = 1 /\ removing'[m].list = removing[m].list
          /\ \A k \in Nodes : k # m => removing'[k] = removing[k]
      BY <2>1, <2>5, <2>7, ListWrites
    <2>9. adding'[m] = Null /\ \A k \in Nodes : k # m => adding'[k] = adding[k]
      BY <1>1, <2>1
    <2>10. \A k \in Nodes : /\ removing'[k].count = IF Lists(n, k)' THEN 1 ELSE 0
                            /\ Lists(n, k)' => removing'[k].list[0] = Served(n)'.path
      BY <2>5, <2>6, <2>7, <2>8 DEF ListBy
    <2>11. \A k \in Nodes : adding'[k] # Null =>
              adding'[k].slot = 0 /\ removing'[k].list[0] = Served(n)'.path
      BY <2>5, <2>8, <2>9 DEF ListBy
    <2>12. ListBy(n)'
      BY <2>5, <2>10, <2>11 DEF ListBy
    <2> QED
      BY <2>5, <2>12
  <1>5. ASSUME NEW n \in Nodes, DelRemoving(n, m) PROVE ListInv'
    <2> DEFINE x == IF rpc[n].peers = {m} THEN "end" ELSE "untell"
    <2>1. /\ rpc[n].step = "untell" /\ m \in rpc[n].peers /\ Forget(m, Served(n).path)
          /\ UNCHANGED adding
      BY <1>5 DEF DelRemoving, At
    <2>2. RpcMoves(n, x, rpc[n].stack, rpc[n].peers \ {m}) /\ x \in {"end", "untell"}
      BY <1>5, PeerMoves
    <2>3. x = "untell" \/ rpc[n].peers = {m}
      OBVIOUS
    <2> HIDE DEF x
    <2>4. Works(n)
      BY <2>1 DEF Works, RpcInv
    <2>5. /\ ListBy(n) /\ Served(n)' = Served(n) /\ Served(n).path \in Paths
          /\ (ListBy(n)' => ListInv') /\ ~At(n, "listed")'
          /\ \A k \in Nodes : Lists(n, k)' <=> x = "untell" /\ k \in rpc[n].peers \ {m}
      BY <1>2, <2>2, <2>4, WorksOn
    <2>6. \A k \in Nodes : Lists(n, k) <=> k \in rpc[n].peers
      BY <2>1, <2>4 DEF Lists, Works
    <2>7. removing[m].count = 1 /\ removing[m].list[0] = Served(n).path
      BY <2>1, <2>5, <2>6 DEF ListBy
    <2>8. \A k \in Nodes : At(k, "unlist") \/ At(k, "untell") => k = n
      BY <2>4, OneWorks DEF At, Works, RpcInv
    <2>9. removing'[m].count = 0 /\ \A k \in Nodes : k # m => removing'[k] = removing[k]
      BY <2>1, <2>5, <2>7, <2>8, ListForgets
    <2>10. \A k \in Nodes : adding[k] = Null
      BY <2>1, <2>4, TellsAlone
    <2>11. \A k \in Nodes : Lists(n, k)' <=> Lists(n, k) /\ k # m
      BY <2>3, <2>5, <2>6
    <2>12. \A k \in Nodes : /\ removing'[k].count = IF Lists(n, k)' THEN 1 ELSE 0
                            /\ Lists(n, k)' => removing'[k].list[0] = Served(n)'.path
      BY <2>5, <2>9, <2>11 DEF ListBy
    <2>13. ListBy(n)'
      BY <2>1, <2>5, <2>10, <2>12 DEF ListBy
    <2> QED
      BY <2>5, <2>13
  <1> QED
    BY <1>3, <1>4, <1>5 DEF Cluster

\* A client that waits for the server stays at its call.
LEMMA ClientCalls ==
    ASSUME DirTypes, RpcInv, RoundInv, StoreInv, LoadsInv, KeptOut, OnDirectories, NoRenames,
           NEW c \in Clients, Client(c)
    PROVE  /\ UNCHANGED <<rpc, removing, adding>>
           /\ \A d \in Clients : pc[d] = "request" => todo'[d] = todo[d]
  <1>1. \/ Quiet(c) \/ Adds(c) \/ Sends(c) \/ Announce(c) \/ Clean(c)
        \/ RmdirDel(c) \/ Listed(c) \/ Renamed(c)
    BY ClientStep
  <1>2. UNCHANGED <<rpc, removing, adding>>
    BY <1>1 DEF Quiet, Adds, Sends, Announce, Clean, RmdirDel, Listed, Renamed, serverVars
  <1>3. UNCHANGED todo \/ (Done(c) /\ pc[c] # "request")
    BY <1>1 DEF Quiet, Adds, Sends, Announce, Clean, RmdirDel, Listed, Renamed, Answered, Calls
  <1>4. Done(c) /\ pc[c] # "request" => \A d \in Clients : pc[d] = "request" => todo'[d] = todo[d]
    BY DEF Done, DirTypes
  <1> QED
    BY <1>2, <1>3, <1>4

\* A thread moves on without an effect on the lists.
LEMMA ListStays ==
    ASSUME DirTypes, RpcInv, ListInv, NEW n \in Nodes, NEW x, NEW s, NEW P, RpcMoves(n, x, s, P),
           UNCHANGED <<todo, removing, adding>>, rpc[n].step # "recv", x \notin {"recv", "listed"},
           Served(n).op = "rmdir" =>
              \A m \in Nodes : Lists(n, m) /\ x \in {"hold", "walk", "unlist"}
    PROVE  ListInv'
  <1>1. /\ \A k \in Nodes : k # n => rpc'[k] = rpc[k]
        /\ rpc'[n].step = x /\ rpc'[n].client = rpc[n].client
    BY DEF RpcMoves
  <1>2. \A k \in Nodes : Served(k)' = Served(k)
    BY <1>1, ServedSame
  <1>3. \A k \in Nodes, m \in Nodes : Lists(k, m)' <=> Lists(k, m)
    <2>1. \A k \in Nodes, m \in Nodes : k # n => (Lists(k, m)' <=> Lists(k, m))
      BY <1>1, <1>2 DEF Lists
    <2>2. \A m \in Nodes : Lists(n, m)' <=> Lists(n, m)
      BY <1>1, <1>2 DEF Lists
    <2> QED
      BY <2>1, <2>2
  <1>4. \A k \in Nodes : At(k, "listed")' => At(k, "listed") /\ rpc'[k].slot = rpc[k].slot
    BY <1>1 DEF At
  <1> QED
    BY <1>2, <1>3, <1>4, ListKeep

\* The calls and the threads that serve them are left alone.
LEMMA ListRest ==
    ASSUME DirTypes, RpcInv, ListInv, UNCHANGED <<rpc, removing, adding>>,
           \A d \in Clients : pc[d] = "request" => todo'[d] = todo[d]
    PROVE  ListInv'
  <1>1. \A k \in Nodes : rpc[k].step # "recv" => Served(k)' = Served(k)
    BY ServedCall, ServedSame
  <1>2. \A k \in Nodes, m \in Nodes : Lists(k, m)' <=> Lists(k, m)
    BY <1>1 DEF Lists
  <1> QED
    BY <1>1, <1>2, ListKeep DEF At

\* Every step keeps the lists, if one directory is removed at a time.
LEMMA ListNext ==
    ASSUME DirTypes, RpcInv, RoundInv, StoreInv, LoadsInv, KeptOut, OnDirectories, OneRemover, ListInv,
           DirTypes', RpcInv', OneRemover', NoRenames, Next,
           \A n \in Nodes : Hold(n) /\ Served(n).op = "rmdir" => dfs[Served(n).path] = "dir"
    PROVE  ListInv'
  <1>1. ASSUME NEW c \in Clients, Client(c) PROVE ListInv'
    BY <1>1, ClientCalls, ListRest
  <1>2. ASSUME MpiBarrier PROVE ListInv'
    BY <1>2, ListRest DEF MpiBarrier, Calls, serverVars
  <1>3. ASSUME NEW n \in Nodes, Commit(n) \/ \E c \in Clients : Take(n, c) PROVE ListInv'
    BY <1>3, ListRest DEF Commit, Apply, Count, Take, clientVars
  <1>4. ASSUME NEW n \in Nodes, NEW c \in Clients, RpcRecv(n, c) PROVE ListInv'
    <2> DEFINE x == IF Call(c).op = "rmdir" THEN "list" ELSE "hold"
    <2>1. rpc \in [Nodes -> RpcType]
      BY DEF DirTypes, RpcType
    <2>2. /\ rpc' = [rpc EXCEPT ![n].client = c, ![n].step = x] /\ rpc[n].step = "recv"
          /\ UNCHANGED <<todo, removing, adding>>
      BY <1>4 DEF RpcRecv, At, clientVars
    <2>3. x = "list" \/ (x = "hold" /\ Call(c).op # "rmdir")
      OBVIOUS
    <2> HIDE DEF x
    <2>4. rpc'[n].step = x /\ rpc'[n].client = c /\ \A k \in Nodes : k # n => rpc'[k] = rpc[k]
      BY <2>1, <2>2 DEF RpcType
    <2>5. \A k \in Nodes : k # n => Served(k)' = Served(k)
      BY <2>2, <2>4, ServedSame
    <2>6. Served(n)' = Call(c)
      BY <2>2, <2>4 DEF Served, Call
    <2>7. \A m \in Nodes : ~Lists(n, m) /\ ~Lists(n, m)'
      BY <2>2, <2>3, <2>4, <2>6 DEF Lists
    <2>8. \A k \in Nodes, m \in Nodes : Lists(k, m)' <=> Lists(k, m)
      <3>1. \A k \in Nodes, m \in Nodes : k # n => (Lists(k, m)' <=> Lists(k, m))
        BY <2>4, <2>5 DEF Lists
      <3> QED
        BY <2>7, <3>1
    <2>9. \A k \in Nodes : At(k, "listed")' => At(k, "listed") /\ rpc'[k].slot = rpc[k].slot
      BY <2>3, <2>4 DEF At
    <2> QED
      BY <2>2, <2>5, <2>8, <2>9, ListKeep
  <1>5. ASSUME NEW n \in Nodes, ListTold(n) PROVE ListInv'
    <2>1. rpc[n].step = "tell" /\ rpc[n].peers = {} /\ UNCHANGED <<todo, removing, adding>>
      BY <1>5 DEF ListTold, At, clientVars
    <2>2. RpcMoves(n, "hold", rpc[n].stack, rpc[n].peers)
      BY <1>5, ListMoves
    <2>3. Served(n).op = "rmdir" => \A m \in Nodes : Lists(n, m)
      BY <2>1 DEF Lists
    <2> QED
      BY <2>1, <2>2, <2>3, ListStays
  <1>6. ASSUME NEW n \in Nodes, Hold(n) PROVE ListInv'
    <2>1. rpc[n].step = "hold" /\ UNCHANGED <<todo, removing, adding>>
      BY <1>6 DEF Hold, At, clientVars
    <2>2. Served(n).op = "rmdir" => \A m \in Nodes : Lists(n, m)
      BY <2>1 DEF Lists
    <2>3. Served(n).op \in {"rmdir", "readdir"}
      BY <2>1, ServedOp
    <2>4. CASE Served(n).op = "rmdir"
      <3>1. dfs[Served(n).path] = "dir"
        BY <1>6, <2>4
      <3>2. RpcMoves(n, "walk", <<Frame(Served(n).path)>>, rpc[n].peers)
        BY <1>6, <2>4, <3>1, HoldMoves
      <3> QED
        BY <2>1, <2>2, <2>4, <3>2, ListStays
    <2>5. CASE Served(n).op = "readdir"
      <3>1. RpcMoves(n, "end", <<>>, rpc[n].peers)
        BY <1>6, <2>5, HoldMoves
      <3> QED
        BY <2>1, <2>5, <3>1, ListStays
    <2> QED
      BY <2>3, <2>4, <2>5
  <1>7. ASSUME NEW n \in Nodes, WalkRmdir(n) \/ \E p \in Paths : WalkDel(n, p) PROVE ListInv'
    <2>1. rpc[n].step = "walk" /\ UNCHANGED <<todo, removing, adding>>
      BY <1>7 DEF WalkRmdir, WalkDel, At, clientVars
    <2>2. PICK x, s : x \in {"unlist", "walk"} /\ RpcMoves(n, x, s, rpc[n].peers)
      BY <1>7, WalkMoves
    <2>3. Served(n).op = "rmdir" => \A m \in Nodes : Lists(n, m)
      BY <2>1 DEF Lists
    <2> QED
      BY <2>1, <2>2, <2>3, ListStays
  <1>8. ASSUME NEW n \in Nodes, End(n) PROVE ListInv'
    <2>1. /\ rpc[n].step = "end" /\ rpc'[n] = NoRpc /\ \A m \in Nodes : m # n => rpc'[m] = rpc[m]
          /\ UNCHANGED todo
      BY <1>8, EndStep
    <2>2. UNCHANGED <<removing, adding>>
      BY <1>8 DEF End
    <2>3. \A k \in Nodes : k # n => Served(k)' = Served(k)
      BY <2>1, ServedSame
    <2>4. rpc'[n].step = "recv"
      BY <2>1 DEF NoRpc
    <2>5. \A k \in Nodes, m \in Nodes : Lists(k, m)' <=> Lists(k, m)
      <3>1. \A k \in Nodes, m \in Nodes : k # n => (Lists(k, m)' <=> Lists(k, m))
        BY <2>1, <2>3 DEF Lists
      <3>2. \A m \in Nodes : ~Lists(n, m) /\ ~Lists(n, m)'
        BY <2>1, <2>4 DEF Lists
      <3> QED
        BY <3>1, <3>2
    <2>6. \A k \in Nodes : At(k, "listed")' => At(k, "listed") /\ rpc'[k].slot = rpc[k].slot
      BY <2>1, <2>4 DEF At
    <2> QED
      BY <2>1, <2>2, <2>3, <2>5, <2>6, ListKeep
  <1> QED
    BY <1>1, <1>2, <1>3, <1>4, <1>5, <1>6, <1>7, <1>8, ListOwn, ListPeer, NoRenameSteps
       DEF Next, Rpc

\* The lists are empty at the start.
LEMMA ListInit ==
    ASSUME Init
    PROVE  ListInv
  <1>1. \A n \in Nodes : rpc[n].step = "recv" /\ removing[n].count = 0 /\ adding[n] = Null
    BY DEF Init, NoRpc
  <1>2. \A n \in Nodes, m \in Nodes : ~Lists(n, m)
    BY <1>1 DEF Lists
  <1> QED
    BY <1>1, <1>2 DEF ListInv, At

\* A list of one directory is too short for the search of the commit threads.
LEMMA ListIsShort ==
    ASSUME ListInv
    PROVE  ListShort /\ \A n \in Nodes : removing[n].count \in 0 .. MaxRemoving
  <1>1. \A n \in Nodes : removing[n].count \in {0, 1}
    BY DEF ListInv
  <1>2. RootLen \in Nat /\ MaxRemoving \in Nat \ {0}
    BY ConstantsAssumption
  <1>3. ListShort
    BY <1>1, <1>2 DEF ListShort
  <1>4. \A n \in Nodes : removing[n].count \in 0 .. MaxRemoving
    BY <1>1, <1>2
  <1> QED
    BY <1>3, <1>4

\* One rmdir at a time: the invariant of the directories needs no assumption
\* on the lists, as a step keeps both.
THEOREM OneRemoverInvariant == Spec /\ []NotesFollowed /\ []OneRemover => [](IndInv /\ ListInv)
  <1>1. Init /\ NotesFollowed => IndInv /\ ListInv
    BY IndInit, ListInit
  <1>2. ASSUME IndInv, ListInv, NotesFollowed, NotesFollowed', OneRemover, OneRemover', [Next]_vars
        PROVE  IndInv' /\ ListInv'
    <2>1. IndInv'
      BY <1>2, IndNext, ListIsShort
    <2>2. /\ DirTypes /\ RpcInv /\ RoundInv /\ QueueInv /\ StoreInv /\ LoadsInv
          /\ KeptOut /\ OnDirectories /\ NoRenames /\ DirTypes' /\ RpcInv'
      BY <1>2, <2>1 DEF IndInv, NotesFollowed
    <2>3. \A n \in Nodes : Hold(n) /\ Served(n).op = "rmdir" => dfs[Served(n).path] = "dir"
      BY <2>2, HoldClear
    <2>4. CASE Next
      BY <1>2, <2>1, <2>2, <2>3, <2>4, ListNext
    <2>5. CASE UNCHANGED vars
      BY <1>2, <2>1, <2>2, <2>5, ListRest DEF vars, clientVars, serverVars
    <2> QED
      BY <1>2, <2>1, <2>4, <2>5
  <1>3. IndInv /\ ListInv /\ NotesFollowed /\ NotesFollowed' /\ OneRemover /\ OneRemover' /\ [Next]_vars
            => IndInv' /\ ListInv'
    BY <1>2
  <1> QED
    BY <1>1, <1>3, PTL DEF Spec

\* removing_dirs has one entry at most if directories are removed one at a time, and
\* the search in it never drops a commit.
THEOREM ListShortHolds == Spec /\ []NotesFollowed /\ []OneRemover => []ListShort
  <1>1. ListInv => ListShort
    BY ListIsShort
  <1> QED
    BY <1>1, OneRemoverInvariant, PTL

\* All of it from what the application promises: it follows the notes and removes
\* directories one at a time.
THEOREM OneRemoverSafe ==
    Spec /\ []NotesFollowed /\ []OneRemover => [](ServerAlive /\ VisibleTree /\ CommittedTree)
  <1>1. IndInv => ServerAlive /\ VisibleTree /\ CommittedTree
    BY IndImplies
  <1> QED
    BY <1>1, OneRemoverInvariant, PTL

\* The types, the count of operations and the bounds of removing_dirs: the count never
\* falls below zero and the list stays in its array.
THEOREM TypesHold == Spec /\ []NotesFollowed /\ []OneRemover => []TypeOK
  <1>1. ASSUME IndInv, ListInv PROVE TypeOK
    <2>1. DirTypes /\ RpcInv /\ LedgerInv
      BY <1>1 DEF IndInv
    <2>2. ops \in Nat
      BY <2>1, FS_CardinalityType DEF LedgerInv
    <2>3. \A n \in Nodes : removing[n].count \in 0 .. MaxRemoving
      BY <1>1, ListIsShort
    <2>4. \A n \in Nodes : rpc[n].client \in Clients \cup {Null} /\ rpc[n].peers \subseteq Peers(n)
      BY <2>1 DEF DirTypes, RpcInv
    <2> QED
      BY <2>1, <2>2, <2>3, <2>4 DEF DirTypes, TypeOK
  <1>2. IndInv /\ ListInv => TypeOK
    BY <1>1
  <1> QED
    BY <1>2, OneRemoverInvariant, PTL
=============================================================================
