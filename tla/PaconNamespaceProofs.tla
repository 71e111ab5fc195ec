------------------------ MODULE PaconNamespaceProofs ------------------------
(***************************************************************************)
(* Proofs about PaconNamespace, for every number of clients, nodes and     *)
(* paths and for every program within the stated conditions.               *)
(***************************************************************************)
EXTENDS PaconNamespace, TLAPS

-----------------------------------------------------------------------------
(* Types and cas values, whatever the programs do.                         *)

\* The client is between the dmkv_get_cas of the parent and its dmkv_cas.
HoldsParent(c) ==
    \/ pc[c] \in {"popen", "kids", "pcas"}
    \/ pc[c] \in {"lstat", "ladd"} /\ load[c].next = "kids"

\* What the steps of a call rely on.
CallOK(c) ==
    /\ pc[c] # "idle" => call[c] \in Call
    /\ pc[c] = "idle" => call[c] = NoCall
    /\ HoldsParent(c) \/ pc[c] = "rcas" => ent[c] \in Entry
    /\ pc[c] \in {"lstat", "ladd"} => load[c].next \in {"pget", "kids", "rget2"}
    /\ pc[c] = "ladd" => load[c].type \in Kind

\* A commit thread that works has a message of a client of its node.
ThreadOK(n) ==
    cpc[n] # "recv" => cur[n] \in Clients /\ NodeOf[cur[n]] = n /\ mq[cur[n]] # <<>>

\* A cas value that is current goes with a copy that is current.
CasOK(c) ==
    /\ HoldsParent(c) /\ token[c] = ParentOf(c) => kv[ParentOf(c)] = ent[c]
    /\ pc[c] = "rcas" /\ token[c] = Path(c) => kv[Path(c)] = ent[c]

BasicInv ==
    /\ TypeOK
    /\ \A c \in Clients : CallOK(c) /\ CasOK(c)
    /\ \A n \in Nodes : ThreadOK(n)

\* All clients and threads are idle at the start.
LEMMA BasicInit == ASSUME Init PROVE BasicInv
<1> USE ConstantsAssumption
<1>1. TypeOK
  BY DEF Init, TypeOK, LoadedEntry, Entry, Kind, NoCall, NoLoad, Steps
<1>2. \A c \in Clients : CallOK(c) /\ CasOK(c)
  BY DEF Init, CallOK, CasOK, HoldsParent
<1>3. \A n \in Nodes : ThreadOK(n)
  BY DEF Init, ThreadOK
<1> QED BY <1>1, <1>2, <1>3 DEF BasicInv

\* What a step of client c leaves to the other clients and the threads.
Alone(c) ==
    /\ \A d \in Clients \ {c} :
         /\ pc'[d] = pc[d] /\ call'[d] = call[d] /\ ent'[d] = ent[d] /\ load'[d] = load[d]
         /\ token'[d] \in {token[d], Null}
         /\ \A p \in Paths : token'[d] = p => kv'[p] = kv[p]
    /\ \A d \in Clients : mq[d] # <<>> => mq'[d] # <<>>
    /\ UNCHANGED <<cpc, cur>>

\* A step of one client leaves the invariant of the others.
LEMMA OthersKeep ==
    ASSUME BasicInv, NEW c \in Clients, Alone(c), TypeOK', CallOK(c)', CasOK(c)'
    PROVE  BasicInv'
<1>1. ASSUME NEW d \in Clients \ {c} PROVE CallOK(d)' /\ CasOK(d)'
  <2>1. CallOK(d) /\ CasOK(d) /\ d \in Clients
    BY DEF BasicInv
  <2>2. HoldsParent(d)' = HoldsParent(d) /\ Path(d)' = Path(d) /\ ParentOf(d)' = ParentOf(d)
    BY DEF Alone, HoldsParent, Path, ParentOf
  <2>3. CallOK(d)'
    BY <2>1, <2>2 DEF Alone, CallOK
  <2>4. pc[d] # "idle" => Path(d) \in Paths /\ ParentOf(d) \in Paths
    BY <2>1, ConstantsAssumption DEF CallOK, Call, Path, ParentOf
  <2>5. CasOK(d)'
    BY <2>1, <2>2, <2>4, ConstantsAssumption DEF Alone, CasOK, HoldsParent
  <2> QED BY <2>3, <2>5
<1>2. \A n \in Nodes : ThreadOK(n)'
  BY DEF BasicInv, Alone, ThreadOK
<1> QED BY <1>1, <1>2 DEF BasicInv
-----------------------------------------------------------------------------
(* A client's step writes one cell of each of its arrays.                  *)

LoadState == [path : Paths, type : Kind \cup {"none"}, next : Steps]

Cell(new, old, c, T) == new = old \/ \E x \in T : new = [old EXCEPT ![c] = x]

\* An array of which one cell is written with a value of its type keeps its type.
LEMMA CellType ==
    ASSUME NEW S, NEW T, NEW old \in [S -> T], NEW c \in S, NEW new, Cell(new, old, c, T)
    PROVE  new \in [S -> T]
  BY DEF Cell

LocalCells(c) ==
    /\ Cell(pc', pc, c, Steps) /\ Cell(call', call, c, Call \cup {NoCall})
    /\ Cell(ent', ent, c, Entry \cup {Null}) /\ Cell(kids', kids, c, SUBSET Paths)
    /\ Cell(load', load, c, LoadState)

Cells(c) ==
    /\ LocalCells(c)
    /\ Cell(dirtab', dirtab, c, SUBSET Paths)
    /\ Cell(prog', prog, c, Seq(Call)) /\ Cell(mq', mq, c, Seq(Message))
    /\ UNCHANGED <<dfs, cpc, cur>>

\* The end of a call, whatever it was.
LEMMA ReturnCells ==
    ASSUME NEW c \in Clients, Return(c)
    PROVE  LocalCells(c)
  BY ConstantsAssumption DEF Return, Go, Cell, LocalCells, Steps, LoadState, NoLoad

\* What a client relies on within a call.
LEMMA Within ==
    ASSUME BasicInv, NEW c \in Clients
    PROVE  /\ TypeOK /\ CallOK(c) /\ CasOK(c)
           /\ pc[c] # "idle" => Path(c) \in Paths \ {Root} /\ ParentOf(c) \in Paths
  BY ConstantsAssumption DEF BasicInv, CallOK, Call, Path, ParentOf

\* The common part of the two steps that look at the parent's entry.
LEMMA FoundCells ==
    ASSUME BasicInv, NEW c \in Clients, pc[c] # "idle", ParentFound(c, kv[ParentOf(c)])
    PROVE  /\ Cell(pc', pc, c, Steps) /\ Cell(call', call, c, Call \cup {NoCall})
           /\ Cell(ent', ent, c, Entry \cup {Null}) /\ Cell(dirtab', dirtab, c, SUBSET Paths)
           /\ Cell(token', token, c, Paths \cup {Null})
<1> USE Within DEF ParentFound, Cell
<1>1. Cell(pc', pc, c, Steps) /\ Cell(call', call, c, Call \cup {NoCall})
  BY DEF Go, Steps
<1>2. Cell(ent', ent, c, Entry \cup {Null}) /\ Cell(dirtab', dirtab, c, SUBSET Paths)
  BY DEF TypeOK, GetCas
<1>3. Cell(token', token, c, Paths \cup {Null})
  BY DEF GetCas
<1> QED BY <1>1, <1>2, <1>3

\* add_to_mq and the end of the call.
LEMMA QueueCells ==
    ASSUME BasicInv, NEW c \in Clients, pc[c] # "idle",
           NEW o \in {"MKDIR", "CREATE", "RM"}, Queue(c, o)
    PROVE  LocalCells(c) /\ Cell(mq', mq, c, Seq(Message)) /\ mq'[c] # <<>>
<1>1. [op |-> o, path |-> Path(c)] \in Message /\ mq[c] \in Seq(Message)
  BY Within DEF Message, TypeOK
<1>2. /\ Append(mq[c], [op |-> o, path |-> Path(c)]) \in Seq(Message)
      /\ Append(mq[c], [op |-> o, path |-> Path(c)]) # <<>>
  BY <1>1
<1>3. DOMAIN mq = Clients
  BY Within DEF TypeOK
<1> QED BY <1>2, <1>3, ReturnCells DEF Queue, Cell

\* What a step of a client writes is of the right type,
LEMMA ClientCells ==
    ASSUME BasicInv, NEW c \in Clients, Start(c) \/ ClientStep(c)
    PROVE  Cells(c)
<1> USE ConstantsAssumption, Within, ReturnCells
        DEF Go, GetCas, Load, local, Cells, LocalCells, Cell, TypeOK, Crash, clientVars
<1>1. CASE Start(c)
  <2>1. Head(prog[c]) \in Call /\ Tail(prog[c]) \in Seq(Call)
    BY <1>1 DEF Start
  <2>2. FirstStep(Head(prog[c]).op) \in Steps
    BY DEF FirstStep, Steps
  <2> QED BY <1>1, <2>1, <2>2 DEF Start
<1>2. CASE LoadStat(c)
  <2>1. CASE dfs[load[c].path] = "none"
    BY <1>2, <2>1 DEF LoadStat
  <2>2. CASE dfs[load[c].path] # "none"
    <3>1. load' = [load EXCEPT ![c] = [load[c] EXCEPT !.type = dfs[load[c].path]]]
      BY <1>2, <2>2 DEF LoadStat
    <3>2. load[c] \in LoadState /\ dfs[load[c].path] \in Kind \cup {"none"}
      BY DEF LoadState
    <3>3. [load[c] EXCEPT !.type = dfs[load[c].path]] \in LoadState
      BY <3>2 DEF LoadState
    <3> QED BY <1>2, <2>2, <3>1, <3>3 DEF LoadStat, Steps
  <2> QED BY <2>1, <2>2
<1>3. CASE LoadAdd(c)
  BY <1>3 DEF LoadAdd, CallOK, Steps, LoadState, NoLoad
<1>4. CASE ParentCheck(c)
  <2>1. Cell(load', load, c, LoadState)
    BY <1>4 DEF ParentCheck, LoadState, Steps
  <2>2. CASE ParentFound(c, kv[ParentOf(c)])
    BY <1>4, <2>1, <2>2, FoundCells DEF ParentCheck
  <2>3. CASE ~ParentFound(c, kv[ParentOf(c)])
    BY <1>4, <2>1, <2>3 DEF ParentCheck, Steps
  <2> QED BY <2>2, <2>3
<1>5. CASE ParentGet(c)
  <2>1. CASE ParentFound(c, kv[ParentOf(c)])
    BY <1>5, <2>1, FoundCells DEF ParentGet, Steps
  <2>2. CASE ~ParentFound(c, kv[ParentOf(c)])
    BY <1>5, <2>2 DEF ParentGet, Steps
  <2> QED BY <2>1, <2>2
<1>6. CASE ParentOpen(c) \/ ParentKids(c)
  BY <1>6 DEF ParentOpen, ParentKids, Steps, LoadState
<1>7. CASE ParentCas(c)
  <2>1. LocalCells(c)
    BY <1>7 DEF ParentCas, Steps
  <2>2. dirtab[c] \cup {ParentOf(c)} \in SUBSET Paths
    BY <1>7 DEF ParentCas
  <2>3. Cell(dirtab', dirtab, c, SUBSET Paths)
    BY <1>7, <2>2 DEF ParentCas
  <2> QED BY <1>7, <2>1, <2>3 DEF ParentCas
<1>8. CASE ParentReget(c)
  BY <1>8 DEF ParentReget, Steps
<1>9. CASE Add(c) \/ Exists(c) \/ Reset(c)
  BY <1>9 DEF Add, Exists, Reset, Steps
<1>10. CASE Send(c) \/ RmSend(c)
  BY <1>10, QueueCells DEF Send, RmSend
<1>11. CASE RmGet(c)
  BY <1>11 DEF RmGet, Steps, LoadState
<1>12. CASE RmReget(c) \/ RmCas(c)
  BY <1>12 DEF RmReget, RmCas, Steps
<1>13. CASE Getattr(c) \/ GetattrStat(c) \/ GetattrAdd(c)
  BY <1>13 DEF Getattr, GetattrStat, GetattrAdd, Steps
<1>14. CASE EvictStat(c) \/ EvictGet(c) \/ EvictDel(c)
  BY <1>14 DEF EvictStat, EvictGet, EvictDel, Steps
<1> QED BY <1>1, <1>2, <1>3, <1>4, <1>5, <1>6, <1>7, <1>8, <1>9, <1>10, <1>11, <1>12,
           <1>13, <1>14 DEF ClientStep, ParentStep

\* What the KV store does to an entry and to the cas values.
LEMMA WriteTypes ==
    ASSUME TypeOK, NEW p \in Paths, NEW e \in Entry \cup {Null}, Write(p, e) \/ AddIfAbsent(p, e)
    PROVE  /\ kv' \in [Paths -> Entry \cup {Null}]
           /\ token' \in [Clients -> Paths \cup {Null}]
<1>1. Write(p, e) \/ UNCHANGED <<kv, token>>
  BY DEF AddIfAbsent
<1>2. CASE Write(p, e)
  BY <1>2 DEF TypeOK, Write
<1> QED BY <1>1, <1>2 DEF TypeOK

\* Every entry that a client writes is well formed.
LEMMA ClientStore ==
    ASSUME BasicInv, NEW c \in Clients, Start(c) \/ ClientStep(c)
    PROVE  /\ kv' \in [Paths -> Entry \cup {Null}]
           /\ token' \in [Clients -> Paths \cup {Null}]
<1> USE Within
<1>1. CASE LoadAdd(c)
  <2>1. LoadedEntry(load[c].type) \in Entry /\ load[c].path \in Paths
    BY <1>1 DEF LoadAdd, CallOK, LoadedEntry, Entry, TypeOK
  <2> QED BY <1>1, <2>1, WriteTypes DEF LoadAdd
<1>2. CASE ParentCas(c)
  <2>1. pc[c] = "pcas" => [ent[c] EXCEPT !.checked = TRUE] \in Entry
    BY DEF CallOK, HoldsParent, Entry
  <2> QED BY <1>2, <2>1, WriteTypes DEF ParentCas, TypeOK
<1>3. CASE RmCas(c)
  <2>1. pc[c] = "rcas" => [ent[c] EXCEPT !.rm = TRUE] \in Entry
    BY DEF CallOK, Entry
  <2> QED BY <1>3, <2>1, WriteTypes DEF RmCas, TypeOK
<1>4. CASE Add(c) \/ Reset(c) \/ GetattrAdd(c) \/ EvictDel(c)
  <2>1. NewEntry(NewType(c)) \in Entry /\ AttrEntry \in Entry
    BY DEF NewEntry, NewType, AttrEntry, Entry, Kind
  <2> QED BY <1>4, <2>1, WriteTypes DEF Add, Reset, GetattrAdd, EvictDel
<1>5. CASE ParentCheck(c) \/ ParentGet(c)
  <2>1. kv' = kv /\ Cell(token', token, c, Paths \cup {Null})
    BY <1>5, FoundCells DEF ParentCheck, ParentGet, Cell
  <2> QED BY <2>1, CellType DEF TypeOK
<1>6. CASE ParentReget(c) \/ RmGet(c) \/ RmReget(c)
  <2>1. kv' = kv /\ Cell(token', token, c, Paths \cup {Null})
    BY <1>6 DEF ParentReget, RmGet, RmReget, GetCas, Cell
  <2> QED BY <2>1, CellType DEF TypeOK
<1>7. CASE \/ Start(c) \/ LoadStat(c) \/ ParentOpen(c) \/ ParentKids(c) \/ Exists(c)
           \/ Send(c) \/ RmSend(c) \/ Getattr(c) \/ GetattrStat(c) \/ EvictStat(c) \/ EvictGet(c)
  BY <1>7 DEF TypeOK, Start, LoadStat, ParentOpen, ParentKids, Exists, Send, RmSend, Getattr,
              GetattrStat, EvictStat, EvictGet
<1> QED BY <1>1, <1>2, <1>3, <1>4, <1>5, <1>6, <1>7 DEF ClientStep, ParentStep

\* ... and so is the state after it.
LEMMA ClientTypes ==
    ASSUME BasicInv, NEW c \in Clients, Start(c) \/ ClientStep(c)
    PROVE  TypeOK'
<1>1. TypeOK /\ Cells(c)
  BY ClientCells, Within
<1>2. /\ kv' \in [Paths -> Entry \cup {Null}]
      /\ token' \in [Clients -> Paths \cup {Null}]
  BY ClientStore
<1>3. /\ pc' \in [Clients -> Steps] /\ call' \in [Clients -> Call \cup {NoCall}]
      /\ ent' \in [Clients -> Entry \cup {Null}] /\ kids' \in [Clients -> SUBSET Paths]
      /\ load' \in [Clients -> LoadState] /\ dirtab' \in [Clients -> SUBSET Paths]
      /\ prog' \in [Clients -> Seq(Call)] /\ mq' \in [Clients -> Seq(Message)]
  BY <1>1, CellType DEF TypeOK, Cells, LocalCells, LoadState
<1> QED BY <1>1, <1>2, <1>3 DEF TypeOK, Cells, LoadState

\* load_to_pacon remembers what stat said.
LEMMA LoadStatCell ==
    ASSUME BasicInv, NEW c \in Clients, LoadStat(c), dfs[load[c].path] # "none"
    PROVE  /\ load'[c].path = load[c].path /\ load'[c].next = load[c].next
           /\ load'[c].type = dfs[load[c].path] /\ load[c].path \in Paths
<1>1. load[c] \in LoadState /\ load \in [Clients -> LoadState]
  BY DEF BasicInv, TypeOK, LoadState
<1>2. load' = [load EXCEPT ![c].type = dfs[load[c].path]]
  BY DEF LoadStat
<1> QED BY <1>1, <1>2 DEF LoadState

\* The client's own bookkeeping.
LEMMA ClientCall ==
    ASSUME BasicInv, NEW c \in Clients, Start(c) \/ ClientStep(c)
    PROVE  CallOK(c)'
<1> USE ConstantsAssumption, Within
        DEF Go, GetCas, Load, local, TypeOK, CallOK, HoldsParent, Return, Crash
<1>1. CASE Start(c)
  <2>1. Head(prog[c]) \in Call
    BY <1>1 DEF Start
  <2> QED BY <1>1, <2>1 DEF Start, FirstStep
<1>2. CASE LoadStat(c)
  <2>1. CASE dfs[load[c].path] = "none"
    BY <1>2, <2>1 DEF LoadStat
  <2>2. CASE dfs[load[c].path] # "none"
    <3>1. /\ pc[c] = "lstat" /\ pc'[c] = "ladd" /\ call'[c] = call[c]
          /\ UNCHANGED <<ent, kv, token>>
      BY <1>2, <2>2 DEF LoadStat
    <3>2. /\ load'[c].next = load[c].next /\ load'[c].type = dfs[load[c].path]
          /\ load[c].path \in Paths
      BY <1>2, <2>2, LoadStatCell
    <3> QED BY <2>2, <3>1, <3>2
  <2> QED BY <2>1, <2>2
<1>3. CASE LoadAdd(c)
  BY <1>3 DEF LoadAdd
<1>4. CASE ParentCheck(c) \/ ParentGet(c)
  BY <1>4 DEF ParentCheck, ParentGet, ParentFound
<1>5. CASE ParentOpen(c) \/ ParentKids(c) \/ ParentCas(c) \/ ParentReget(c)
  BY <1>5 DEF ParentOpen, ParentKids, ParentCas, ParentReget
<1>6. CASE Add(c) \/ Exists(c) \/ Reset(c) \/ Send(c)
  BY <1>6 DEF Add, Exists, Reset, Send, Queue
<1>7. CASE RmGet(c) \/ RmReget(c) \/ RmCas(c) \/ RmSend(c)
  BY <1>7 DEF RmGet, RmReget, RmCas, RmSend, Queue
<1>8. CASE \/ Getattr(c) \/ GetattrStat(c) \/ GetattrAdd(c)
           \/ EvictStat(c) \/ EvictGet(c) \/ EvictDel(c)
  BY <1>8 DEF Getattr, GetattrStat, GetattrAdd, EvictStat, EvictGet, EvictDel
<1> QED BY <1>1, <1>2, <1>3, <1>4, <1>5, <1>6, <1>7, <1>8 DEF ClientStep, ParentStep

\* The client's own cas value.
LEMMA ClientCas ==
    ASSUME BasicInv, NEW c \in Clients, Start(c) \/ ClientStep(c)
    PROVE  CasOK(c)'
<1> USE ConstantsAssumption, Within
        DEF Go, GetCas, Load, local, TypeOK, CallOK, CasOK, HoldsParent, Path, ParentOf,
            Return, Crash, Write, AddIfAbsent
<1>1. CASE Start(c)
  BY <1>1 DEF Start, FirstStep
<1>2. CASE LoadStat(c)
  <2>1. CASE dfs[load[c].path] = "none"
    BY <1>2, <2>1 DEF LoadStat
  <2>2. CASE dfs[load[c].path] # "none"
    <3>1. /\ pc[c] = "lstat" /\ pc'[c] = "ladd" /\ call'[c] = call[c]
          /\ UNCHANGED <<ent, kv, token>>
      BY <1>2, <2>2 DEF LoadStat
    <3>2. /\ load'[c].next = load[c].next /\ load'[c].type = dfs[load[c].path]
          /\ load[c].path \in Paths
      BY <1>2, <2>2, LoadStatCell
    <3> QED BY <2>2, <3>1, <3>2
  <2> QED BY <2>1, <2>2
<1>8. CASE LoadAdd(c)
  <2>1. HoldsParent(c)' => HoldsParent(c) /\ pc[c] # "idle"
    BY <1>8 DEF LoadAdd
  <2>2. pc'[c] # "rcas" /\ call'[c] = call[c] /\ ent'[c] = ent[c]
    BY <1>8 DEF LoadAdd
  <2>3. ASSUME NEW p \in Paths, token'[c] = p PROVE token[c] = p /\ kv'[p] = kv[p]
    BY <1>8, <2>3 DEF LoadAdd
  <2> QED BY <2>1, <2>2, <2>3
<1>3. CASE ParentCheck(c)
  BY <1>3 DEF ParentCheck, ParentFound
<1>9. CASE ParentGet(c)
  BY <1>9 DEF ParentGet, ParentFound
<1>4. CASE ParentOpen(c) \/ ParentKids(c) \/ ParentCas(c) \/ ParentReget(c)
  BY <1>4 DEF ParentOpen, ParentKids, ParentCas, ParentReget
<1>5. CASE Add(c) \/ Exists(c) \/ Reset(c) \/ Send(c)
  BY <1>5 DEF Add, Exists, Reset, Send, Queue
<1>6. CASE RmGet(c) \/ RmReget(c) \/ RmCas(c) \/ RmSend(c)
  BY <1>6 DEF RmGet, RmReget, RmCas, RmSend, Queue
<1>7. CASE \/ Getattr(c) \/ GetattrStat(c) \/ GetattrAdd(c)
           \/ EvictStat(c) \/ EvictGet(c) \/ EvictDel(c)
  BY <1>7 DEF Getattr, GetattrStat, GetattrAdd, EvictStat, EvictGet, EvictDel
<1> QED BY <1>1, <1>2, <1>8, <1>9, <1>3, <1>4, <1>5, <1>6, <1>7 DEF ClientStep, ParentStep

\* The other clients and the commit threads.
LEMMA ClientAlone ==
    ASSUME BasicInv, NEW c \in Clients, Start(c) \/ ClientStep(c)
    PROVE  Alone(c)
<1>1. TypeOK /\ Cells(c)
  BY ClientCells, Within
<1>2. \A d \in Clients \ {c} : /\ pc'[d] = pc[d] /\ call'[d] = call[d]
                              /\ ent'[d] = ent[d] /\ load'[d] = load[d]
  BY <1>1 DEF Cells, LocalCells, Cell, TypeOK
<1>3. \A d \in Clients \ {c} : /\ token'[d] \in {token[d], Null}
                              /\ \A p \in Paths : token'[d] = p => kv'[p] = kv[p]
  <2> USE <1>1, ConstantsAssumption, Within DEF TypeOK, Write, AddIfAbsent, GetCas
  <2>1. CASE LoadAdd(c)
    BY <2>1 DEF LoadAdd
  <2>2. CASE ParentCheck(c) \/ ParentGet(c) \/ ParentReget(c) \/ RmGet(c) \/ RmReget(c)
    BY <2>2 DEF ParentCheck, ParentGet, ParentReget, RmGet, RmReget, ParentFound
  <2>3. CASE ParentCas(c) \/ RmCas(c)
    BY <2>3 DEF ParentCas, RmCas
  <2>4. CASE Add(c) \/ Reset(c) \/ GetattrAdd(c) \/ EvictDel(c)
    BY <2>4 DEF Add, Reset, GetattrAdd, EvictDel
  <2>5. CASE \/ Start(c) \/ LoadStat(c) \/ ParentOpen(c) \/ ParentKids(c) \/ Exists(c)
             \/ Send(c) \/ RmSend(c) \/ Getattr(c) \/ GetattrStat(c) \/ EvictStat(c) \/ EvictGet(c)
    BY <2>5 DEF Start, LoadStat, ParentOpen, ParentKids, Exists, Send, RmSend, Getattr,
                GetattrStat, EvictStat, EvictGet
  <2> QED BY <2>1, <2>2, <2>3, <2>4, <2>5 DEF ClientStep, ParentStep
<1>4. \A d \in Clients : mq[d] # <<>> => mq'[d] # <<>>
  <2>1. CASE Send(c) \/ RmSend(c)
    BY <2>1, <1>1, QueueCells, Within DEF Send, RmSend, Cell, TypeOK
  <2>2. CASE ~(Send(c) \/ RmSend(c))
    BY <2>2 DEF Start, ClientStep, ParentStep, LoadStat, LoadAdd, ParentCheck, ParentGet,
                ParentOpen, ParentKids, ParentCas, ParentReget, Add, Exists, Reset, RmGet, RmReget,
                RmCas, Getattr, GetattrStat, GetattrAdd, EvictStat, EvictGet, EvictDel
  <2> QED BY <2>1, <2>2
<1> QED BY <1>1, <1>2, <1>3, <1>4 DEF Alone, Cells

\* Every step of a client.
LEMMA BasicClient ==
    ASSUME BasicInv, NEW c \in Clients, Start(c) \/ ClientStep(c)
    PROVE  BasicInv'
  BY ClientTypes, ClientCall, ClientCas, ClientAlone, OthersKeep

-----------------------------------------------------------------------------
(* The commit threads.                                                     *)

\* What a thread that works has in hand.
LEMMA Busy ==
    ASSUME BasicInv, NEW n \in Nodes, cpc[n] # "recv"
    PROVE  /\ cur[n] \in Clients /\ NodeOf[cur[n]] = n /\ mq[cur[n]] # <<>>
           /\ Msg(n) \in Message /\ Tail(mq[cur[n]]) \in Seq(Message)
  BY DEF BasicInv, ThreadOK, TypeOK, Msg

\* Only the thread of its node takes messages out of a client's queue.
LEMMA DoneKeeps ==
    ASSUME BasicInv, NEW n \in Nodes, cpc[n] # "recv", CommitDone(n)
    PROVE  /\ mq' \in [Clients -> Seq(Message)] /\ cur' \in [Nodes -> Clients \cup {Null}]
           /\ cpc' \in [Nodes -> {"recv", "try", "get", "remove", "del"}]
           /\ \A m \in Nodes : ThreadOK(m)'
<1>1. \A m \in Nodes \ {n} : cpc[m] # "recv" => cur[m] # cur[n]
  BY Busy
<1> QED BY <1>1, Busy DEF CommitDone, BasicInv, TypeOK, ThreadOK

\* Every step of a commit thread.
LEMMA BasicCommit ==
    ASSUME BasicInv, NEW n \in Nodes, CommitStep(n) \/ \E c \in Clients : CommitRecv(n, c)
    PROVE  BasicInv'
<1> USE Busy DEF clientVars
<1>1. CASE \E c \in Clients : CommitRecv(n, c)
  <2>1. PICK c \in Clients : CommitRecv(n, c)
    BY <1>1
  <2>2. TypeOK' /\ \A m \in Nodes : ThreadOK(m)'
    BY <2>1 DEF BasicInv, CommitRecv, TypeOK, ThreadOK
  <2> QED BY <2>1, <2>2 DEF CommitRecv, BasicInv, CallOK, CasOK, HoldsParent, Path, ParentOf
<1>2. CASE CommitMkdir(n) \/ CommitCreate(n)
  <2>1. TypeOK' /\ \A m \in Nodes : ThreadOK(m)'
    <3>1. \E t \in Kind : dfs' = [dfs EXCEPT ![Msg(n).path] = t]
      BY <1>2 DEF CommitMkdir, CommitCreate, Kind
    <3>2. dfs' \in [Paths -> Kind \cup {"none"}]
      BY <3>1 DEF BasicInv, TypeOK
    <3>3. cpc[n] # "recv" /\ CommitDone(n) /\ UNCHANGED <<kv, token, clientVars>>
      BY <1>2 DEF CommitMkdir, CommitCreate
    <3> QED BY <3>2, <3>3, DoneKeeps DEF BasicInv, TypeOK
  <2> QED BY <1>2, <2>1 DEF CommitMkdir, CommitCreate, BasicInv, CallOK, CasOK, HoldsParent, Path, ParentOf
<1>3. CASE CommitRmGet(n)
  <2>1. TypeOK' /\ \A m \in Nodes : ThreadOK(m)'
    <3>1. CASE CommitDone(n)
      BY <1>3, <3>1, DoneKeeps DEF BasicInv, CommitRmGet, TypeOK
    <3>2. CASE UNCHANGED <<mq, cur>> /\ cpc' = [cpc EXCEPT ![n] = "remove"]
      BY <1>3, <3>2 DEF BasicInv, CommitRmGet, TypeOK, ThreadOK
    <3> QED BY <1>3, <3>1, <3>2 DEF CommitRmGet
  <2> QED BY <1>3, <2>1 DEF CommitRmGet, BasicInv, CallOK, CasOK, HoldsParent, Path, ParentOf
<1>4. CASE CommitRemove(n)
  <2>1. TypeOK' /\ \A m \in Nodes : ThreadOK(m)'
    BY <1>4 DEF BasicInv, CommitRemove, TypeOK, ThreadOK
  <2> QED BY <1>4, <2>1 DEF CommitRemove, BasicInv, CallOK, CasOK, HoldsParent, Path, ParentOf
<1>5. CASE CommitRmDel(n)
  <2>1. Msg(n).path \in Paths
    BY <1>5 DEF CommitRmDel, Message
  <2>2. TypeOK' /\ \A m \in Nodes : ThreadOK(m)'
    BY <1>5, <2>1, DoneKeeps, WriteTypes DEF BasicInv, CommitRmDel, TypeOK
  <2>3. ASSUME NEW c \in Clients PROVE CallOK(c)' /\ CasOK(c)'
    <3>1. CallOK(c)'
      BY <1>5 DEF CommitRmDel, BasicInv, CallOK, HoldsParent
    <3>2. \A p \in Paths : token'[c] = p => token[c] = p /\ kv'[p] = kv[p]
      BY <1>5, <2>1, ConstantsAssumption DEF CommitRmDel, BasicInv, TypeOK, Write
    <3>3. CasOK(c)'
      BY <1>5, <3>2, Within DEF CommitRmDel, CasOK, HoldsParent, Path, ParentOf
    <3> QED BY <3>1, <3>3
  <2> QED BY <2>2, <2>3 DEF BasicInv
<1> QED BY <1>1, <1>2, <1>3, <1>4, <1>5 DEF CommitStep

\* Every step keeps the invariant.
LEMMA BasicStep == ASSUME BasicInv, [Next]_vars PROVE BasicInv'
<1>1. CASE Next
  BY <1>1, BasicClient, BasicCommit DEF Next
<1>2. CASE UNCHANGED vars
  BY <1>2 DEF vars, clientVars, BasicInv, TypeOK, CallOK, CasOK, HoldsParent, ThreadOK, Path, ParentOf
<1> QED BY <1>1, <1>2

\* The invariant from which the theorems below follow, for every program.
THEOREM BasicInvariant == Spec => []BasicInv
  BY BasicInit, BasicStep, PTL DEF Spec

\* Every variable keeps its type: in particular every entry that is read, made,
\* loaded or written back is well formed, and every message has a path.
THEOREM NamespaceTypes == Spec => []TypeOK
<1>1. BasicInv => TypeOK
  BY DEF BasicInv
<1> QED BY <1>1, BasicInvariant, PTL

\* dmkv_cas never brings back an old entry: whatever cas loops, loads, lookups,
\* evictions and removals of other clients run at once, the type of an entry is
\* fixed and its flags stay set until it is deleted or a creation takes the
\* place of a removed entry (check_parent_dir, pacon_rm, load_to_pacon).
THEOREM FlagsNeverLost == Spec => FlagsSurvive
<1> DEFINE Kept(p) ==
       kv[p] # Null /\ kv'[p] # Null /\ kv'[p] # kv[p] =>
            \/ /\ kv'[p].type = kv[p].type /\ kv'[p].existed = kv[p].existed
               /\ kv[p].rm => kv'[p].rm
               /\ kv[p].checked => kv'[p].checked
            \/ \E c \in Clients : pc[c] = "reset" /\ Path(c) = p
<1>1. ASSUME BasicInv, NEW c \in Clients, Start(c) \/ ClientStep(c), NEW p \in Paths
      PROVE  Kept(p)
  <2> USE <1>1, Within DEF TypeOK, Write, AddIfAbsent
  <2>1. CASE LoadAdd(c) \/ Add(c) \/ GetattrAdd(c) \/ EvictDel(c)
    BY <2>1 DEF LoadAdd, Add, GetattrAdd, EvictDel
  <2>2. CASE Reset(c)
    BY <2>2 DEF Reset
  <2>3. CASE ParentCas(c)
    <3>1. CASE kv' = kv
      BY <3>1
    <3>2. CASE kv' # kv
      <4>1. /\ kv' = [kv EXCEPT ![ParentOf(c)] = [ent[c] EXCEPT !.checked = TRUE]]
            /\ kv[ParentOf(c)] = ent[c] /\ ent[c] \in Entry
        BY <2>3, <3>2 DEF ParentCas, CasOK, CallOK, HoldsParent
      <4> QED BY <4>1 DEF Entry
    <3> QED BY <3>1, <3>2
  <2>4. CASE RmCas(c)
    <3>1. CASE kv' = kv
      BY <3>1
    <3>2. CASE kv' # kv
      <4>1. /\ kv' = [kv EXCEPT ![Path(c)] = [ent[c] EXCEPT !.rm = TRUE]]
            /\ kv[Path(c)] = ent[c] /\ ent[c] \in Entry
        BY <2>4, <3>2 DEF RmCas, CasOK, CallOK
      <4> QED BY <4>1 DEF Entry
    <3> QED BY <3>1, <3>2
  <2>5. CASE kv' = kv
    BY <2>5
  <2> QED
    BY <2>1, <2>2, <2>3, <2>4, <2>5
    DEF Start, ClientStep, ParentStep, LoadStat, ParentCheck, ParentGet, ParentOpen, ParentKids,
        ParentReget, Exists, Send, RmGet, RmReget, RmSend, Getattr, GetattrStat, EvictStat, EvictGet
<1>2. ASSUME BasicInv, NEW n \in Nodes, NEW p \in Paths,
             CommitStep(n) \/ \E c \in Clients : CommitRecv(n, c)
      PROVE  Kept(p)
  <2>1. CASE CommitRmDel(n)
    BY <1>2, <2>1 DEF CommitRmDel, Write, BasicInv, TypeOK
  <2>2. CASE kv' = kv
    BY <2>2
  <2> QED BY <1>2, <2>1, <2>2 DEF CommitStep, CommitMkdir, CommitCreate, CommitRmGet, CommitRemove, CommitRecv
<1>3. BasicInv /\ [Next]_vars => [\A p \in Paths : Kept(p)]_vars
  BY <1>1, <1>2 DEF Next
<1> QED BY <1>3, BasicInvariant, PTL DEF Spec, FlagsSurvive
=============================================================================
