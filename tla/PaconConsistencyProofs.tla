----------------------- MODULE PaconConsistencyProofs -----------------------
(***************************************************************************)
(* The two consistency promises of a region, proved for every number of    *)
(* clients, nodes and paths: inside the region clients see one namespace   *)
(* that each call changes at once, and once the queues are committed the   *)
(* DFS holds that namespace.  The programs make, create and look up; what  *)
(* rm, eviction and create_write do to these promises is shown by the      *)
(* runs of PaconNamespace.                                                 *)
(***************************************************************************)
EXTENDS PaconNamespaceProofs

\* The applications only call pacon_mkdir, pacon_create and pacon_getattr, the
\* last one for names that the DFS did not hold before Pacon started: for the
\* others pacon_getattr makes an entry that says "directory, not in the DFS".
CreateOnly ==
    \A s \in Setups : \A c \in Clients : \A i \in DOMAIN s.prog[c] :
        /\ s.prog[c][i].op \in {"mkdir", "create", "getattr"}
        /\ s.prog[c][i].op = "getattr" => s.dfs[s.prog[c][i].path] = "none"

-----------------------------------------------------------------------------
(* The invariant.                                                          *)

\* The steps of the three calls that are reached.
MakeSteps == {"parent", "lstat", "ladd", "pget", "popen", "kids", "pcas", "preget", "add",
              "exists", "send"}
LookSteps == {"get", "gstat", "gadd"}

\* A name that is looked up and is in the DFS is cached.
LookupOK(k) == k.op = "getattr" /\ dfs[k.path] # "none" => kv[k.path] # Null

\* A cached directory.
DirEntry(p) == kv[p] # Null /\ kv[p].type = "dir"

\* Between opendir and the cas of the parent, a child that is still to be loaded.
Listing(c) == pc[c] \in {"kids", "pcas", "preget"} \/ (pc[c] \in {"lstat", "ladd"} /\ load[c].next = "kids")
Listed(c, p) == \/ pc[c] \in {"kids", "lstat", "ladd"} /\ p \in kids[c]
                \/ pc[c] \in {"lstat", "ladd"} /\ p = load[c].path

ProgramOK(c) ==
    \A i \in DOMAIN prog[c] : /\ prog[c][i].op \in {"mkdir", "create", "getattr"}
                              /\ LookupOK(prog[c][i])

\* The call that a client makes, step by step.
StepOK(c) ==
    /\ pc[c] \in {"idle"} \cup MakeSteps \cup LookSteps
    /\ pc[c] \in MakeSteps => call[c].op \in {"mkdir", "create"}
    /\ pc[c] \in LookSteps => call[c].op = "getattr" /\ LookupOK(call[c])
    /\ pc[c] = "gadd" => dfs[Path(c)] # "none"
    /\ pc[c] \in {"lstat", "ladd"} =>
          load[c].next = "kids" \/ (load[c].next = "pget" /\ load[c].path = ParentOf(c))
    /\ pc[c] = "ladd" => load[c].type = dfs[load[c].path]
    /\ pc[c] = "pget" => kv[ParentOf(c)] # Null
    /\ HoldsParent(c) \/ pc[c] = "preget" => DirEntry(ParentOf(c)) /\ kv[ParentOf(c)].existed
    /\ pc[c] = "add" => ParentOf(c) \in dirtab[c]

\* The children that check_parent_dir has still to load are all on its list.
ListOK(c) ==
    Listing(c) =>
        \A p \in Paths \ {Root} :
            Parent[p] = ParentOf(c) /\ dfs[p] # "none" /\ kv[p] = Null => Listed(c, p)

TableOK(c) == \A p \in dirtab[c] : DirEntry(p)

\* The bound on the calls of a client bounds its queue.
QueueOK(c) ==
    /\ Len(mq[c]) + Len(prog[c]) <= MaxOps
    /\ pc[c] # "idle" => Len(mq[c]) + Len(prog[c]) < MaxOps
    /\ \A i \in DOMAIN mq[c] : mq[c][i].op # "RM"

ClientOK(c) == ProgramOK(c) /\ StepOK(c) /\ ListOK(c) /\ TableOK(c) /\ QueueOK(c)

\* A cached entry is live; it was loaded from the DFS or its creation is to come.
EntryOK(p) ==
    kv[p] # Null =>
        /\ ~kv[p].rm
        /\ kv[p].existed => dfs[p] = kv[p].type
        /\ dfs[p] = kv[p].type \/ \E s \in Slots : Creation(s, p)

\* The DFS is a tree, and a child that is not cached keeps its parent from
\* being taken as checked.
ChildOK(p) ==
    dfs[p] # "none" =>
        /\ dfs[Parent[p]] = "dir"
        /\ kv[p] = Null =>
             /\ \A c \in Clients : Parent[p] \notin dirtab[c]
             /\ kv[Parent[p]] # Null => kv[Parent[p]].existed /\ ~kv[Parent[p]].checked

\* The type of the entry that a slot stands for.
CreationType(s) ==
    IF s[2] \in DOMAIN mq[s[1]] THEN IF mq[s[1]][s[2]].op = "MKDIR" THEN "dir" ELSE "file"
                                ELSE NewType(s[1])

CreationOK(s, p) ==
    Creation(s, p) =>
        /\ p # Root /\ dfs[p] = "none"
        /\ kv[p] # Null /\ kv[p].type = CreationType(s)
        /\ DirEntry(Parent[p])
        /\ \A t \in Slots : Creation(t, p) => s = t

CreateInv ==
    /\ \A c \in Clients : ClientOK(c)
    /\ \A p \in Paths : EntryOK(p)
    /\ \A p \in Paths \ {Root} : ChildOK(p)
    /\ \A s \in Slots, p \in Paths : CreationOK(s, p)
    /\ \A n \in Nodes : cpc[n] \in {"recv", "try"}

\* Only the root is cached at the start, and nothing is on its way.
LEMMA CreateInit == ASSUME CreateOnly, Init PROVE CreateInv
<1> USE ConstantsAssumption
<1>1. PICK s \in Setups : /\ dfs = s.dfs /\ prog = s.prog
                          /\ dirtab = [c \in Clients |-> IF s.empty THEN {Root} ELSE {}]
  BY DEF Init
<1>2. kv[Root] = LoadedEntry("dir") /\ dfs[Root] = "dir"
  BY <1>1 DEF Init
<1>3. ASSUME NEW c \in Clients PROVE ClientOK(c)
  <2>1. ProgramOK(c)
    BY <1>1 DEF CreateOnly, ProgramOK, LookupOK
  <2>2. StepOK(c) /\ ListOK(c)
    BY DEF Init, StepOK, ListOK, Listing, HoldsParent, MakeSteps, LookSteps
  <2>3. TableOK(c)
    <3>1. \A p \in dirtab[c] : p = Root
      BY <1>1
    <3>2. LoadedEntry("dir") \in Entry /\ LoadedEntry("dir").type = "dir"
      BY DEF LoadedEntry, Entry, Kind
    <3>3. kv[Root].type = "dir" /\ kv[Root] # Null
      BY <1>2, <3>2
    <3> QED BY <3>1, <3>3 DEF TableOK, DirEntry
  <2>4. mq[c] = <<>> /\ pc[c] = "idle" /\ Len(prog[c]) <= MaxOps /\ prog[c] \in Seq(Call)
    BY <1>1 DEF Init
  <2>5. QueueOK(c)
    BY <2>4 DEF QueueOK
  <2> QED BY <2>1, <2>2, <2>3, <2>5 DEF ClientOK
<1>4. ASSUME NEW p \in Paths PROVE EntryOK(p)
  BY <1>2 DEF Init, EntryOK, LoadedEntry
<1>5. ASSUME NEW p \in Paths \ {Root} PROVE ChildOK(p)
  <2>1. dfs[p] # "none" => dfs[Parent[p]] = "dir" /\ dirtab = [c \in Clients |-> {}]
    BY <1>1
  <2>2. kv[Parent[p]] # Null => kv[Parent[p]].existed /\ ~kv[Parent[p]].checked
    BY DEF Init, LoadedEntry
  <2> QED BY <2>1, <2>2 DEF ChildOK
<1>6. ASSUME NEW t \in Slots, NEW p \in Paths PROVE CreationOK(t, p)
  BY DEF Init, CreationOK, Creation, Slots
<1> QED BY <1>3, <1>4, <1>5, <1>6 DEF Init, CreateInv

-----------------------------------------------------------------------------
(* What the steps of a client have in common.                              *)

\* Entries are added and marked as checked; nothing else happens to them.
Grows ==
    \A p \in Paths :
        kv[p] # Null => /\ kv'[p] # Null /\ kv'[p].type = kv[p].type
                        /\ kv'[p].existed = kv[p].existed /\ kv'[p].rm = kv[p].rm

\* The other clients keep what they have.
Others(c) ==
    \A d \in Clients \ {c} :
        /\ pc'[d] = pc[d] /\ call'[d] = call[d] /\ ent'[d] = ent[d] /\ load'[d] = load[d]
        /\ kids'[d] = kids[d] /\ dirtab'[d] = dirtab[d] /\ prog'[d] = prog[d] /\ mq'[d] = mq[d]

\* The creations to come, and their types, are the same.
SameCreations ==
    \A s \in Slots, p \in Paths :
        /\ Creation(s, p)' <=> Creation(s, p)
        /\ Creation(s, p) => CreationType(s)' = CreationType(s)

\* The steps that are reached.
LEMMA Reached ==
    ASSUME CreateInv, NEW c \in Clients, ClientStep(c)
    PROVE  \/ LoadStat(c) \/ LoadAdd(c) \/ ParentStep(c) \/ Add(c) \/ Exists(c) \/ Send(c)
           \/ Getattr(c) \/ GetattrStat(c) \/ GetattrAdd(c)
  BY DEF CreateInv, ClientOK, StepOK, ClientStep, MakeSteps, LookSteps, Reset, RmGet, RmReget,
         RmCas, RmSend, EvictStat, EvictGet, EvictDel

\* A client changes its own variables and the KV store.
LEMMA ClientOthers ==
    ASSUME BasicInv, NEW c \in Clients, Start(c) \/ ClientStep(c)
    PROVE  Others(c) /\ UNCHANGED <<dfs, cpc, cur>>
<1>1. TypeOK /\ Cells(c)
  BY ClientCells, Within
<1>2. ASSUME NEW d \in Clients \ {c}
      PROVE  /\ pc'[d] = pc[d] /\ call'[d] = call[d] /\ ent'[d] = ent[d] /\ load'[d] = load[d]
             /\ kids'[d] = kids[d]
  BY <1>1 DEF Cells, LocalCells, Cell, TypeOK
<1>3. ASSUME NEW d \in Clients \ {c}
      PROVE  dirtab'[d] = dirtab[d] /\ prog'[d] = prog[d] /\ mq'[d] = mq[d]
  BY <1>1 DEF Cells, Cell, TypeOK
<1> QED BY <1>1, <1>2, <1>3 DEF Others, Cells

\* No step of a client removes an entry or changes its type.
LEMMA ClientGrows ==
    ASSUME BasicInv, CreateInv, NEW c \in Clients, Start(c) \/ ClientStep(c)
    PROVE  Grows
<1> USE Within DEF TypeOK, Grows
<1>1. CASE LoadAdd(c) \/ Add(c) \/ GetattrAdd(c)
  BY <1>1 DEF LoadAdd, Add, GetattrAdd, AddIfAbsent, Write
<1>2. CASE ParentCas(c)
  <2>1. CASE kv' = kv
    BY <2>1
  <2>2. CASE kv' # kv
    <3>1. /\ kv' = [kv EXCEPT ![ParentOf(c)] = [ent[c] EXCEPT !.checked = TRUE]]
          /\ kv[ParentOf(c)] = ent[c] /\ ent[c] \in Entry
          /\ [ent[c] EXCEPT !.checked = TRUE] # Null
      BY <1>2, <2>2, ConstantsAssumption DEF ParentCas, CasOK, CallOK, HoldsParent, Write, Entry
    <3> QED BY <3>1 DEF Entry
  <2> QED BY <2>1, <2>2
<1>3. CASE kv' = kv
  BY <1>3
<1> QED
  BY <1>1, <1>2, <1>3, Reached
  DEF Start, ParentStep, LoadStat, ParentCheck, ParentGet, ParentOpen, ParentKids, ParentReget,
      Exists, Send, Getattr, GetattrStat

\* The other clients' part of the invariant.
LEMMA OthersOK ==
    ASSUME BasicInv, CreateInv, NEW c \in Clients, Start(c) \/ ClientStep(c),
           NEW d \in Clients \ {c}
    PROVE  ClientOK(d)'
<1>1. /\ pc'[d] = pc[d] /\ call'[d] = call[d] /\ ent'[d] = ent[d] /\ load'[d] = load[d]
      /\ kids'[d] = kids[d] /\ dirtab'[d] = dirtab[d] /\ prog'[d] = prog[d] /\ mq'[d] = mq[d]
      /\ dfs' = dfs
  BY ClientOthers DEF Others
<1>2. Grows /\ TypeOK /\ TypeOK' /\ CallOK(d) /\ ClientOK(d) /\ d \in Clients
  BY ClientGrows, ClientTypes, Within DEF CreateInv
<1>3. pc[d] # "idle" => Path(d) \in Paths /\ ParentOf(d) \in Paths
  BY Within
<1>4. Path(d)' = Path(d) /\ ParentOf(d)' = ParentOf(d) /\ HoldsParent(d)' = HoldsParent(d)
  BY <1>1 DEF Path, ParentOf, HoldsParent
<1>5. \A p \in Paths : DirEntry(p) => DirEntry(p)'
  BY <1>2 DEF Grows, DirEntry
<1>6. \A k \in Call : LookupOK(k) => LookupOK(k)'
  BY <1>1, <1>2 DEF Grows, LookupOK, Call
<1>7. ProgramOK(d)'
  <2>1. \A i \in DOMAIN prog[d] : prog[d][i] \in Call
    BY <1>2 DEF TypeOK
  <2> QED BY <1>1, <1>2, <1>6, <2>1 DEF ClientOK, ProgramOK
<1>8. StepOK(d)'
  <2>1. pc[d] # "idle" => call[d] \in Call
    BY <1>2 DEF CallOK
  <2>2. pc[d] \in LookSteps => LookupOK(call[d])'
    BY <1>1, <1>2, <1>6, <2>1 DEF ClientOK, StepOK, LookSteps
  <2>3. HoldsParent(d) \/ pc[d] = "preget" => DirEntry(ParentOf(d))' /\ kv'[ParentOf(d)].existed
    <3> SUFFICES ASSUME HoldsParent(d) \/ pc[d] = "preget"
                 PROVE  DirEntry(ParentOf(d))' /\ kv'[ParentOf(d)].existed
      OBVIOUS
    <3>1. DirEntry(ParentOf(d)) /\ kv[ParentOf(d)].existed
      BY <1>2 DEF ClientOK, StepOK
    <3>2. ParentOf(d) \in Paths
      BY <1>3 DEF HoldsParent
    <3> QED BY <1>2, <1>4, <3>1, <3>2 DEF Grows, DirEntry
  <2>4. pc[d] = "pget" => kv'[ParentOf(d)] # Null
    BY <1>2, <1>3 DEF ClientOK, StepOK, Grows
  <2> QED BY <1>1, <1>2, <1>4, <2>2, <2>3, <2>4 DEF ClientOK, StepOK, LookupOK, DirEntry
<1>9. ListOK(d)'
  <2>1. Listing(d)' = Listing(d) /\ \A p \in Paths : Listed(d, p)' = Listed(d, p)
    BY <1>1 DEF Listing, Listed
  <2> QED BY <1>1, <1>2, <1>4, <2>1 DEF ClientOK, ListOK, Grows
<1>10. TableOK(d)'
  <2>1. dirtab[d] \subseteq Paths
    BY <1>2 DEF TypeOK
  <2> QED BY <1>1, <1>2, <1>5, <2>1 DEF ClientOK, TableOK
<1>11. QueueOK(d)'
  BY <1>1, <1>2 DEF ClientOK, QueueOK
<1> QED BY <1>7, <1>8, <1>9, <1>10, <1>11 DEF ClientOK

\* Entries, children and creations after a step that loads an entry, marks one
\* as checked or extends a table.
LEMMA GlobalKeeps ==
    ASSUME BasicInv, CreateInv, TypeOK', Grows, SameCreations, UNCHANGED <<dfs, cpc>>,
           \A p \in Paths : kv[p] = Null /\ kv'[p] # Null =>
                /\ ~kv'[p].rm /\ kv'[p].existed /\ ~kv'[p].checked
                /\ dfs[p] = kv'[p].type,
           \A p \in Paths \ {Root} : dfs[p] # "none" /\ kv'[p] = Null =>
                /\ \A d \in Clients : Parent[p] \notin dirtab'[d]
                /\ kv[Parent[p]] # Null => kv'[Parent[p]].checked = kv[Parent[p]].checked
    PROVE  /\ \A p \in Paths : EntryOK(p)'
           /\ \A p \in Paths \ {Root} : ChildOK(p)'
           /\ \A s \in Slots, p \in Paths : CreationOK(s, p)'
           /\ \A n \in Nodes : cpc'[n] \in {"recv", "try"}
<1> USE ConstantsAssumption
<1>1. ASSUME NEW p \in Paths PROVE EntryOK(p)'
  <2>1. CASE kv[p] = Null
    BY <2>1 DEF EntryOK
  <2>2. CASE kv[p] # Null
    BY <2>2 DEF CreateInv, EntryOK, Grows, SameCreations
  <2> QED BY <2>1, <2>2
<1>2. ASSUME NEW p \in Paths \ {Root} PROVE ChildOK(p)'
  <2>1. Parent[p] \in Paths /\ ChildOK(p)
    BY DEF CreateInv
  <2>2. kv'[p] = Null => kv[p] = Null
    BY DEF Grows
  <2> QED BY <2>1, <2>2 DEF ChildOK, Grows
<1>3. ASSUME NEW s \in Slots, NEW p \in Paths PROVE CreationOK(s, p)'
  <2>1. CreationOK(s, p)
    BY DEF CreateInv
  <2>2. p # Root => Parent[p] \in Paths
    OBVIOUS
  <2>3. Slots' = Slots
    BY DEF Slots
  <2> QED BY <2>1, <2>2, <2>3 DEF CreationOK, SameCreations, Grows, DirEntry
<1> QED BY <1>1, <1>2, <1>3 DEF CreateInv

\* A step that neither queues nor is about to queue leaves the creations alone.
LEMMA QuietCreations ==
    ASSUME NEW c \in Clients, Others(c), mq' = mq, pc[c] # "send", pc'[c] # "send"
    PROVE  SameCreations
<1>1. ASSUME NEW d \in Clients
      PROVE  /\ pc'[d] = "send" <=> pc[d] = "send"
             /\ pc[d] = "send" => call'[d] = call[d]
  BY DEF Others
<1>2. ASSUME NEW s \in Slots PROVE s[1] \in Clients
  BY DEF Slots
<1>3. ASSUME NEW s \in Slots, NEW p \in Paths
      PROVE  Creation(s, p)' <=> Creation(s, p)
  BY <1>1, <1>2 DEF Creation, Path
<1>4. ASSUME NEW s \in Slots, NEW p \in Paths, Creation(s, p)
      PROVE  CreationType(s)' = CreationType(s)
  BY <1>1, <1>2, <1>4 DEF Creation, CreationType, NewType
<1> QED BY <1>3, <1>4 DEF SameCreations

\* add_to_mq puts the message into the slot that stood for it.
LEMMA SendCreations ==
    ASSUME BasicInv, CreateInv, NEW c \in Clients, Send(c)
    PROVE  SameCreations
<1>1. /\ pc[c] = "send" /\ pc'[c] = "idle" /\ mq[c] \in Seq(Message) /\ DOMAIN mq = Clients
      /\ call[c].op \in {"mkdir", "create"}
  BY Within DEF Send, Queue, Return, Go, TypeOK, CreateInv, ClientOK, StepOK, MakeSteps
<1>2. mq'[c] = Append(mq[c], [op |-> IF call[c].op = "mkdir" THEN "MKDIR" ELSE "CREATE",
                              path |-> Path(c)])
  BY <1>1 DEF Send, Queue
<1>3. Others(c)
  BY ClientOthers DEF ClientStep
<1>4. /\ DOMAIN mq[c] = 1 .. Len(mq[c]) /\ DOMAIN mq'[c] = 1 .. Len(mq[c]) + 1
      /\ Len(mq'[c]) = Len(mq[c]) + 1 /\ Len(mq[c]) \in Nat
      /\ \A i \in DOMAIN mq[c] : mq'[c][i] = mq[c][i]
      /\ mq'[c][Len(mq[c]) + 1] = [op |-> IF call[c].op = "mkdir" THEN "MKDIR" ELSE "CREATE",
                                   path |-> Path(c)]
  BY <1>1, <1>2
<1>5. ASSUME NEW s \in Slots, NEW p \in Paths
      PROVE  /\ Creation(s, p)' <=> Creation(s, p)
             /\ Creation(s, p) => CreationType(s)' = CreationType(s)
  <2>1. s[1] \in Clients /\ s[2] \in Nat
    BY ConstantsAssumption DEF Slots
  <2>2. CASE s[1] = c
    BY <1>1, <1>4, <2>1, <2>2 DEF Creation, CreationType, NewType
  <2>3. CASE s[1] # c
    BY <1>3, <2>1, <2>3 DEF Creation, CreationType, NewType, Others, Path
  <2> QED BY <2>2, <2>3
<1> QED BY <1>5 DEF SameCreations

-----------------------------------------------------------------------------
(* The steps of a client, one by one.                                      *)

\* The end of a call.
LEMMA IdleOK ==
    ASSUME NEW c \in Clients, pc'[c] = "idle"
    PROVE  StepOK(c)' /\ ListOK(c)'
  BY DEF StepOK, ListOK, Listing, HoldsParent, MakeSteps, LookSteps

\* Within a call only the step, the list and the table have to be looked at.
LEMMA OwnKeeps ==
    ASSUME BasicInv, CreateInv, NEW c \in Clients, ClientStep(c), pc[c] # "idle",
           mq' = mq, prog' = prog, \A p \in dirtab'[c] : p \in dirtab[c] \/ DirEntry(p)',
           StepOK(c)', ListOK(c)'
    PROVE  ClientOK(c)'
<1>1. Grows /\ TypeOK /\ dfs' = dfs /\ ClientOK(c)
  BY ClientGrows, ClientOthers, Within DEF CreateInv
<1>2. ProgramOK(c)'
  <2>1. \A i \in DOMAIN prog[c] : prog[c][i] \in Call
    BY <1>1 DEF TypeOK
  <2> QED BY <1>1, <2>1 DEF ClientOK, ProgramOK, LookupOK, Grows, Call
<1>3. TableOK(c)'
  BY <1>1 DEF ClientOK, TableOK, DirEntry, Grows, TypeOK
<1>4. QueueOK(c)'
  BY <1>1 DEF ClientOK, QueueOK
<1> QED BY <1>2, <1>3, <1>4 DEF ClientOK

\* A step that only changes the client's own position.
LEMMA QuietStep ==
    ASSUME BasicInv, CreateInv, NEW c \in Clients, ClientStep(c), pc[c] \notin {"idle", "send"},
           pc'[c] # "send", UNCHANGED <<kv, mq, prog, dirtab>>, StepOK(c)', ListOK(c)'
    PROVE  CreateInv'
<1>1. Grows /\ TypeOK' /\ Others(c) /\ UNCHANGED <<dfs, cpc>>
  BY ClientGrows, ClientTypes, ClientOthers
<1>2. SameCreations
  BY <1>1, QuietCreations
<1>3. ClientOK(c)'
  BY OwnKeeps
<1>4. /\ \A p \in Paths : EntryOK(p)'
      /\ \A p \in Paths \ {Root} : ChildOK(p)'
      /\ \A s \in Slots, p \in Paths : CreationOK(s, p)'
      /\ \A n \in Nodes : cpc'[n] \in {"recv", "try"}
  <2>1. \A p \in Paths \ {Root} : dfs[p] # "none" /\ kv[p] = Null =>
            \A d \in Clients : Parent[p] \notin dirtab[d]
    BY DEF CreateInv, ChildOK
  <2> QED BY <1>1, <1>2, <2>1, GlobalKeeps
<1>5. Slots' = Slots
  BY DEF Slots
<1> QED BY <1>3, <1>4, <1>5, OthersOK DEF CreateInv

\* Arithmetic of QueueOK: a call is taken from the program.
LEMMA OneLess ==
    ASSUME NEW m \in Nat, NEW k \in Nat, NEW b \in Nat, NEW t, m + k <= b, t = k - 1
    PROVE  m + t < b /\ m + t <= b
  OBVIOUS

\* ... a message is queued.
LEMMA OneMore ==
    ASSUME NEW m \in Nat, NEW k \in Nat, NEW b \in Nat, NEW t, m + k < b, t = m + 1
    PROVE  t + k <= b
  OBVIOUS

\* ... the message has a slot.
LEMMA Fits ==
    ASSUME NEW m \in Nat, NEW k \in Nat, NEW b \in Nat, m + k <= b
    PROVE  m <= b /\ m + 1 \in 1 .. b + 1
  OBVIOUS

\* ... a message is committed.
LEMMA Shorter ==
    ASSUME NEW m \in Nat, NEW k \in Nat, NEW b \in Nat, NEW t, t = m - 1
    PROVE  (m + k <= b => t + k <= b) /\ (m + k < b => t + k < b)
  OBVIOUS

\* The first step of a call.
LEMMA CreateStart ==
    ASSUME BasicInv, CreateInv, NEW c \in Clients, Start(c)
    PROVE  CreateInv'
<1>1. /\ pc[c] = "idle" /\ prog[c] # <<>> /\ prog[c] \in Seq(Call)
      /\ call'[c] = Head(prog[c]) /\ prog'[c] = Tail(prog[c])
      /\ pc'[c] = FirstStep(Head(prog[c]).op) /\ UNCHANGED <<kv, dfs, mq, dirtab, cpc>>
  BY Within DEF Start, Go, TypeOK
<1>2. /\ Head(prog[c]) = prog[c][1] /\ 1 \in DOMAIN prog[c] /\ Head(prog[c]) \in Call
      /\ Len(Tail(prog[c])) = Len(prog[c]) - 1 /\ Len(prog[c]) \in Nat
      /\ \A i \in DOMAIN Tail(prog[c]) : i + 1 \in DOMAIN prog[c] /\ Tail(prog[c])[i] = prog[c][i + 1]
  BY <1>1
<1>3. ClientOK(c) /\ Grows /\ TypeOK' /\ TypeOK /\ Others(c)
  BY ClientGrows, ClientTypes, ClientOthers, Within DEF CreateInv
<1>4. Head(prog[c]).op \in {"mkdir", "create", "getattr"} /\ LookupOK(Head(prog[c]))
  BY <1>2, <1>3 DEF ClientOK, ProgramOK
<1>5. \/ pc'[c] = "parent" /\ call'[c].op \in {"mkdir", "create"}
      \/ pc'[c] = "get" /\ call'[c].op = "getattr"
  BY <1>1, <1>4 DEF FirstStep
<1>6. StepOK(c)' /\ ListOK(c)'
  BY <1>1, <1>4, <1>5 DEF StepOK, ListOK, Listing, HoldsParent, MakeSteps, LookSteps, LookupOK
<1>7. ProgramOK(c)'
  <2>1. ASSUME NEW i \in DOMAIN prog'[c]
        PROVE  /\ prog'[c][i].op \in {"mkdir", "create", "getattr"}
               /\ LookupOK(prog[c][i + 1]) /\ prog'[c][i] = prog[c][i + 1]
    BY <1>1, <1>2, <1>3 DEF ClientOK, ProgramOK
  <2> QED BY <1>1, <2>1 DEF ProgramOK, LookupOK
<1>8. TableOK(c)'
  BY <1>1, <1>3 DEF ClientOK, TableOK, DirEntry
<1>9. QueueOK(c)'
  <2>1. Len(mq[c]) \in Nat
    BY <1>3 DEF TypeOK
  <2>2. /\ Len(mq[c]) + Len(prog[c]) <= MaxOps
        /\ \A i \in DOMAIN mq[c] : mq[c][i].op # "RM"
    BY <1>3 DEF ClientOK, QueueOK
  <2>6. MaxOps \in Nat /\ Len(Tail(prog[c])) = Len(prog[c]) - 1 /\ Len(prog[c]) \in Nat
    BY <1>2, ConstantsAssumption
  <2>3. Len(mq[c]) + Len(Tail(prog[c])) < MaxOps
    BY <2>6, <2>1, <2>2, OneLess
  <2>4. Len(mq[c]) + Len(Tail(prog[c])) <= MaxOps
    BY <2>6, <2>1, <2>2, OneLess
  <2> QED BY <1>1, <2>2, <2>3, <2>4 DEF QueueOK
<1>10. SameCreations
  BY <1>1, <1>3, <1>5, QuietCreations
<1>11. /\ \A p \in Paths : EntryOK(p)'
       /\ \A p \in Paths \ {Root} : ChildOK(p)'
       /\ \A s \in Slots, p \in Paths : CreationOK(s, p)'
       /\ \A n \in Nodes : cpc'[n] \in {"recv", "try"}
  <2>1. \A p \in Paths \ {Root} : dfs[p] # "none" /\ kv[p] = Null =>
            \A d \in Clients : Parent[p] \notin dirtab[d]
    BY DEF CreateInv, ChildOK
  <2> QED BY <1>1, <1>3, <1>10, <2>1, GlobalKeeps
<1>12. Slots' = Slots
  BY DEF Slots
<1> QED BY <1>6, <1>7, <1>8, <1>9, <1>11, <1>12, OthersOK DEF CreateInv, ClientOK

\* The facts that every step below starts from.
LEMMA Inside ==
    ASSUME BasicInv, CreateInv, NEW c \in Clients, pc[c] # "idle"
    PROVE  /\ TypeOK /\ CallOK(c) /\ CasOK(c) /\ StepOK(c) /\ ListOK(c) /\ TableOK(c)
           /\ Path(c) \in Paths \ {Root} /\ ParentOf(c) \in Paths /\ call[c] \in Call
           /\ DOMAIN pc = Clients /\ DOMAIN call = Clients /\ DOMAIN ent = Clients
           /\ DOMAIN kids = Clients /\ DOMAIN load = Clients /\ DOMAIN dirtab = Clients
  BY Within DEF CreateInv, ClientOK, CallOK, TypeOK

\* load_to_pacon: stat.
LEMMA CreateLoadStat ==
    ASSUME BasicInv, CreateInv, NEW c \in Clients, LoadStat(c)
    PROVE  CreateInv'
<1>1. pc[c] = "lstat" /\ UNCHANGED <<kv, mq, prog, dirtab, dfs>>
  BY DEF LoadStat
<1>2. CASE dfs[load[c].path] = "none"
  <2>1. pc'[c] = "idle"
    BY <1>1, <1>2, Inside DEF LoadStat, Return, Go
  <2> QED BY <1>1, <2>1, IdleOK, QuietStep DEF ClientStep
<1>3. CASE dfs[load[c].path] # "none"
  <2>1. /\ pc'[c] = "ladd" /\ UNCHANGED <<call, kids>>
        /\ load'[c].path = load[c].path /\ load'[c].next = load[c].next
        /\ load'[c].type = dfs[load[c].path]
    BY <1>1, <1>3, Inside, LoadStatCell DEF LoadStat, Go
  <2>2. StepOK(c) /\ ListOK(c)
    BY <1>1, Inside
  <2>3. /\ HoldsParent(c)' = HoldsParent(c) /\ Listing(c)' = Listing(c)
        /\ \A p \in Paths : Listed(c, p)' = Listed(c, p)
        /\ Path(c)' = Path(c) /\ ParentOf(c)' = ParentOf(c)
    BY <1>1, <2>1 DEF HoldsParent, Listing, Listed, Path, ParentOf
  <2>4. StepOK(c)'
    BY <1>1, <2>1, <2>2, <2>3 DEF StepOK, MakeSteps, LookSteps, DirEntry
  <2>5. ListOK(c)'
    BY <1>1, <2>2, <2>3 DEF ListOK
  <2> QED BY <1>1, <2>1, <2>4, <2>5, QuietStep DEF ClientStep
<1> QED BY <1>2, <1>3

\* pacon_getattr finds the entry, or loads the name, or reports that there is none.
LEMMA CreateGetattr ==
    ASSUME BasicInv, CreateInv, NEW c \in Clients,
           Getattr(c) \/ GetattrStat(c) \/ GetattrAdd(c)
    PROVE  CreateInv'
<1>1. pc[c] \in LookSteps /\ UNCHANGED <<mq, prog, dirtab, dfs>>
  BY DEF Getattr, GetattrStat, GetattrAdd, LookSteps
<1>2. StepOK(c) /\ DOMAIN pc = Clients
  BY <1>1, Inside DEF LookSteps
<1>3. kv' = kv
  <2>1. pc[c] = "gadd" => kv[Path(c)] # Null
    BY <1>1, <1>2 DEF StepOK, LookupOK, Path
  <2> QED BY <2>1 DEF Getattr, GetattrStat, GetattrAdd, AddIfAbsent
<1>4. CASE pc'[c] = "idle"
  BY <1>1, <1>3, <1>4, IdleOK, QuietStep DEF ClientStep, LookSteps
<1>5. CASE pc'[c] # "idle"
  <2>1. /\ pc'[c] \in LookSteps /\ UNCHANGED <<call, kids, load>>
        /\ pc'[c] = "gadd" => dfs[Path(c)] # "none"
    BY <1>2, <1>5 DEF Getattr, GetattrStat, GetattrAdd, Return, Go, local, LookSteps
  <2>2. StepOK(c)'
    BY <1>1, <1>2, <1>3, <2>1 DEF StepOK, LookupOK, HoldsParent, MakeSteps, LookSteps, Path
  <2>3. ListOK(c)'
    BY <2>1 DEF ListOK, Listing, LookSteps
  <2> QED BY <1>1, <1>3, <2>1, <2>2, <2>3, QuietStep DEF ClientStep, LookSteps
<1> QED BY <1>4, <1>5

\* The key was there: it is live, and pacon_mkdir or pacon_create returns -1.
LEMMA CreateExists ==
    ASSUME BasicInv, CreateInv, NEW c \in Clients, Exists(c)
    PROVE  CreateInv'
<1>1. pc[c] = "exists" /\ UNCHANGED <<kv, mq, prog, dirtab>>
  BY DEF Exists
<1>2. call[c].op \in {"mkdir", "create"} /\ Path(c) \in Paths /\ DOMAIN pc = Clients
  BY <1>1, Inside DEF StepOK, MakeSteps
<1>3. kv[Path(c)] # Null => Live(Path(c))
  BY <1>2 DEF CreateInv, EntryOK, Live
<1>4. pc'[c] = "idle"
  BY <1>2, <1>3 DEF Exists, Return, Go
<1> QED BY <1>1, <1>4, IdleOK, QuietStep DEF ClientStep

\* opendir of the parent: its children are listed.
LEMMA CreateParentOpen ==
    ASSUME BasicInv, CreateInv, NEW c \in Clients, ParentOpen(c)
    PROVE  CreateInv'
<1>1. pc[c] = "popen" /\ UNCHANGED <<kv, mq, prog, dirtab, dfs>>
  BY DEF ParentOpen
<1>2. StepOK(c) /\ ParentOf(c) \in Paths /\ DOMAIN pc = Clients /\ DOMAIN kids = Clients
  BY <1>1, Inside
<1>3. dfs[ParentOf(c)] = "dir"
  BY <1>1, <1>2 DEF StepOK, HoldsParent, DirEntry, CreateInv, EntryOK
<1>4. /\ pc'[c] = "kids" /\ UNCHANGED <<call, load>>
      /\ kids'[c] = {p \in Paths \ {Root} : Parent[p] = ParentOf(c) /\ dfs[p] # "none"}
  BY <1>2, <1>3 DEF ParentOpen, Go
<1>5. StepOK(c)'
  BY <1>1, <1>2, <1>4 DEF StepOK, HoldsParent, DirEntry, MakeSteps, LookSteps, Path, ParentOf
<1>6. ListOK(c)'
  BY <1>1, <1>4 DEF ListOK, Listed, ParentOf, Path
<1> QED BY <1>1, <1>4, <1>5, <1>6, QuietStep DEF ClientStep, ParentStep

\* The next child of the list is loaded, or the list is done.
LEMMA CreateParentKids ==
    ASSUME BasicInv, CreateInv, NEW c \in Clients, ParentKids(c)
    PROVE  CreateInv'
<1>1. pc[c] = "kids" /\ UNCHANGED <<kv, mq, prog, dirtab, dfs, call>>
  BY DEF ParentKids
<1>2. /\ StepOK(c) /\ ListOK(c) /\ DOMAIN pc = Clients /\ DOMAIN kids = Clients
      /\ DOMAIN load = Clients
  BY <1>1, Inside
<1>3. Path(c)' = Path(c) /\ ParentOf(c)' = ParentOf(c)
  BY <1>1 DEF Path, ParentOf
<1>4. CASE \E p \in kids[c] : kids' = [kids EXCEPT ![c] = @ \ {p}] /\ Load(c, p, "kids")
  <2>1. PICK p \in kids[c] : kids' = [kids EXCEPT ![c] = @ \ {p}] /\ Load(c, p, "kids")
    BY <1>4
  <2>2. /\ kids'[c] = kids[c] \ {p} /\ pc'[c] = "lstat"
        /\ load'[c] = [path |-> p, type |-> "none", next |-> "kids"]
    BY <1>2, <2>1 DEF Load, Go
  <2>3. StepOK(c)'
    BY <1>1, <1>2, <1>3, <2>2 DEF StepOK, HoldsParent, DirEntry, MakeSteps, LookSteps
  <2>4. ListOK(c)'
    BY <1>1, <1>2, <1>3, <2>2 DEF ListOK, Listing, Listed
  <2> QED BY <1>1, <2>2, <2>3, <2>4, QuietStep DEF ClientStep, ParentStep
<1>5. CASE kids[c] = {} /\ Go(c, "pcas") /\ UNCHANGED <<kids, load>>
  <2>1. pc'[c] = "pcas" /\ kids'[c] = {} /\ load' = load
    BY <1>2, <1>5 DEF Go
  <2>2. StepOK(c)'
    BY <1>1, <1>2, <1>3, <2>1 DEF StepOK, HoldsParent, DirEntry, MakeSteps, LookSteps
  <2>3. ListOK(c)'
    BY <1>1, <1>2, <1>3, <1>5, <2>1 DEF ListOK, Listing, Listed
  <2> QED BY <1>1, <2>1, <2>2, <2>3, QuietStep DEF ClientStep, ParentStep
<1> QED BY <1>4, <1>5 DEF ParentKids

\* The parent is got once more after a cas that failed.
LEMMA CreateParentReget ==
    ASSUME BasicInv, CreateInv, NEW c \in Clients, ParentReget(c)
    PROVE  CreateInv'
<1>1. pc[c] = "preget" /\ UNCHANGED <<kv, mq, prog, dirtab, dfs>>
  BY DEF ParentReget
<1>2. StepOK(c) /\ ListOK(c) /\ DOMAIN pc = Clients
  BY <1>1, Inside
<1>3. kv[ParentOf(c)] # Null
  BY <1>1, <1>2 DEF StepOK, DirEntry
<1>4. pc'[c] = "pcas" /\ UNCHANGED <<call, kids, load>>
  BY <1>2, <1>3 DEF ParentReget, Go
<1>5. StepOK(c)'
  BY <1>1, <1>2, <1>4 DEF StepOK, HoldsParent, DirEntry, MakeSteps, LookSteps, Path, ParentOf
<1>6. ListOK(c)'
  BY <1>1, <1>2, <1>4 DEF ListOK, Listing, Listed, Path, ParentOf
<1> QED BY <1>1, <1>4, <1>5, <1>6, QuietStep DEF ClientStep, ParentStep

\* A step that writes no entry but may put the parent into the table.
LEMMA TableStep ==
    ASSUME BasicInv, CreateInv, NEW c \in Clients, ClientStep(c), pc[c] \notin {"idle", "send"},
           pc'[c] # "send", UNCHANGED <<kv, mq, prog>>, StepOK(c)', ListOK(c)',
           \A q \in dirtab'[c] \ dirtab[c] :
               DirEntry(q) /\ ~(kv[q].existed /\ ~kv[q].checked)
    PROVE  CreateInv'
<1>1. Grows /\ TypeOK' /\ Others(c) /\ UNCHANGED <<dfs, cpc>>
  BY ClientGrows, ClientTypes, ClientOthers
<1>2. SameCreations
  BY <1>1, QuietCreations
<1>3. ClientOK(c)'
  <2>1. \A p \in dirtab'[c] : p \in dirtab[c] \/ DirEntry(p)'
    BY DEF DirEntry
  <2> QED BY <2>1, OwnKeeps
<1>4. /\ \A p \in Paths : EntryOK(p)'
      /\ \A p \in Paths \ {Root} : ChildOK(p)'
      /\ \A s \in Slots, p \in Paths : CreationOK(s, p)'
      /\ \A n \in Nodes : cpc'[n] \in {"recv", "try"}
  <2>1. ASSUME NEW p \in Paths \ {Root}, dfs[p] # "none", kv[p] = Null, NEW d \in Clients
        PROVE  Parent[p] \notin dirtab'[d]
    <3>1. Parent[p] \notin dirtab[d] /\ Parent[p] \notin dirtab[c]
      BY <2>1 DEF CreateInv, ChildOK
    <3>2. kv[Parent[p]] # Null => kv[Parent[p]].existed /\ ~kv[Parent[p]].checked
      BY <2>1 DEF CreateInv, ChildOK
    <3> QED BY <1>1, <3>1, <3>2 DEF Others, DirEntry
  <2> QED BY <1>1, <1>2, <2>1, GlobalKeeps
<1>5. Slots' = Slots
  BY DEF Slots
<1> QED BY <1>3, <1>4, <1>5, OthersOK DEF CreateInv

\* The parent's entry is a file, or its children have to be loaded first, or it
\* goes into the table.
LEMMA FoundOK ==
    ASSUME BasicInv, CreateInv, NEW c \in Clients, pc[c] \in {"parent", "pget"},
           kv[ParentOf(c)] # Null, ParentFound(c, kv[ParentOf(c)]), UNCHANGED <<kv, dfs>>
    PROVE  /\ StepOK(c)' /\ ListOK(c)' /\ pc'[c] # "send"
           /\ \A q \in dirtab'[c] \ dirtab[c] :
                  DirEntry(q) /\ ~(kv[q].existed /\ ~kv[q].checked)
<1>1. /\ StepOK(c) /\ DOMAIN pc = Clients /\ DOMAIN dirtab = Clients
      /\ call[c].op \in {"mkdir", "create"}
  BY Inside DEF StepOK, MakeSteps
<1>2. CASE pc'[c] = "idle" /\ dirtab' = dirtab
  BY <1>2, IdleOK
<1>3. CASE /\ kv[ParentOf(c)].type = "dir" /\ kv[ParentOf(c)].existed
           /\ pc'[c] = "popen" /\ dirtab' = dirtab /\ call' = call
  BY <1>1, <1>3 DEF StepOK, ListOK, Listing, HoldsParent, DirEntry, MakeSteps, LookSteps,
                    Path, ParentOf
<1>4. CASE /\ kv[ParentOf(c)].type = "dir"
           /\ ~(kv[ParentOf(c)].existed /\ ~kv[ParentOf(c)].checked)
           /\ pc'[c] = "add" /\ dirtab'[c] = dirtab[c] \cup {ParentOf(c)} /\ call' = call
  BY <1>1, <1>4 DEF StepOK, ListOK, Listing, HoldsParent, DirEntry, MakeSteps, LookSteps,
                    Path, ParentOf
<1> QED BY <1>1, <1>2, <1>3, <1>4 DEF ParentFound, Go

\* check_parent_dir: the table, then the entry of the parent.
LEMMA CreateParentCheck ==
    ASSUME BasicInv, CreateInv, NEW c \in Clients, ParentCheck(c)
    PROVE  CreateInv'
<1>1. pc[c] = "parent" /\ UNCHANGED <<kv, mq, prog, dfs>>
  BY DEF ParentCheck
<1>2. /\ StepOK(c) /\ DOMAIN pc = Clients /\ DOMAIN load = Clients
      /\ call[c].op \in {"mkdir", "create"}
  BY <1>1, Inside DEF StepOK, MakeSteps
<1>3. CASE ParentOf(c) \in dirtab[c] /\ Go(c, "add") /\ UNCHANGED <<dirtab, call>>
  <2>1. StepOK(c)' /\ ListOK(c)' /\ pc'[c] = "add"
    BY <1>2, <1>3 DEF Go, StepOK, ListOK, Listing, HoldsParent, MakeSteps, LookSteps, Path, ParentOf
  <2> QED BY <1>1, <1>3, <2>1, TableStep DEF ClientStep, ParentStep
<1>4. CASE Load(c, ParentOf(c), "pget") /\ UNCHANGED <<dirtab, call>>
  <2>1. pc'[c] = "lstat" /\ load'[c] = [path |-> ParentOf(c), type |-> "none", next |-> "pget"]
    BY <1>2, <1>4 DEF Load, Go
  <2>2. StepOK(c)' /\ ListOK(c)'
    BY <1>2, <1>4, <2>1 DEF StepOK, ListOK, Listing, HoldsParent, MakeSteps, LookSteps, Path, ParentOf
  <2> QED BY <1>1, <1>4, <2>1, <2>2, TableStep DEF ClientStep, ParentStep
<1>5. CASE kv[ParentOf(c)] # Null /\ ParentFound(c, kv[ParentOf(c)])
  BY <1>1, <1>5, FoundOK, TableStep DEF ClientStep, ParentStep
<1> QED BY <1>3, <1>4, <1>5 DEF ParentCheck

\* After the load the second dmkv_get_cas finds the entry: deseri_val is safe.
LEMMA CreateParentGet ==
    ASSUME BasicInv, CreateInv, NEW c \in Clients, ParentGet(c)
    PROVE  CreateInv'
<1>1. pc[c] = "pget" /\ UNCHANGED <<kv, mq, prog, dfs>>
  BY DEF ParentGet
<1>2. kv[ParentOf(c)] # Null
  BY <1>1, Inside DEF StepOK
<1>3. ParentFound(c, kv[ParentOf(c)])
  BY <1>2 DEF ParentGet
<1> QED BY <1>1, <1>2, <1>3, FoundOK, TableStep DEF ClientStep, ParentStep

\* load_to_pacon adds an entry with the type that stat reported.
LEMMA CreateLoadAdd ==
    ASSUME BasicInv, CreateInv, NEW c \in Clients, LoadAdd(c)
    PROVE  CreateInv'
<1> DEFINE p0 == load[c].path
<1>1. pc[c] = "ladd" /\ UNCHANGED <<mq, prog, dirtab, dfs, call, kids>> /\ pc'[c] = load[c].next
  BY Within DEF LoadAdd, Go, TypeOK
<1>2. /\ TypeOK /\ StepOK(c) /\ ListOK(c) /\ ParentOf(c) \in Paths /\ p0 \in Paths
      /\ load[c].type \in Kind
  BY <1>1, Inside DEF TypeOK, CallOK
<1>3. Grows /\ TypeOK' /\ Others(c) /\ UNCHANGED cpc
  BY ClientGrows, ClientTypes, ClientOthers DEF ClientStep
<1>4. /\ kv'[p0] # Null
      /\ \A p \in Paths : p # p0 => kv'[p] = kv[p]
      /\ kv[p0] = Null => kv'[p0] = LoadedEntry(load[c].type)
      /\ kv[p0] # Null => kv'[p0] = kv[p0]
  <2>1. LoadedEntry(load[c].type) \in Entry
    BY <1>2 DEF LoadedEntry, Entry
  <2> QED BY <1>2, <2>1, ConstantsAssumption DEF LoadAdd, AddIfAbsent, Write, TypeOK
<1>5. load[c].type = dfs[p0] /\ (load[c].next = "kids" \/ (load[c].next = "pget" /\ p0 = ParentOf(c)))
  BY <1>1, <1>2 DEF StepOK
<1>6. Path(c)' = Path(c) /\ ParentOf(c)' = ParentOf(c)
  BY <1>1 DEF Path, ParentOf
<1>7. StepOK(c)'
  <2>1. CASE load[c].next = "pget"
    BY <1>1, <1>2, <1>4, <1>5, <1>6, <2>1 DEF StepOK, HoldsParent, MakeSteps, LookSteps
  <2>2. CASE load[c].next = "kids"
    <3>1. DirEntry(ParentOf(c)) /\ kv[ParentOf(c)].existed
      BY <1>1, <1>2, <2>2 DEF StepOK, HoldsParent
    <3>2. DirEntry(ParentOf(c))' /\ kv'[ParentOf(c)].existed
      BY <1>2, <1>3, <1>6, <3>1 DEF DirEntry, Grows
    <3> QED BY <1>1, <1>2, <1>6, <2>2, <3>2 DEF StepOK, HoldsParent, MakeSteps, LookSteps
  <2> QED BY <1>5, <2>1, <2>2
<1>8. ListOK(c)'
  <2>1. CASE load[c].next = "pget"
    BY <1>1, <2>1 DEF ListOK, Listing
  <2>2. CASE load[c].next = "kids"
    BY <1>1, <1>2, <1>4, <1>6, <2>2 DEF ListOK, Listing, Listed
  <2> QED BY <1>5, <2>1, <2>2
<1>9. ClientOK(c)'
  BY <1>1, <1>7, <1>8, OwnKeeps DEF ClientStep
<1>10. SameCreations
  BY <1>1, <1>3, <1>5, QuietCreations
<1>11. /\ \A p \in Paths : EntryOK(p)'
       /\ \A p \in Paths \ {Root} : ChildOK(p)'
       /\ \A s \in Slots, p \in Paths : CreationOK(s, p)'
       /\ \A n \in Nodes : cpc'[n] \in {"recv", "try"}
  <2>1. \A p \in Paths : kv[p] = Null /\ kv'[p] # Null =>
            ~kv'[p].rm /\ kv'[p].existed /\ ~kv'[p].checked /\ dfs[p] = kv'[p].type
    BY <1>4, <1>5 DEF LoadedEntry
  <2>2. ASSUME NEW p \in Paths \ {Root}, dfs[p] # "none", kv'[p] = Null
        PROVE  /\ \A d \in Clients : Parent[p] \notin dirtab'[d]
               /\ kv[Parent[p]] # Null => kv'[Parent[p]].checked = kv[Parent[p]].checked
    <3>1. kv[p] = Null /\ Parent[p] \in Paths
      BY <1>3, <2>2, ConstantsAssumption DEF Grows
    <3> QED BY <1>1, <1>4, <2>2, <3>1 DEF CreateInv, ChildOK
  <2> QED BY <1>1, <1>3, <1>10, <2>1, <2>2, GlobalKeeps
<1>12. Slots' = Slots
  BY DEF Slots
<1> QED BY <1>9, <1>11, <1>12, OthersOK DEF CreateInv, ClientStep

\* dmkv_cas of the parent: when it succeeds every child of the DFS is cached.
LEMMA CreateParentCas ==
    ASSUME BasicInv, CreateInv, NEW c \in Clients, ParentCas(c)
    PROVE  CreateInv'
<1> DEFINE q0 == ParentOf(c)
<1>1. pc[c] = "pcas" /\ UNCHANGED <<mq, prog, dfs>>
  BY DEF ParentCas
<1>2. /\ TypeOK /\ CasOK(c) /\ CallOK(c) /\ StepOK(c) /\ ListOK(c) /\ q0 \in Paths
      /\ DOMAIN pc = Clients /\ DOMAIN dirtab = Clients /\ DirEntry(q0) /\ kv[q0].existed
  BY <1>1, Inside DEF StepOK, HoldsParent
<1>3. Grows /\ TypeOK' /\ Others(c) /\ UNCHANGED cpc
  BY ClientGrows, ClientTypes, ClientOthers DEF ClientStep, ParentStep
<1>4. \A p \in Paths \ {Root} : Parent[p] = q0 /\ dfs[p] # "none" => kv[p] # Null
  BY <1>1, <1>2 DEF ListOK, Listing, Listed
<1>5. CASE token[c] # q0
  <2>1. pc'[c] = "preget" /\ UNCHANGED <<kv, dirtab, call, kids, load>>
    BY <1>2, <1>5 DEF ParentCas, Go, local, DirEntry
  <2>2. StepOK(c)'
    BY <1>1, <1>2, <2>1 DEF StepOK, HoldsParent, DirEntry, MakeSteps, LookSteps, Path, ParentOf
  <2>3. ListOK(c)'
    BY <1>1, <1>2, <2>1 DEF ListOK, Listing, Listed, Path, ParentOf
  <2> QED BY <1>1, <2>1, <2>2, <2>3, QuietStep DEF ClientStep, ParentStep
<1>6. CASE token[c] = q0
  <2>1. /\ pc'[c] = "add" /\ call' = call /\ dirtab'[c] = dirtab[c] \cup {q0}
        /\ kv' = [kv EXCEPT ![q0] = [ent[c] EXCEPT !.checked = TRUE]]
    BY <1>2, <1>6 DEF ParentCas, Go, Write, DirEntry
  <2>2. kv[q0] = ent[c] /\ \A p \in Paths : p # q0 => kv'[p] = kv[p]
    BY <1>1, <1>2, <1>6, <2>1 DEF CasOK, HoldsParent, TypeOK
  <2>3. Path(c)' = Path(c) /\ ParentOf(c)' = ParentOf(c) /\ DirEntry(q0)'
    BY <1>2, <1>3, <2>1 DEF Path, ParentOf, DirEntry, Grows
  <2>4. StepOK(c)' /\ ListOK(c)'
    BY <1>1, <1>2, <2>1, <2>3 DEF StepOK, ListOK, Listing, HoldsParent, MakeSteps, LookSteps
  <2>5. ClientOK(c)'
    <3>1. \A p \in dirtab'[c] : p \in dirtab[c] \/ DirEntry(p)'
      BY <2>1, <2>3 DEF DirEntry
    <3> QED BY <1>1, <2>4, <3>1, OwnKeeps DEF ClientStep, ParentStep
  <2>6. SameCreations
    BY <1>1, <1>3, <2>1, QuietCreations
  <2>7. /\ \A p \in Paths : EntryOK(p)'
        /\ \A p \in Paths \ {Root} : ChildOK(p)'
        /\ \A s \in Slots, p \in Paths : CreationOK(s, p)'
        /\ \A n \in Nodes : cpc'[n] \in {"recv", "try"}
    <3>1. \A p \in Paths : kv[p] = Null => kv'[p] = Null
      BY <1>2, <2>2 DEF DirEntry
    <3>2. ASSUME NEW p \in Paths \ {Root}, dfs[p] # "none", kv'[p] = Null
          PROVE  /\ \A d \in Clients : Parent[p] \notin dirtab'[d]
                 /\ kv[Parent[p]] # Null => kv'[Parent[p]].checked = kv[Parent[p]].checked
      <4>1. kv[p] = Null /\ Parent[p] \in Paths
        BY <1>3, <3>2, ConstantsAssumption DEF Grows
      <4>2. Parent[p] # q0
        BY <1>4, <3>2, <4>1
      <4>3. \A d \in Clients : Parent[p] \notin dirtab[d]
        BY <3>2, <4>1 DEF CreateInv, ChildOK
      <4> QED BY <1>3, <2>1, <2>2, <4>1, <4>2, <4>3 DEF Others
    <3> QED BY <1>1, <1>3, <2>6, <3>1, <3>2, GlobalKeeps
  <2>8. Slots' = Slots
    BY DEF Slots
  <2> QED BY <2>5, <2>7, <2>8, OthersOK DEF CreateInv, ClientStep, ParentStep
<1> QED BY <1>5, <1>6

\* The message is queued and the call returns.
LEMMA CreateSend ==
    ASSUME BasicInv, CreateInv, NEW c \in Clients, Send(c)
    PROVE  CreateInv'
<1> DEFINE m == [op |-> IF call[c].op = "mkdir" THEN "MKDIR" ELSE "CREATE", path |-> Path(c)]
<1>1. /\ pc[c] = "send" /\ UNCHANGED <<kv, dfs, prog, dirtab>>
      /\ mq' = [mq EXCEPT ![c] = Append(@, m)] /\ Return(c)
  BY DEF Send, Queue
<1>2. /\ TypeOK /\ ClientOK(c) /\ DOMAIN pc = Clients /\ DOMAIN mq = Clients
      /\ mq[c] \in Seq(Message) /\ prog[c] \in Seq(Call)
  BY Within DEF TypeOK, CreateInv
<1>3. pc'[c] = "idle" /\ mq'[c] = Append(mq[c], m)
  BY <1>1, <1>2 DEF Return, Go
<1>4. Grows /\ TypeOK' /\ Others(c) /\ UNCHANGED cpc
  BY ClientGrows, ClientTypes, ClientOthers DEF ClientStep
<1>5. SameCreations
  BY SendCreations
<1>6. ClientOK(c)'
  <2>1. ProgramOK(c)' /\ TableOK(c)'
    BY <1>1, <1>2 DEF ClientOK, ProgramOK, TableOK, LookupOK, DirEntry
  <2>2. StepOK(c)' /\ ListOK(c)'
    BY <1>3, IdleOK
  <2>3. /\ Len(mq'[c]) = Len(mq[c]) + 1 /\ Len(mq[c]) \in Nat /\ Len(prog[c]) \in Nat
        /\ DOMAIN mq'[c] = 1 .. Len(mq[c]) + 1 /\ DOMAIN mq[c] = 1 .. Len(mq[c])
        /\ \A i \in DOMAIN mq[c] : mq'[c][i] = mq[c][i]
        /\ mq'[c][Len(mq[c]) + 1] = m
    BY <1>2, <1>3
  <2>4. Len(mq[c]) + Len(prog[c]) < MaxOps /\ MaxOps \in Nat
    BY <1>1, <1>2, ConstantsAssumption DEF ClientOK, QueueOK
  <2>5. Len(mq'[c]) + Len(prog[c]) <= MaxOps
    BY <2>3, <2>4, OneMore
  <2>6. \A i \in DOMAIN mq'[c] : mq'[c][i].op # "RM"
    BY <1>2, <2>3 DEF ClientOK, QueueOK
  <2>7. QueueOK(c)'
    BY <1>1, <1>3, <2>5, <2>6 DEF QueueOK
  <2> QED BY <2>1, <2>2, <2>7 DEF ClientOK
<1>7. /\ \A p \in Paths : EntryOK(p)'
      /\ \A p \in Paths \ {Root} : ChildOK(p)'
      /\ \A s \in Slots, p \in Paths : CreationOK(s, p)'
      /\ \A n \in Nodes : cpc'[n] \in {"recv", "try"}
  <2>1. \A p \in Paths \ {Root} : dfs[p] # "none" /\ kv[p] = Null =>
            \A d \in Clients : Parent[p] \notin dirtab[d]
    BY DEF CreateInv, ChildOK
  <2> QED BY <1>1, <1>4, <1>5, <2>1, GlobalKeeps
<1>8. Slots' = Slots
  BY DEF Slots
<1> QED BY <1>6, <1>7, <1>8, OthersOK DEF CreateInv, ClientStep

\* dmkv_add of the new entry: who gets it is the only one who will queue it,
\* and the DFS does not hold the name, because the parent is in the table.
LEMMA CreateAdd ==
    ASSUME BasicInv, CreateInv, NEW c \in Clients, Add(c)
    PROVE  CreateInv'
<1> DEFINE p0 == Path(c)
           s0 == <<c, Len(mq[c]) + 1>>
<1>1. pc[c] = "add" /\ UNCHANGED <<mq, prog, dirtab, dfs, call, kids, load>>
  BY DEF Add, local
<1>2. /\ TypeOK /\ StepOK(c) /\ p0 \in Paths \ {Root} /\ DOMAIN pc = Clients
      /\ Parent[p0] \in dirtab[c] /\ Parent[p0] \in Paths /\ DirEntry(Parent[p0])
      /\ call[c].op \in {"mkdir", "create"} /\ DOMAIN kv = Paths
  BY <1>1, Inside DEF StepOK, MakeSteps, TableOK, ParentOf, TypeOK
<1>3. Grows /\ TypeOK' /\ Others(c) /\ UNCHANGED cpc
  BY ClientGrows, ClientTypes, ClientOthers DEF ClientStep
<1>4. StepOK(c)' /\ ListOK(c)' /\ pc'[c] = (IF kv[p0] = Null THEN "send" ELSE "exists")
  <2>1. pc'[c] = IF kv[p0] = Null THEN "send" ELSE "exists"
    BY <1>2 DEF Add, Go
  <2> QED BY <1>1, <1>2, <2>1 DEF StepOK, ListOK, Listing, HoldsParent, MakeSteps, LookSteps
<1>5. ClientOK(c)'
  BY <1>1, <1>4, OwnKeeps DEF ClientStep
<1>6. CASE kv[p0] # Null
  <2>1. kv' = kv
    BY <1>6 DEF Add, AddIfAbsent
  <2> QED BY <1>1, <1>4, <1>6, <2>1, QuietStep DEF ClientStep
<1>7. CASE kv[p0] = Null
  <2>1. /\ pc'[c] = "send" /\ kv'[p0] = NewEntry(NewType(c)) /\ kv'[p0] # Null
        /\ \A p \in Paths : p # p0 => kv'[p] = kv[p]
    <3>1. NewEntry(NewType(c)) \in Entry
      BY DEF NewEntry, NewType, Entry, Kind
    <3> QED BY <1>2, <1>4, <1>7, <3>1, ConstantsAssumption DEF Add, AddIfAbsent, Write
  <2>2. dfs[p0] = "none"
    BY <1>2, <1>7 DEF CreateInv, ChildOK
  <2>3. s0 \in Slots /\ Len(mq[c]) \in Nat /\ DOMAIN mq[c] = 1 .. Len(mq[c])
    <3>1. /\ Len(mq[c]) \in Nat /\ Len(prog[c]) \in Nat /\ MaxOps \in Nat
          /\ DOMAIN mq[c] = 1 .. Len(mq[c])
      BY <1>2, ConstantsAssumption DEF TypeOK
    <3>2. Len(mq[c]) + Len(prog[c]) <= MaxOps
      BY DEF CreateInv, ClientOK, QueueOK
    <3>3. Len(mq[c]) + 1 \in 1 .. MaxOps + 1
      BY <3>1, <3>2, Fits
    <3> QED BY <3>1, <3>3 DEF Slots
  <2>4. ASSUME NEW s \in Slots, NEW p \in Paths
        PROVE  /\ Creation(s, p)' <=> Creation(s, p) \/ (s = s0 /\ p = p0)
               /\ Creation(s, p) => CreationType(s)' = CreationType(s)
    <3>1. s = <<s[1], s[2]>> /\ s[1] \in Clients
      BY DEF Slots
    <3>2. CASE s[1] = c
      BY <1>1, <2>1, <2>3, <3>1, <3>2 DEF Creation, CreationType, NewType, Path
    <3>3. CASE s[1] # c
      BY <1>1, <1>3, <3>1, <3>3 DEF Creation, CreationType, NewType, Others, Path
    <3> QED BY <3>2, <3>3
  <2>5. \A s \in Slots : ~Creation(s, p0)
    BY <1>2, <1>7 DEF CreateInv, CreationOK
  <2>6. CreationType(s0)' = NewType(c) /\ kv'[p0].type = NewType(c)
    BY <1>1, <2>1, <2>3 DEF CreationType, NewType, NewEntry
  <2>7. Slots' = Slots
    BY DEF Slots
  <2>8. ASSUME NEW p \in Paths PROVE EntryOK(p)'
    <3>1. CASE p = p0
      BY <2>1, <2>3, <2>4, <2>7, <3>1 DEF EntryOK, NewEntry
    <3>2. CASE p # p0
      BY <1>1, <2>1, <2>4, <2>7, <3>2 DEF EntryOK, CreateInv
    <3> QED BY <3>1, <3>2
  <2>9. ASSUME NEW p \in Paths \ {Root} PROVE ChildOK(p)'
    <3>1. ChildOK(p) /\ Parent[p] \in Paths
      BY ConstantsAssumption DEF CreateInv
    <3>2. dfs[p] # "none" => Parent[p] # p0
      BY <2>2, <3>1 DEF ChildOK
    <3>3. kv'[p] = Null => kv[p] = Null
      BY <1>3 DEF Grows
    <3> QED BY <1>1, <2>1, <3>1, <3>2, <3>3 DEF ChildOK
  <2>10. ASSUME NEW s \in Slots, NEW p \in Paths PROVE CreationOK(s, p)'
    <3>1. CASE p = p0
      BY <1>1, <1>2, <1>3, <2>1, <2>2, <2>4, <2>5, <2>6, <2>7, <3>1 DEF CreationOK, DirEntry, Grows
    <3>2. CASE p # p0
      <4>1. CreationOK(s, p) /\ (p # Root => Parent[p] \in Paths)
        BY ConstantsAssumption DEF CreateInv
      <4> QED BY <1>1, <1>3, <2>1, <2>4, <2>7, <3>2, <4>1 DEF CreationOK, DirEntry, Grows
    <3> QED BY <3>1, <3>2
  <2> QED BY <1>3, <1>5, <2>7, <2>8, <2>9, <2>10, OthersOK DEF CreateInv, ClientStep
<1> QED BY <1>6, <1>7

\* Every step of a client.
LEMMA CreateClient ==
    ASSUME BasicInv, CreateInv, NEW c \in Clients, Start(c) \/ ClientStep(c)
    PROVE  CreateInv'
  BY Reached, CreateStart, CreateLoadStat, CreateLoadAdd, CreateParentCheck, CreateParentGet,
     CreateParentOpen, CreateParentKids, CreateParentCas, CreateParentReget, CreateAdd,
     CreateExists, CreateSend, CreateGetattr DEF ParentStep

-----------------------------------------------------------------------------
(* The steps of the commit threads.                                        *)

\* What a commit does: the message at the head of the queue of the client is a
\* creation, the DFS gets what the entry says, and the queue moves up.
LEMMA CommitEffect ==
    ASSUME BasicInv, CreateInv, NEW n \in Nodes, CommitStep(n)
    PROVE  \E c \in Clients, p \in Paths \ {Root} :
              /\ mq[c] \in Seq(Message) /\ mq[c] # <<>> /\ <<c, 1>> \in Slots
              /\ Creation(<<c, 1>>, p)
              /\ dfs[p] = "none" /\ dfs[Parent[p]] = "dir" /\ Parent[p] \in Paths
              /\ dfs' = [dfs EXCEPT ![p] = kv[p].type] /\ kv[p].type \in Kind
              /\ mq' = [mq EXCEPT ![c] = Tail(@)] /\ DOMAIN mq = Clients
              /\ cpc' = [cpc EXCEPT ![n] = "recv"]
              /\ UNCHANGED <<kv, clientVars>>
<1> DEFINE c == cur[n]
           p == Msg(n).path
<1>1. cpc[n] = "try" /\ (CommitMkdir(n) \/ CommitCreate(n))
  BY DEF CreateInv, CommitStep, CommitRmGet, CommitRemove, CommitRmDel, CommitMkdir, CommitCreate
<1>2. /\ c \in Clients /\ mq[c] # <<>> /\ mq[c] \in Seq(Message) /\ Msg(n) = mq[c][1]
      /\ 1 \in DOMAIN mq[c] /\ Msg(n) \in Message /\ DOMAIN mq = Clients /\ TypeOK
  BY <1>1, Busy DEF BasicInv, TypeOK, Msg
<1>3. p \in Paths \ {Root} /\ dfs[Parent[p]] = "dir" /\ Parent[p] \in Paths
  BY <1>1, <1>2, ConstantsAssumption DEF CommitMkdir, CommitCreate, CanMkdir, CanCreat, Message
<1>4. <<c, 1>> \in Slots
  BY <1>2, ConstantsAssumption DEF Slots
<1>5. Creation(<<c, 1>>, p)
  BY <1>2 DEF Creation, CreateInv, ClientOK, QueueOK
<1>6. /\ dfs[p] = "none" /\ kv[p] # Null
      /\ kv[p].type = IF Msg(n).op = "MKDIR" THEN "dir" ELSE "file"
  BY <1>2, <1>3, <1>4, <1>5 DEF CreateInv, CreationOK, CreationType
<1>7. /\ dfs' = [dfs EXCEPT ![p] = kv[p].type] /\ kv[p].type \in Kind
      /\ CommitDone(n) /\ UNCHANGED <<kv, clientVars>>
  <2>1. CASE CommitMkdir(n)
    BY <1>6, <2>1 DEF CommitMkdir, Kind
  <2>2. CASE CommitCreate(n)
    BY <1>6, <2>2 DEF CommitCreate, Kind
  <2> QED BY <1>1, <2>1, <2>2
<1> QED BY <1>2, <1>3, <1>4, <1>5, <1>6, <1>7 DEF CommitDone

\* A commit: the name moves from the queue to the DFS.
LEMMA CreateCommit ==
    ASSUME BasicInv, CreateInv, NEW n \in Nodes, CommitStep(n)
    PROVE  CreateInv'
<1>1. PICK c \in Clients, p0 \in Paths \ {Root} :
              /\ mq[c] \in Seq(Message) /\ mq[c] # <<>> /\ <<c, 1>> \in Slots
              /\ Creation(<<c, 1>>, p0)
              /\ dfs[p0] = "none" /\ dfs[Parent[p0]] = "dir" /\ Parent[p0] \in Paths
              /\ dfs' = [dfs EXCEPT ![p0] = kv[p0].type] /\ kv[p0].type \in Kind
              /\ mq' = [mq EXCEPT ![c] = Tail(@)] /\ DOMAIN mq = Clients
              /\ cpc' = [cpc EXCEPT ![n] = "recv"]
              /\ UNCHANGED <<kv, clientVars>>
  BY CommitEffect
<1> DEFINE Shift(s) == IF s[1] = c THEN <<c, s[2] + 1>> ELSE s
<1>2. TypeOK /\ UNCHANGED <<kv, dirtab, pc, call, ent, kids, load, prog>>
  BY <1>1 DEF BasicInv, clientVars
<1>3. /\ dfs'[p0] = kv[p0].type /\ kv[p0] # Null /\ kv[p0].type # "none"
      /\ \A p \in Paths : p # p0 => dfs'[p] = dfs[p]
      /\ \A t \in Slots : Creation(t, p0) => t = <<c, 1>>
  BY <1>1, <1>2 DEF TypeOK, CreateInv, CreationOK, Kind
<1>4. /\ mq'[c] = Tail(mq[c]) /\ Len(mq'[c]) = Len(mq[c]) - 1 /\ Len(mq[c]) \in Nat \ {0}
      /\ DOMAIN mq[c] = 1 .. Len(mq[c]) /\ DOMAIN mq'[c] = 1 .. Len(mq[c]) - 1
      /\ \A i \in 1 .. Len(mq[c]) - 1 : mq'[c][i] = mq[c][i + 1]
      /\ \A d \in Clients \ {c} : mq'[d] = mq[d]
  BY <1>1
<1>5. Len(mq[c]) <= MaxOps /\ MaxOps \in Nat
  <2>1. Len(prog[c]) \in Nat /\ MaxOps \in Nat
    BY <1>2, ConstantsAssumption DEF TypeOK
  <2>2. Len(mq[c]) + Len(prog[c]) <= MaxOps
    BY DEF CreateInv, ClientOK, QueueOK
  <2> QED BY <1>4, <2>1, <2>2, Fits
<1>6. Slots' = Slots
  BY DEF Slots
<1>7. ASSUME NEW s \in Slots, NEW p \in Paths
      PROVE  /\ Creation(s, p)' <=> Creation(Shift(s), p)
             /\ Creation(Shift(s), p) => Shift(s) \in Slots /\ CreationType(s)' = CreationType(Shift(s))
             /\ Creation(s, p)' => p # p0
  <2>1. s = <<s[1], s[2]>> /\ s[1] \in Clients /\ s[2] \in 1 .. MaxOps + 1
    BY DEF Slots
  <2>2. CASE s[1] = c
    <3>1. Shift(s) = <<c, s[2] + 1>> /\ s[2] \in Nat \ {0}
      BY <1>5, <2>1, <2>2
    <3>9. /\ s[2] \in DOMAIN mq'[c] <=> s[2] + 1 \in DOMAIN mq[c]
          /\ s[2] = Len(mq'[c]) + 1 <=> s[2] + 1 = Len(mq[c]) + 1
          /\ s[2] \in DOMAIN mq'[c] => mq'[c][s[2]] = mq[c][s[2] + 1]
      BY <1>4, <3>1
    <3>2. Creation(s, p)' <=> Creation(Shift(s), p)
      BY <1>2, <2>2, <3>1, <3>9 DEF Creation, Path
    <3>3. Creation(Shift(s), p) => s[2] + 1 <= Len(mq[c]) + 1
      BY <1>4, <3>1 DEF Creation
    <3>4. Creation(Shift(s), p) => Shift(s) \in Slots
      BY <1>4, <1>5, <3>1, <3>3 DEF Slots
    <3>5. Creation(Shift(s), p) => CreationType(s)' = CreationType(Shift(s))
      BY <1>2, <2>2, <3>1, <3>9 DEF CreationType, NewType
    <3>6. Shift(s) # <<c, 1>>
      BY <3>1
    <3> QED BY <1>3, <3>2, <3>4, <3>5, <3>6
  <2>3. CASE s[1] # c
    <3>1. Shift(s) = s /\ s # <<c, 1>>
      BY <2>1, <2>3
    <3>2. Creation(s, p)' <=> Creation(s, p)
      BY <1>2, <1>4, <2>1, <2>3 DEF Creation, Path
    <3>3. CreationType(s)' = CreationType(s)
      BY <1>2, <1>4, <2>1, <2>3 DEF CreationType, NewType
    <3> QED BY <1>3, <3>1, <3>2, <3>3
  <2> QED BY <2>2, <2>3
<1>8. ASSUME NEW s \in Slots, NEW p \in Paths \ {p0}, Creation(s, p)
      PROVE  \E t \in Slots : Creation(t, p)'
  <2>1. s = <<s[1], s[2]>> /\ s[1] \in Clients /\ s[2] \in 1 .. MaxOps + 1
    BY DEF Slots
  <2>2. CASE s[1] = c
    <3>1. s[2] # 1
      BY <1>1, <1>4, <1>8, <2>1, <2>2 DEF Creation
    <3>2. <<c, s[2] - 1>> \in Slots /\ s[2] - 1 + 1 = s[2]
      BY <1>5, <2>1, <3>1 DEF Slots
    <3>3. Shift(<<c, s[2] - 1>>) = s
      BY <2>1, <2>2, <3>2
    <3> QED BY <1>7, <1>8, <3>2, <3>3
  <2>3. CASE s[1] # c
    <3>1. Shift(s) = s
      BY <2>3
    <3> QED BY <1>7, <1>8, <3>1
  <2> QED BY <2>2, <2>3
<1> HIDE DEF Shift
<1>9. ASSUME NEW d \in Clients PROVE ClientOK(d)'
  <2>1. ClientOK(d) /\ CallOK(d)
    BY DEF CreateInv, BasicInv
  <2>2. \A k \in Call : LookupOK(k) => LookupOK(k)'
    BY <1>2, <1>3 DEF LookupOK, Call
  <2>3. ProgramOK(d)'
    <3>1. \A i \in DOMAIN prog[d] : prog[d][i] \in Call
      BY <1>2 DEF TypeOK
    <3> QED BY <1>2, <2>1, <2>2, <3>1 DEF ClientOK, ProgramOK
  <2>4. StepOK(d)'
    <3>1. pc[d] \in LookSteps => LookupOK(call[d])'
      BY <1>2, <2>1, <2>2 DEF ClientOK, StepOK, CallOK, LookSteps
    <3>2. pc[d] = "gadd" => dfs'[Path(d)] # "none"
      BY <1>2, <1>3, <2>1, Within DEF ClientOK, StepOK
    <3>3. pc[d] = "ladd" => load[d].type = dfs'[load[d].path]
      BY <1>1, <1>2, <1>3, <2>1 DEF ClientOK, StepOK, CallOK, TypeOK, Kind
    <3> QED BY <1>2, <2>1, <3>1, <3>2, <3>3 DEF ClientOK, StepOK, HoldsParent, DirEntry, Path, ParentOf
  <2>5. ListOK(d)' /\ TableOK(d)'
    BY <1>2, <1>3, <2>1 DEF ClientOK, ListOK, Listing, Listed, TableOK, DirEntry, Path, ParentOf
  <2>6. QueueOK(d)'
    <3>1. CASE d # c
      BY <1>2, <1>4, <2>1, <3>1 DEF ClientOK, QueueOK
    <3>2. CASE d = c
      <4>1. Len(prog[c]) \in Nat
        BY <1>2 DEF TypeOK
      <4>2. /\ Len(mq[c]) + Len(prog[c]) <= MaxOps
            /\ pc[c] # "idle" => Len(mq[c]) + Len(prog[c]) < MaxOps
            /\ \A i \in DOMAIN mq[c] : mq[c][i].op # "RM"
        BY <2>1, <3>2 DEF ClientOK, QueueOK
      <4>3. /\ Len(mq'[c]) + Len(prog[c]) <= MaxOps
            /\ pc[c] # "idle" => Len(mq'[c]) + Len(prog[c]) < MaxOps
        BY <1>4, <1>5, <4>1, <4>2, Shorter
      <4>4. \A i \in DOMAIN mq'[c] : mq'[c][i].op # "RM"
        BY <1>4, <4>2
      <4> QED BY <1>2, <3>2, <4>3, <4>4 DEF QueueOK
    <3> QED BY <3>1, <3>2
  <2> QED BY <2>3, <2>4, <2>5, <2>6 DEF ClientOK
<1>10. ASSUME NEW p \in Paths PROVE EntryOK(p)'
  <2>1. CASE p = p0
    <3>1. ~kv[p].rm
      BY <1>3, <2>1 DEF CreateInv, EntryOK
    <3> QED BY <1>2, <1>3, <2>1, <3>1 DEF EntryOK
  <2>2. CASE p # p0
    BY <1>2, <1>3, <1>6, <1>8, <2>2 DEF CreateInv, EntryOK
  <2> QED BY <2>1, <2>2
<1>11. ASSUME NEW p \in Paths \ {Root} PROVE ChildOK(p)'
  <2>1. ChildOK(p) /\ Parent[p] \in Paths
    BY ConstantsAssumption DEF CreateInv
  <2>2. CASE p = p0
    BY <1>1, <1>2, <1>3, <2>2 DEF ChildOK
  <2>3. CASE p # p0
    <3>1. dfs[p] # "none" => Parent[p] # p0
      BY <1>1, <2>1 DEF ChildOK
    <3> QED BY <1>2, <1>3, <2>1, <2>3, <3>1 DEF ChildOK
  <2> QED BY <2>2, <2>3
<1>12. ASSUME NEW s \in Slots, NEW p \in Paths PROVE CreationOK(s, p)'
  <2> SUFFICES ASSUME Creation(s, p)' PROVE CreationOK(s, p)'
    BY DEF CreationOK
  <2>1. p # p0 /\ Creation(Shift(s), p) /\ Shift(s) \in Slots /\ CreationType(s)' = CreationType(Shift(s))
    BY <1>7
  <2>2. /\ p # Root /\ dfs[p] = "none" /\ kv[p] # Null /\ kv[p].type = CreationType(Shift(s))
        /\ DirEntry(Parent[p]) /\ \A t \in Slots : Creation(t, p) => Shift(s) = t
    BY <2>1 DEF CreateInv, CreationOK
  <2>3. ASSUME NEW t \in Slots, Creation(t, p)' PROVE s = t
    <3>1. Shift(t) = Shift(s)
      BY <1>7, <2>2, <2>3
    <3>2. s = <<s[1], s[2]>> /\ t = <<t[1], t[2]>> /\ s[2] \in Int /\ t[2] \in Int
      BY <1>5 DEF Slots
    <3> QED BY <3>1, <3>2 DEF Shift
  <2> QED BY <1>2, <1>3, <1>6, <2>1, <2>2, <2>3 DEF CreationOK, DirEntry
<1>13. \A m \in Nodes : cpc'[m] \in {"recv", "try"}
  BY <1>1, <1>2 DEF CreateInv, TypeOK
<1> QED BY <1>6, <1>9, <1>10, <1>11, <1>12, <1>13 DEF CreateInv

\* Steps that leave the queues, the entries and the clients alone.
LEMMA CreateSame ==
    ASSUME CreateInv, UNCHANGED <<kv, dfs, mq, dirtab, pc, call, ent, kids, load, prog>>,
           \A m \in Nodes : cpc'[m] \in {"recv", "try"}
    PROVE  CreateInv'
<1>1. ASSUME NEW d \in Clients PROVE ClientOK(d)'
  <2>1. ClientOK(d)
    BY DEF CreateInv
  <2>2. ProgramOK(d)' /\ TableOK(d)' /\ QueueOK(d)'
    BY <2>1 DEF ClientOK, ProgramOK, TableOK, QueueOK, LookupOK, DirEntry
  <2>3. StepOK(d)'
    BY <2>1 DEF ClientOK, StepOK, LookupOK, DirEntry, HoldsParent, Path, ParentOf
  <2>4. ListOK(d)'
    BY <2>1 DEF ClientOK, ListOK, Listing, Listed, Path, ParentOf
  <2> QED BY <2>2, <2>3, <2>4 DEF ClientOK
<1>2. /\ \A s \in Slots, p \in Paths : Creation(s, p)' = Creation(s, p)
      /\ \A s \in Slots : CreationType(s)' = CreationType(s)
      /\ Slots' = Slots
  BY DEF Creation, CreationType, NewType, Path, Slots
<1>3. /\ \A p \in Paths : EntryOK(p)'
      /\ \A p \in Paths \ {Root} : ChildOK(p)'
  BY <1>2 DEF CreateInv, EntryOK, ChildOK
<1>4. \A s \in Slots, p \in Paths : CreationOK(s, p)'
  BY <1>2 DEF CreateInv, CreationOK, DirEntry
<1> QED BY <1>1, <1>2, <1>3, <1>4 DEF CreateInv

\* A commit thread takes a message that is a creation.
LEMMA CreateRecv ==
    ASSUME BasicInv, CreateInv, NEW n \in Nodes, NEW c \in Clients, CommitRecv(n, c)
    PROVE  CreateInv'
<1>1. /\ UNCHANGED <<kv, dfs, mq, dirtab, pc, call, ent, kids, load, prog>>
      /\ mq[c] # <<>> /\ mq[c] \in Seq(Message) /\ DOMAIN cpc = Nodes
  BY DEF CommitRecv, clientVars, BasicInv, TypeOK
<1>2. Head(mq[c]).op # "RM"
  <2>1. Head(mq[c]) = mq[c][1] /\ 1 \in DOMAIN mq[c]
    BY <1>1
  <2> QED BY <2>1 DEF CreateInv, ClientOK, QueueOK
<1>3. \A m \in Nodes : cpc'[m] \in {"recv", "try"}
  BY <1>1, <1>2 DEF CommitRecv, CreateInv
<1> QED BY <1>1, <1>3, CreateSame

\* Every step keeps the invariant.
LEMMA CreateStep == ASSUME BasicInv, CreateInv, [Next]_vars PROVE CreateInv'
<1>1. CASE UNCHANGED vars
  BY <1>1, CreateSame DEF vars, clientVars, CreateInv
<1> QED BY <1>1, CreateClient, CreateCommit, CreateRecv DEF Next

\* The invariant from which the consistency theorems follow.
THEOREM CreateInvariant == CreateOnly /\ Spec => []CreateInv
<1>1. BasicInv /\ CreateInv /\ [Next]_vars => CreateInv'
  BY CreateStep
<1>2. CreateOnly /\ Init => CreateInv
  BY CreateInit
<1> QED BY <1>1, <1>2, BasicInvariant, PTL DEF Spec

-----------------------------------------------------------------------------
(* What the region promises.                                               *)

\* Of all clients that create or make the same name one wins, its message is
\* the only one for the name and its commit finds the name free: retry_commit
\* does not repeat mkdir for ever and creat truncates nothing (pacon_mkdir,
\* pacon_create, listen_commit_mq).
THEOREM OneCreation == CreateOnly /\ Spec => []CreatedOnce
<1>1. CreateInv => CreatedOnce
  BY DEF CreateInv, CreationOK, CreatedOnce
<1> QED BY <1>1, CreateInvariant, PTL

\* Every live entry is in the DFS or its creation is on its way, behind a
\* parent that is a directory of the DFS or on its way itself: no commit waits
\* for something that will not come (check_parent_dir, add_to_mq).
THEOREM ParentsFirst == CreateOnly /\ Spec => []ParentsAhead
<1>1. CreateInv /\ BasicInv => ParentsAhead
  <2> SUFFICES ASSUME CreateInv, BasicInv PROVE ParentsAhead
    OBVIOUS
  <2>1. \A p \in Paths : Live(p) => \/ dfs[p] = kv[p].type
                                    \/ \E s \in Slots : Creation(s, p)
    BY DEF CreateInv, EntryOK, Live
  <2>2. ASSUME NEW p \in Paths \ {Root}, NEW s \in Slots, Creation(s, p)
        PROVE  dfs[Parent[p]] = "dir" \/ \E t \in Slots : Creation(t, Parent[p])
    <3>1. DirEntry(Parent[p]) /\ Parent[p] \in Paths
      BY <2>2, ConstantsAssumption DEF CreateInv, CreationOK
    <3> QED BY <3>1 DEF CreateInv, EntryOK, DirEntry
  <2> QED BY <2>1, <2>2 DEF ParentsAhead
<1> QED BY <1>1, CreateInvariant, BasicInvariant, PTL

\* The table of checked parents is safe to rely on, STAT_child_check too, and no
\* parent check runs into a NULL entry (check_parent_dir).
THEOREM ChecksComplete == CreateOnly /\ Spec => []CheckedComplete
<1>1. CreateInv => CheckedComplete
  BY DEF CreateInv, ClientOK, StepOK, ChildOK, CheckedComplete, MakeSteps, LookSteps
<1> QED BY <1>1, CreateInvariant, PTL

\* Partial consistency: when nothing is queued and no call is under way, the DFS
\* holds exactly the namespace that the clients see.
THEOREM PartialConsistency == CreateOnly /\ Spec => []QuiescentAgreement
<1>1. CreateInv /\ BasicInv => QuiescentAgreement
  <2> SUFFICES ASSUME CreateInv, BasicInv, Quiescent, NEW p \in Paths PROVE dfs[p] = Visible(p)
    BY DEF QuiescentAgreement
  <2>1. \A s \in Slots : ~Creation(s, p)
    BY DEF Quiescent, Creation, Slots
  <2> QED BY <2>1 DEF CreateInv, EntryOK, Visible
<1> QED BY <1>1, CreateInvariant, BasicInvariant, PTL

-----------------------------------------------------------------------------
(* The region implements LinearNamespace.                                  *)

\* What the clients see, and who has changed it.
Seen == [p \in Paths |-> Visible(p)]
Taken == [c \in Clients |-> pc[c] \in {"send", "rsend"}]

\* Since nothing is removed, an entry shows its type.
LEMMA VisibleIs ==
    ASSUME CreateInv, NEW p \in Paths
    PROVE  Visible(p) = IF kv[p] = Null THEN dfs[p] ELSE kv[p].type
  BY DEF CreateInv, EntryOK, Visible

\* The initial states map to initial states.
LEMMA LinearInit == ASSUME Init PROVE LN!Init
<1>1. PICK s \in Setups : dfs = s.dfs
  BY DEF Init
<1>2. dfs \in [Paths -> {"none", "dir", "file"}] /\ dfs[Root] = "dir"
  BY <1>1, ConstantsAssumption
<1>3. \A p \in Paths : Visible(p) = dfs[p]
  BY <1>2, ConstantsAssumption DEF Init, Visible, LoadedEntry
<1>4. [p \in Paths |-> Visible(p)] = dfs
  BY <1>2, <1>3
<1>5. [p \in Paths |-> Visible(p)] \in {x.dfs : x \in Setups}
  BY <1>1, <1>4
<1>6. [c \in Clients |-> pc[c] \in {"send", "rsend"}] = [c \in Clients |-> FALSE]
  <2>1. \A c \in Clients : (pc[c] \in {"send", "rsend"}) = FALSE
    BY DEF Init
  <2> QED BY <2>1, Zenon
<1> QED BY <1>5, <1>6 DEF Init, LN!Init

\* A step after which every name looks the same.
LEMMA SameView ==
    ASSUME CreateInv, CreateInv', \A p \in Paths : kv[p] # Null => kv'[p] # Null /\ kv'[p].type = kv[p].type,
           \A p \in Paths : kv[p] = Null =>
              IF kv'[p] = Null THEN dfs'[p] = dfs[p] ELSE kv'[p].type = dfs[p]
    PROVE  Seen' = Seen
<1>1. ASSUME NEW p \in Paths PROVE Visible(p)' = Visible(p)
  <2>1. Visible(p)' = IF kv'[p] = Null THEN dfs'[p] ELSE kv'[p].type
    BY DEF CreateInv, EntryOK, Visible
  <2> QED BY <2>1, VisibleIs
<1> QED BY <1>1 DEF Seen

\* Nobody's call ends or takes effect.
LEMMA LinearStutter ==
    ASSUME NEW c \in Clients, Others(c), pc[c] \notin {"send", "rsend"}, pc'[c] \notin {"send", "rsend"},
           call' = call, Seen' = Seen
    PROVE  UNCHANGED LN!vars
<1>1. \A d \in Clients : (pc'[d] \in {"send", "rsend"}) = (pc[d] \in {"send", "rsend"})
  BY DEF Others
<1> QED BY <1>1 DEF LN!vars, Seen

\* A call returns.
LEMMA LinearEnd ==
    ASSUME NEW c \in Clients, Others(c), pc'[c] = "idle", call' = [call EXCEPT ![c] = NoCall],
           Seen' = Seen
    PROVE  LN!End(c)
<1>1. /\ (pc'[c] \in {"send", "rsend"}) = FALSE
      /\ \A d \in Clients \ {c} :
            (pc'[d] \in {"send", "rsend"}) = (pc[d] \in {"send", "rsend"})
  BY DEF Others
<1>2. Taken' = [Taken EXCEPT ![c] = FALSE]
  BY <1>1 DEF Taken
<1> QED BY <1>2 DEF LN!End, Seen, Taken

\* A call begins.
LEMMA LinearStart ==
    ASSUME BasicInv, CreateInv, CreateInv', NEW c \in Clients, Start(c)
    PROVE  LN!Begin(c)
<1>1. /\ pc[c] = "idle" /\ call[c] = NoCall /\ Head(prog[c]) \in Call
      /\ call' = [call EXCEPT ![c] = Head(prog[c])] /\ UNCHANGED <<kv, dfs>>
      /\ pc'[c] \notin {"send", "rsend"}
  BY Within DEF Start, CallOK, TypeOK, Go, FirstStep
<1>2. Others(c)
  BY ClientOthers
<1>3. Seen' = Seen
  BY <1>1, SameView
<1>4. \A d \in Clients : (pc'[d] \in {"send", "rsend"}) = (pc[d] \in {"send", "rsend"})
  BY <1>1, <1>2 DEF Others
<1> QED BY <1>1, <1>3, <1>4 DEF LN!Begin, Seen

\* The only step that the others can see: dmkv_add of the new entry.
LEMMA LinearAdd ==
    ASSUME BasicInv, CreateInv, CreateInv', NEW c \in Clients, Add(c)
    PROVE  LN!Next \/ UNCHANGED LN!vars
<1> DEFINE p0 == Path(c)
<1>1. pc[c] = "add" /\ call' = call /\ dfs' = dfs
  BY DEF Add, local
<1>2. /\ p0 \in Paths \ {Root} /\ DOMAIN pc = Clients /\ DOMAIN kv = Paths
      /\ Parent[p0] \in dirtab[c] /\ Parent[p0] \in Paths /\ DirEntry(Parent[p0])
      /\ call[c].op \in {"mkdir", "create"}
  BY <1>1, Inside DEF StepOK, MakeSteps, TableOK, ParentOf, TypeOK
<1>3. Others(c)
  BY ClientOthers DEF ClientStep
<1>4. CASE kv[p0] # Null
  <2>1. kv' = kv /\ pc'[c] = "exists"
    BY <1>2, <1>4 DEF Add, AddIfAbsent, Go
  <2>2. Seen' = Seen
    BY <1>1, <2>1, SameView
  <2> QED BY <1>1, <1>3, <2>1, <2>2, LinearStutter
<1>5. CASE kv[p0] = Null
  <2>1. /\ pc'[c] = "send" /\ kv'[p0].type = NewType(c) /\ kv'[p0] # Null
        /\ \A p \in Paths : p # p0 => kv'[p] = kv[p]
    <3>1. NewEntry(NewType(c)) \in Entry /\ NewEntry(NewType(c)).type = NewType(c)
      BY DEF NewEntry, NewType, Entry, Kind
    <3> QED BY <1>2, <1>5, <3>1, ConstantsAssumption DEF Add, AddIfAbsent, Write, Go
  <2>2. Visible(p0) = "none" /\ Visible(Parent[p0]) = "dir"
    <3>1. dfs[p0] = "none"
      BY <1>2, <1>5 DEF CreateInv, ChildOK
    <3> QED BY <1>2, <1>5, <3>1, VisibleIs DEF DirEntry
  <2>3. ASSUME NEW p \in Paths
        PROVE  Visible(p)' = IF p = p0 THEN NewType(c) ELSE Visible(p)
    <3>1. Visible(p)' = IF kv'[p] = Null THEN dfs'[p] ELSE kv'[p].type
      BY DEF CreateInv, EntryOK, Visible
    <3> QED BY <1>1, <2>1, <3>1, VisibleIs
  <2>4. Seen' = [Seen EXCEPT ![p0] = NewType(c)]
    BY <2>3 DEF Seen
  <2>5. Taken' = [Taken EXCEPT ![c] = TRUE] /\ ~Taken[c]
    <3>1. /\ (pc'[c] \in {"send", "rsend"}) = TRUE /\ pc[c] \notin {"send", "rsend"}
          /\ \A d \in Clients \ {c} :
                (pc'[d] \in {"send", "rsend"}) = (pc[d] \in {"send", "rsend"})
      BY <1>1, <1>3, <2>1 DEF Others
    <3> QED BY <3>1 DEF Taken
  <2>6. LN!Make(c, NewType(c))
    BY <1>1, <1>2, <2>2, <2>4, <2>5 DEF LN!Make, LN!Took, Seen, Taken, Path
  <2>7. LN!Mkdir(c) \/ LN!Create(c)
    BY <1>2, <2>6 DEF LN!Mkdir, LN!Create, NewType
  <2> QED BY <2>7 DEF LN!Next
<1> QED BY <1>4, <1>5

\* Every other step of a call leaves what the clients see as it is.
LEMMA LinearQuiet ==
    ASSUME BasicInv, CreateInv, CreateInv', NEW c \in Clients, ClientStep(c), ~Add(c)
    PROVE  LN!End(c) \/ UNCHANGED LN!vars
<1>1. Others(c) /\ Grows /\ dfs' = dfs /\ DOMAIN pc = Clients /\ TypeOK
  BY ClientOthers, ClientGrows, Within DEF TypeOK
<1>2. ASSUME NEW p \in Paths, kv[p] = Null, kv'[p] # Null PROVE kv'[p].type = dfs[p]
  <2>1. CASE LoadAdd(c)
    <3>1. pc[c] = "ladd" /\ load[c].type = dfs[load[c].path] /\ load[c].path \in Paths
      BY <1>1, <2>1, Inside DEF LoadAdd, StepOK, TypeOK
    <3> QED BY <1>1, <1>2, <2>1, <3>1 DEF LoadAdd, AddIfAbsent, Write, LoadedEntry, TypeOK
  <2>2. CASE ParentCas(c)
    <3>1. kv[ParentOf(c)] # Null
      BY <2>2, Inside DEF ParentCas, StepOK, HoldsParent, DirEntry
    <3> QED BY <1>1, <1>2, <2>2, <3>1 DEF ParentCas, Write, TypeOK
  <2>3. CASE GetattrAdd(c)
    <3>1. kv[Path(c)] # Null
      BY <2>3, Inside DEF GetattrAdd, StepOK, LookSteps, LookupOK, Path
    <3> QED BY <1>2, <2>3, <3>1 DEF GetattrAdd, AddIfAbsent
  <2> QED
    BY <1>2, <2>1, <2>2, <2>3, Reached
    DEF ParentStep, LoadStat, ParentCheck, ParentGet, ParentOpen, ParentKids, ParentReget,
        Exists, Send, Getattr, GetattrStat
<1>3. Seen' = Seen
  BY <1>1, <1>2, SameView DEF Grows
<1>4. \/ pc'[c] = "idle" /\ call' = [call EXCEPT ![c] = NoCall]
      \/ call' = call /\ pc[c] \notin {"send", "rsend"} /\ pc'[c] \notin {"send", "rsend"}
  <2> USE <1>1, Inside DEF Go, Return, Crash, local
  <2>1. CASE LoadStat(c) \/ LoadAdd(c)
    BY <2>1 DEF LoadStat, LoadAdd, CallOK
  <2>2. CASE ParentCheck(c) \/ ParentGet(c)
    BY <2>2 DEF ParentCheck, ParentGet, ParentFound, Load
  <2>3. CASE ParentOpen(c) \/ ParentKids(c) \/ ParentCas(c) \/ ParentReget(c)
    BY <2>3 DEF ParentOpen, ParentKids, ParentCas, ParentReget, Load
  <2>4. CASE Send(c)
    BY <2>4 DEF Send, Queue
  <2>5. CASE Exists(c)
    <3>1. /\ pc[c] = "exists" /\ call[c].op \in {"mkdir", "create"}
      BY <2>5 DEF Exists, StepOK, MakeSteps
    <3> QED BY <2>5, <3>1 DEF Exists
  <2>6. CASE Getattr(c) \/ GetattrStat(c) \/ GetattrAdd(c)
    BY <2>6 DEF Getattr, GetattrStat, GetattrAdd
  <2> QED BY <2>1, <2>2, <2>3, <2>4, <2>5, <2>6, Reached DEF ParentStep
<1> QED BY <1>1, <1>3, <1>4, LinearEnd, LinearStutter

\* Commits are invisible.
LEMMA LinearCommit ==
    ASSUME BasicInv, CreateInv, CreateInv', NEW n \in Nodes,
           CommitStep(n) \/ \E c \in Clients : CommitRecv(n, c)
    PROVE  UNCHANGED LN!vars
<1>1. UNCHANGED <<kv, pc, call>> /\ \A p \in Paths : kv[p] = Null => dfs'[p] = dfs[p]
  <2>1. CASE CommitStep(n)
    <3>1. PICK c \in Clients, p0 \in Paths \ {Root} :
                /\ <<c, 1>> \in Slots /\ Creation(<<c, 1>>, p0)
                /\ dfs' = [dfs EXCEPT ![p0] = kv[p0].type] /\ UNCHANGED <<kv, clientVars>>
      BY <2>1, CommitEffect
    <3>2. kv[p0] # Null
      BY <3>1 DEF CreateInv, CreationOK
    <3> QED BY <3>1, <3>2 DEF clientVars, BasicInv, TypeOK
  <2>2. CASE \E c \in Clients : CommitRecv(n, c)
    BY <2>2 DEF CommitRecv, clientVars
  <2> QED BY <2>1, <2>2
<1>2. Seen' = Seen
  BY <1>1, SameView
<1> QED BY <1>1, <1>2 DEF LN!vars, Seen

\* Strong consistency inside the region, of effects: what the clients see is one
\* namespace that each mkdir or create changes at most once, in one step between
\* its begin and its end, when the name is free and its parent is a directory;
\* loads, lookups, parent checks, queueing and commits are invisible.  What a
\* call returns is not part of it.
THEOREM StrongConsistency == CreateOnly /\ Spec => Linearizable
<1>1. Init => LN!Init
  BY LinearInit
<1>2. ASSUME BasicInv, CreateInv, [Next]_vars PROVE [LN!Next]_(LN!vars)
  <2>1. CreateInv'
    BY <1>2, CreateStep
  <2>2. ASSUME NEW c \in Clients, Start(c) \/ ClientStep(c) PROVE [LN!Next]_(LN!vars)
    BY <1>2, <2>1, <2>2, LinearStart, LinearAdd, LinearQuiet DEF LN!Next
  <2>3. ASSUME NEW n \in Nodes, CommitStep(n) \/ \E c \in Clients : CommitRecv(n, c)
        PROVE  [LN!Next]_(LN!vars)
    BY <1>2, <2>1, <2>3, LinearCommit
  <2>4. CASE UNCHANGED vars
    <3>1. UNCHANGED <<kv, dfs, pc, call>>
      BY <2>4 DEF vars, clientVars
    <3> QED BY <3>1 DEF LN!vars, Visible
  <2> QED BY <1>2, <2>2, <2>3, <2>4 DEF Next
<1> QED BY <1>1, <1>2, CreateInvariant, BasicInvariant, PTL DEF Spec, Linearizable, LN!Spec
=============================================================================
