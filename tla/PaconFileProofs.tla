--------------------------- MODULE PaconFileProofs ---------------------------
(***************************************************************************)
(* Proofs about PaconFile, for every number of clients and nodes and every *)
(* limit: the entries are well formed in every program, and concurrent     *)
(* inline writes all take effect in programs that stay inline.             *)
(***************************************************************************)
EXTENDS PaconFile, TLAPS

-----------------------------------------------------------------------------
(* Bytes and entries.                                                      *)

AnyByte == Letters \cup {Junk, Hole}
Data == Seq(AnyByte)
Good == {e \in Entry \cup {Null} : EntryOK(e)}

\* pwrite makes the file as long as it has to be.
LEMMA OverlayType ==
    ASSUME NEW S, Hole \in S, NEW s \in Seq(S), NEW off \in Nat, NEW buf \in Seq(S)
    PROVE  /\ Overlay(s, off, buf) \in Seq(S)
           /\ Len(Overlay(s, off, buf)) = Larger(Len(s), off + Len(buf))
<1> DEFINE n == Larger(Len(s), off + Len(buf))
           F == [i \in 1 .. n |-> IF i \in off + 1 .. off + Len(buf) THEN buf[i - off]
                                  ELSE IF i <= Len(s) THEN s[i] ELSE Hole]
<1>1. n \in Nat
  BY DEF Larger
<1>2. ASSUME NEW i \in 1 .. n
      PROVE  (IF i \in off + 1 .. off + Len(buf) THEN buf[i - off]
              ELSE IF i <= Len(s) THEN s[i] ELSE Hole) \in S
  <2>1. CASE i \in off + 1 .. off + Len(buf)
    <3>1. i - off \in 1 .. Len(buf)
      BY <1>1, <2>1
    <3> QED BY <2>1, <3>1
  <2>2. CASE i \notin off + 1 .. off + Len(buf)
    BY <1>1, <2>2
  <2> QED BY <2>1, <2>2
<1>3. F \in [1 .. n -> S]
  <2> HIDE DEF n
  <2> QED BY <1>2
<1> HIDE DEF n
<1>4. F \in Seq(S) /\ Len(F) = n
  <2> HIDE DEF F
  <2> QED BY <1>1, <1>3
<1> QED BY <1>4 DEF Overlay, n

\* deseri_inline_data gives as many bytes as the size says.
LEMMA BytesType ==
    ASSUME NEW e \in Entry
    PROVE  Bytes(e) \in Data /\ Len(Bytes(e)) = e.size
<1>1. e.size \in Nat /\ e.data \in Data
  BY DEF Entry, Data, AnyByte
<1>2. \A i \in 1 .. e.size : (IF i <= Len(e.data) THEN e.data[i] ELSE Junk) \in AnyByte
  BY <1>1 DEF Data, AnyByte
<1>3. Bytes(e) \in [1 .. e.size -> AnyByte]
  BY <1>2 DEF Bytes
<1> QED BY <1>1, <1>3 DEF Data

\* seri_inline_data keeps the length.
LEMMA SerialisedType ==
    ASSUME NEW s \in Data, NEW d \in Serialised(s)
    PROVE  d \in Data /\ Len(d) = Len(s)
<1> DEFINE F == [i \in DOMAIN s |-> IF \E j \in 1 .. i : s[j] = Junk THEN Junk ELSE s[i]]
<1>1. DOMAIN s = 1 .. Len(s) /\ Len(s) \in Nat
  BY DEF Data
<1>2. \A i \in DOMAIN s : s[i] \in AnyByte
  BY DEF Data
<1>3. F \in [1 .. Len(s) -> AnyByte]
  BY <1>1, <1>2 DEF AnyByte
<1>4. F \in Data /\ Len(F) = Len(s)
  <2> HIDE DEF F
  <2> QED BY <1>1, <1>3 DEF Data
<1> QED BY <1>4 DEF Serialised

\* The three ways in which entries are made.
LEMMA NotInlineGood ==
    ASSUME NEW n \in Nat, NEW created \in BOOLEAN
    PROVE  /\ NotInline(n, created) \in Good /\ NotInline(n, created) # Null
           /\ NotInline(n, created).created = created
<1>1. NotInline(n, created) \in Entry
  BY DEF NotInline, Entry
<1>2. /\ NotInline(n, created).data = <<>> /\ NotInline(n, created).size = n
      /\ ~ NotInline(n, created).inline /\ NotInline(n, created).created = created
  BY DEF NotInline
<1>3. Len(<<>>) <= n
  OBVIOUS
<1> QED BY <1>1, <1>2, <1>3, FileAssumption DEF Good, EntryOK

\* ... with inline data,
LEMMA InlineGood ==
    ASSUME NEW d \in Data, Len(d) < Limit, NEW created \in BOOLEAN
    PROVE  /\ Inline(d, created) \in Good /\ Inline(d, created) # Null
           /\ Inline(d, created).created = created
<1>1. Inline(d, created) \in Entry
  BY DEF Inline, Entry, Data, AnyByte
<1>2. /\ Inline(d, created).data = d /\ Inline(d, created).size = Len(d)
      /\ Inline(d, created).created = created
  BY DEF Inline
<1>3. Len(d) <= Len(d)
  BY DEF Data
<1> QED BY <1>1, <1>2, <1>3, FileAssumption DEF Good, EntryOK

\* ... and with the data cut off.
LEMMA TruncatedGood ==
    ASSUME NEW e \in Good, e # Null
    PROVE  Truncated(e) \in Good /\ Truncated(e) # Null /\ Truncated(e).created = e.created
<1>1. e \in Entry /\ EntryOK(e)
  BY DEF Good
<1>2. Truncated(e) \in Entry
  <2>1. <<>> \in Seq(Letters \cup {Junk, Hole})
    OBVIOUS
  <2>2. Truncated(e) = [inline |-> e.inline, created |-> e.created, size |-> e.size, data |-> <<>>]
    BY <1>1 DEF Truncated, Entry
  <2> QED BY <1>1, <2>1, <2>2 DEF Entry
<1>3. /\ Truncated(e).data = <<>> /\ Truncated(e).size = e.size /\ Truncated(e).inline = e.inline
      /\ Truncated(e).created = e.created /\ e.size \in Nat
  BY <1>1 DEF Truncated, Entry
<1>4. Len(<<>>) <= e.size
  BY <1>3
<1> QED BY <1>1, <1>2, <1>3, <1>4, FileAssumption DEF Good, EntryOK

-----------------------------------------------------------------------------
(* Type correctness, for every program.                                    *)

WriteSteps == {"direct", "wcas", "wopen", "winline", "pwrite", "update", "qwrite"}
\* Steps that use the entry that was got.
EntrySteps == {"ocas", "oadd", "wcas", "wopen", "winline", "pwrite", "update"}
Steps == WriteSteps \cup EntrySteps \cup {"idle", "qcreate", "ostat", "rdfs"}

\* An entry that says so is of a file that is in the DFS.
Made(e, d) == e # Null /\ e.created => d # NoFile

\* Client c at step p of the first of its calls t, with the entry e, the open
\* flag f and d in the DFS: an inline write was found to fit, and a file that
\* is open is in the DFS.
Sound(p, t, e, f, d) ==
    /\ p # "idle" => t # <<>>
    /\ p \in WriteSteps => Head(t).op = "write"
    /\ p \in EntrySteps => e # Null
    /\ p = "wcas" => Larger(Head(t).off + Len(Head(t).buf), e.size) < Limit
    /\ f \/ p \in {"ocas", "oadd", "winline", "pwrite"} => d # NoFile
    /\ Made(e, d)

FileInv ==
    /\ kv \in Good /\ token \in SUBSET Clients /\ evict \in BOOLEAN
    /\ dfs \in Data \cup {NoFile}
    /\ ent \in [Clients -> Good] /\ commit \in [Nodes -> Good \cup {Dead}]
    /\ fd \in [Clients -> BOOLEAN] /\ pc \in [Clients -> Steps]
    /\ todo \in [Clients -> Seq(AllCalls)]
    /\ mq \in [Clients -> Seq({"CREATE", "WRITE"})]
    /\ \A c \in Clients : Sound(pc[c], todo[c], ent[c], fd[c], dfs)
    /\ \A n \in Nodes : commit[n] # Null => dfs # NoFile
    /\ Made(kv, dfs)

\* There is no entry at the start.
LEMMA FileInit == ASSUME Init PROVE FileInv
<1>1. PICK s \in Setups : dfs = s.dfs /\ todo = s.todo /\ evict = s.evict
  BY DEF Init
<1>2. evict \in BOOLEAN /\ dfs \in Data \cup {NoFile}
  BY <1>1, FileAssumption DEF Data, AnyByte
<1>3. todo \in [Clients -> Seq(AllCalls)]
  BY <1>1, FileAssumption
<1>4. Null \in Good
  BY DEF Good, EntryOK
<1> QED BY <1>2, <1>3, <1>4 DEF Init, FileInv, Sound, Made, Steps, WriteSteps, EntrySteps

\* One cell of a function is given a value.
Cell(f, g, c, S) == \E x \in S : g = [f EXCEPT ![c] = x]

\* A cell may keep its value.
LEMMA CellSame ==
    ASSUME NEW D, NEW S, NEW f \in [D -> S], NEW c \in D
    PROVE  Cell(f, f, c, S)
<1>1. f = [f EXCEPT ![c] = f[c]]
  OBVIOUS
<1> QED BY <1>1 DEF Cell

\* What a step of client c has to establish.
ClientEffect(c) ==
    /\ kv' \in Good /\ Made(kv', dfs') /\ token' \in SUBSET Clients
    /\ dfs' \in Data \cup {NoFile} /\ (dfs # NoFile => dfs' # NoFile)
    /\ Cell(ent, ent', c, Good) /\ Cell(fd, fd', c, BOOLEAN) /\ Cell(pc, pc', c, Steps)
    /\ Cell(todo, todo', c, Seq(AllCalls))
    /\ Sound(pc'[c], todo'[c], ent'[c], fd'[c], dfs')

\* A step of one client leaves the other clients and the commit threads sound.
LEMMA ClientSound ==
    ASSUME FileInv, NEW c \in Clients, ClientEffect(c), UNCHANGED <<commit, evict>>,
           mq' \in [Clients -> Seq({"CREATE", "WRITE"})]
    PROVE  FileInv'
<1>1. ent' \in [Clients -> Good] /\ \A d \in Clients \ {c} : ent'[d] = ent[d]
  <2>1. ent \in [Clients -> Good] /\ Cell(ent, ent', c, Good)
    BY DEF ClientEffect, FileInv
  <2> QED BY <2>1 DEF Cell
<1>2. fd' \in [Clients -> BOOLEAN] /\ \A d \in Clients \ {c} : fd'[d] = fd[d]
  <2>1. fd \in [Clients -> BOOLEAN] /\ Cell(fd, fd', c, BOOLEAN)
    BY DEF ClientEffect, FileInv
  <2> QED BY <2>1 DEF Cell
<1>3. pc' \in [Clients -> Steps] /\ \A d \in Clients \ {c} : pc'[d] = pc[d]
  <2>1. pc \in [Clients -> Steps] /\ Cell(pc, pc', c, Steps)
    BY DEF ClientEffect, FileInv
  <2> QED BY <2>1 DEF Cell
<1>4. todo' \in [Clients -> Seq(AllCalls)] /\ \A d \in Clients \ {c} : todo'[d] = todo[d]
  <2>1. todo \in [Clients -> Seq(AllCalls)] /\ Cell(todo, todo', c, Seq(AllCalls))
    BY DEF ClientEffect, FileInv
  <2> QED BY <2>1 DEF Cell
<1>5. \A d \in Clients \ {c} : Sound(pc[d], todo[d], ent[d], fd[d], dfs')
  BY DEF ClientEffect, FileInv, Sound, Made
<1>6. \A d \in Clients : Sound(pc'[d], todo'[d], ent'[d], fd'[d], dfs')
  BY <1>1, <1>2, <1>3, <1>4, <1>5, Zenon DEF ClientEffect
<1>7. \A n \in Nodes : commit'[n] # Null => dfs' # NoFile
  BY DEF ClientEffect, FileInv
<1> QED BY <1>1, <1>2, <1>3, <1>4, <1>6, <1>7 DEF ClientEffect, FileInv

\* The parts of the effect: where the client goes, and what it gets.
LEMMA GotoEffect ==
    ASSUME FileInv, NEW c \in Clients, NEW p \in Steps, Goto(c, p)
    PROVE  /\ Cell(pc, pc', c, Steps) /\ Cell(todo, todo', c, Seq(AllCalls))
           /\ pc'[c] = p /\ todo'[c] = todo[c]
<1>1. Cell(todo, todo, c, Seq(AllCalls))
  BY CellSame DEF FileInv
<1> QED BY <1>1 DEF Goto, Cell, FileInv

\* A call returns.
LEMMA ReturnEffect ==
    ASSUME FileInv, NEW c \in Clients, todo[c] # <<>>, Return(c)
    PROVE  /\ Cell(pc, pc', c, Steps) /\ Cell(todo, todo', c, Seq(AllCalls))
           /\ pc'[c] = "idle" /\ todo'[c] = Tail(todo[c])
<1>1. Tail(todo[c]) \in Seq(AllCalls)
  BY DEF FileInv
<1> QED BY <1>1 DEF Return, Cell, FileInv, Steps

\* What a step leaves alone.
LEMMA StayEffect ==
    ASSUME FileInv, NEW c \in Clients
    PROVE  /\ UNCHANGED <<pc, todo>> => Cell(pc, pc', c, Steps) /\ Cell(todo, todo', c, Seq(AllCalls))
           /\ UNCHANGED ent => Cell(ent, ent', c, Good) /\ ent'[c] = ent[c]
           /\ UNCHANGED fd => Cell(fd, fd', c, BOOLEAN) /\ fd'[c] = fd[c]
           /\ \A b \in BOOLEAN : fd' = [fd EXCEPT ![c] = b] => Cell(fd, fd', c, BOOLEAN) /\ fd'[c] = b
<1>1. /\ Cell(pc, pc, c, Steps) /\ Cell(todo, todo, c, Seq(AllCalls))
      /\ Cell(ent, ent, c, Good) /\ Cell(fd, fd, c, BOOLEAN)
  <2> HIDE DEF Good, Steps
  <2> QED BY CellSame DEF FileInv
<1>2. \A b \in BOOLEAN : fd' = [fd EXCEPT ![c] = b] => Cell(fd, fd', c, BOOLEAN) /\ fd'[c] = b
  BY DEF Cell, FileInv
<1> QED BY <1>1, <1>2

\* dmkv_get_cas.
LEMMA GetEffect ==
    ASSUME FileInv, NEW c \in Clients, GetCas(c)
    PROVE  Cell(ent, ent', c, Good) /\ ent'[c] = kv /\ token' \in SUBSET Clients
  BY DEF GetCas, Cell, FileInv

\* The call that a client is in.
LEMMA CallType ==
    ASSUME FileInv, NEW c \in Clients, todo[c] # <<>>
    PROVE  /\ Call(c) \in AllCalls
           /\ Call(c).op \in {"write", "create_write"} => Call(c).buf \in Seq(Letters) /\ Call(c).buf \in Data
           /\ Call(c).op = "write" => Call(c).off \in Nat
<1>1. Call(c) \in AllCalls
  BY DEF Call, FileInv
<1>2. Seq(Letters) \subseteq Data
  BY DEF Data, AnyByte
<1> QED BY <1>1, <1>2, FileAssumption

\* A client at a step of pacon_write_new is in a write.
LEMMA WriteCall ==
    ASSUME FileInv, NEW c \in Clients, pc[c] \in WriteSteps
    PROVE  /\ todo[c] # <<>> /\ Call(c).op = "write"
           /\ Call(c).buf \in Seq(Letters) /\ Call(c).buf \in Data /\ Call(c).off \in Nat
<1>1. todo[c] # <<>> /\ Call(c).op = "write"
  BY DEF FileInv, Sound, Call, WriteSteps
<1> QED BY <1>1, CallType

\* What the DFS holds after a pwrite.
LEMMA PwriteType ==
    ASSUME FileInv, dfs # NoFile, NEW off \in Nat, NEW buf \in Data, dfs' = Overlay(dfs, off, buf)
    PROVE  dfs' \in Data \cup {NoFile} /\ dfs' # NoFile
<1>1. dfs \in Seq(AnyByte) /\ Hole \in AnyByte /\ buf \in Seq(AnyByte)
  BY DEF FileInv, Data, AnyByte
<1>2. dfs' \in Seq(AnyByte)
  BY <1>1, OverlayType
<1> QED BY <1>2, FileAssumption DEF Data, AnyByte

\* pacon_create and pacon_create_write.
LEMMA CreateSteps ==
    ASSUME FileInv, NEW c \in Clients, Create(c) \/ CreateWrite(c) \/ AddToMq(c)
    PROVE  FileInv'
<1> USE DEF WriteSteps, EntrySteps
<1>1. todo[c] # <<>> /\ UNCHANGED <<commit, evict, dfs, ent>>
  BY DEF Create, CreateWrite, AddToMq, Calls, FileInv, Sound
<1>2. CASE Create(c)
  <2>1. /\ UNCHANGED mq
        /\ \/ Store(NotInline(0, FALSE)) /\ fd' = [fd EXCEPT ![c] = FALSE] /\ Goto(c, "qcreate")
           \/ Return(c) /\ UNCHANGED <<kv, token, fd>>
    BY <1>2 DEF Create
  <2>2. kv' \in Good /\ Made(kv', dfs') /\ token' \in SUBSET Clients
    BY <1>1, <2>1, NotInlineGood DEF Store, FileInv, Made
  <2>3. Cell(ent, ent', c, Good) /\ Cell(fd, fd', c, BOOLEAN) /\ fd'[c] \in {FALSE, fd[c]}
    BY <1>1, <2>1, StayEffect
  <2>4. /\ Cell(pc, pc', c, Steps) /\ Cell(todo, todo', c, Seq(AllCalls))
        /\ \/ pc'[c] = "qcreate" /\ todo'[c] = todo[c]
           \/ pc'[c] = "idle"
    BY <1>1, <2>1, GotoEffect, ReturnEffect DEF Steps
  <2>5. Sound(pc'[c], todo'[c], ent'[c], fd'[c], dfs')
    BY <1>1, <2>3, <2>4 DEF Sound, FileInv
  <2>6. ClientEffect(c)
    BY <1>1, <2>2, <2>3, <2>4, <2>5 DEF ClientEffect, FileInv
  <2> QED BY <1>1, <2>1, <2>6, ClientSound DEF FileInv
<1>3. CASE CreateWrite(c)
  <2>1. /\ UNCHANGED mq
        /\ \/ Store(Inline(Call(c).buf, FALSE)) /\ Len(Call(c).buf) < Limit
           \/ UNCHANGED <<kv, token>>
        /\ \/ fd' = [fd EXCEPT ![c] = FALSE] /\ Goto(c, "qcreate")
           \/ Return(c) /\ UNCHANGED fd
    BY <1>3 DEF CreateWrite
  <2>2. kv' \in Good /\ Made(kv', dfs') /\ token' \in SUBSET Clients
    <3>1. Call(c).buf \in Data
      BY <1>1, <1>3, CallType DEF CreateWrite, Calls
    <3>2. Len(Call(c).buf) < Limit =>
            Inline(Call(c).buf, FALSE) \in Good /\ Inline(Call(c).buf, FALSE).created = FALSE
      BY <3>1, InlineGood
    <3> QED BY <1>1, <2>1, <3>2 DEF Store, FileInv, Made
  <2>3. Cell(ent, ent', c, Good) /\ Cell(fd, fd', c, BOOLEAN) /\ fd'[c] \in {FALSE, fd[c]}
    BY <1>1, <2>1, StayEffect
  <2>4. /\ Cell(pc, pc', c, Steps) /\ Cell(todo, todo', c, Seq(AllCalls))
        /\ \/ pc'[c] = "qcreate" /\ todo'[c] = todo[c]
           \/ pc'[c] = "idle"
    BY <1>1, <2>1, GotoEffect, ReturnEffect DEF Steps
  <2>5. Sound(pc'[c], todo'[c], ent'[c], fd'[c], dfs')
    BY <1>1, <2>3, <2>4 DEF Sound, FileInv
  <2>6. ClientEffect(c)
    BY <1>1, <2>2, <2>3, <2>4, <2>5 DEF ClientEffect, FileInv
  <2> QED BY <1>1, <2>1, <2>6, ClientSound DEF FileInv
<1>4. CASE AddToMq(c)
  <2>1. UNCHANGED <<kv, token, fd>> /\ Return(c)
    BY <1>4 DEF AddToMq
  <2>2. mq' \in [Clients -> Seq({"CREATE", "WRITE"})]
    <3>1. \E m \in {"CREATE", "WRITE"} : mq' = [mq EXCEPT ![c] = Append(mq[c], m)]
      BY <1>4 DEF AddToMq
    <3> QED BY <3>1 DEF FileInv
  <2>3. Cell(ent, ent', c, Good) /\ Cell(fd, fd', c, BOOLEAN) /\ fd'[c] = fd[c]
    BY <1>1, <2>1, StayEffect
  <2>4. Cell(pc, pc', c, Steps) /\ Cell(todo, todo', c, Seq(AllCalls)) /\ pc'[c] = "idle"
    BY <1>1, <2>1, ReturnEffect
  <2>5. Sound(pc'[c], todo'[c], ent'[c], fd'[c], dfs')
    BY <1>1, <2>3, <2>4 DEF Sound, FileInv
  <2>6. ClientEffect(c)
    BY <1>1, <2>1, <2>3, <2>4, <2>5 DEF ClientEffect, FileInv
  <2> QED BY <1>1, <2>2, <2>6, ClientSound
<1> QED BY <1>2, <1>3, <1>4

\* pacon_open.
LEMMA OpenSteps ==
    ASSUME FileInv, NEW c \in Clients, OpenGet(c) \/ OpenStat(c) \/ OpenAdd(c) \/ OpenCas(c)
    PROVE  FileInv'
<1> USE DEF WriteSteps, EntrySteps
<1>1. todo[c] # <<>> /\ UNCHANGED <<commit, evict, dfs, mq>>
  BY DEF OpenGet, OpenStat, OpenAdd, OpenCas, Calls, FileInv, Sound
<1>2. SUFFICES ASSUME TRUE PROVE ClientEffect(c)
  BY <1>1, ClientSound DEF FileInv
<1>3. CASE OpenGet(c)
  <2>1. /\ UNCHANGED kv /\ GetCas(c)
        /\ \/ Goto(c, "ostat") /\ UNCHANGED fd
           \/ Goto(c, "ocas") /\ UNCHANGED fd /\ kv # Null /\ kv.created
           \/ Return(c) /\ fd' = [fd EXCEPT ![c] = FALSE]
    BY <1>3 DEF OpenGet
  <2>2. Cell(ent, ent', c, Good) /\ ent'[c] = kv /\ token' \in SUBSET Clients
    BY <2>1, GetEffect
  <2>3. Cell(fd, fd', c, BOOLEAN) /\ fd'[c] \in {FALSE, fd[c]}
    BY <2>1, StayEffect
  <2>4. /\ Cell(pc, pc', c, Steps) /\ Cell(todo, todo', c, Seq(AllCalls))
        /\ \/ pc'[c] = "ostat" /\ todo'[c] = todo[c]
           \/ pc'[c] = "ocas" /\ todo'[c] = todo[c] /\ kv # Null /\ kv.created
           \/ pc'[c] = "idle"
    BY <1>1, <2>1, GotoEffect, ReturnEffect DEF Steps
  <2>5. Sound(pc'[c], todo'[c], ent'[c], fd'[c], dfs')
    BY <1>1, <2>2, <2>3, <2>4 DEF Sound, FileInv, Made
  <2> QED BY <1>1, <2>1, <2>2, <2>3, <2>4, <2>5 DEF ClientEffect, FileInv
<1>4. CASE OpenStat(c)
  <2>1. /\ UNCHANGED <<kv, token, fd>>
        /\ \/ Return(c) /\ UNCHANGED ent
           \/ /\ dfs # NoFile /\ Goto(c, "oadd")
              /\ ent' = [ent EXCEPT ![c] = NotInline(Len(dfs), TRUE)]
    BY <1>4 DEF OpenStat
  <2>2. dfs # NoFile => NotInline(Len(dfs), TRUE) \in Good /\ NotInline(Len(dfs), TRUE) # Null
    <3>1. dfs # NoFile => Len(dfs) \in Nat
      BY DEF FileInv, Data
    <3> QED BY <3>1, NotInlineGood
  <2>3. /\ Cell(ent, ent', c, Good)
        /\ ent' = [ent EXCEPT ![c] = NotInline(Len(dfs), TRUE)] => ent'[c] = NotInline(Len(dfs), TRUE)
    <3>1. CASE UNCHANGED ent
      BY <3>1, StayEffect DEF FileInv
    <3>2. CASE dfs # NoFile /\ ent' = [ent EXCEPT ![c] = NotInline(Len(dfs), TRUE)]
      BY <2>2, <3>2 DEF Cell, FileInv
    <3> QED BY <2>1, <3>1, <3>2 DEF FileInv
  <2>4. Cell(fd, fd', c, BOOLEAN) /\ fd'[c] = fd[c]
    BY <2>1, StayEffect
  <2>5. /\ Cell(pc, pc', c, Steps) /\ Cell(todo, todo', c, Seq(AllCalls))
        /\ \/ pc'[c] = "oadd" /\ todo'[c] = todo[c] /\ ent'[c] # Null
           \/ pc'[c] = "idle"
    BY <1>1, <2>1, <2>2, <2>3, GotoEffect, ReturnEffect DEF Steps
  <2>6. Made(ent'[c], dfs') /\ (pc'[c] = "oadd" => dfs # NoFile)
    BY <1>1, <2>1, <2>3, <2>5, ReturnEffect DEF Made, FileInv, Sound
  <2>7. Sound(pc'[c], todo'[c], ent'[c], fd'[c], dfs')
    BY <1>1, <2>4, <2>5, <2>6 DEF Sound, FileInv
  <2> QED BY <1>1, <2>1, <2>3, <2>4, <2>5, <2>7 DEF ClientEffect, FileInv
<1>5. CASE OpenAdd(c)
  <2>1. /\ UNCHANGED ent
        /\ \/ Store(ent[c]) /\ Return(c) /\ fd' = [fd EXCEPT ![c] = TRUE]
           \/ Goto(c, "idle") /\ UNCHANGED <<kv, token, fd>>
    BY <1>5 DEF OpenAdd
  <2>2. ent[c] \in Good /\ Made(ent[c], dfs) /\ dfs # NoFile
    BY <1>5 DEF OpenAdd, FileInv, Sound
  <2>3. kv' \in Good /\ Made(kv', dfs') /\ token' \in SUBSET Clients
    BY <1>1, <2>1, <2>2 DEF Store, FileInv
  <2>4. Cell(ent, ent', c, Good) /\ ent'[c] = ent[c] /\ Cell(fd, fd', c, BOOLEAN)
    BY <2>1, StayEffect
  <2>5. Cell(pc, pc', c, Steps) /\ Cell(todo, todo', c, Seq(AllCalls)) /\ pc'[c] = "idle"
    BY <1>1, <2>1, GotoEffect, ReturnEffect DEF Steps
  <2>6. Sound(pc'[c], todo'[c], ent'[c], fd'[c], dfs')
    BY <1>1, <2>2, <2>4, <2>5 DEF Sound
  <2> QED BY <1>1, <2>2, <2>3, <2>4, <2>5, <2>6 DEF ClientEffect, FileInv
<1>6. CASE OpenCas(c)
  <2>1. \/ Store(Truncated(ent[c])) /\ Return(c) /\ fd' = [fd EXCEPT ![c] = TRUE] /\ UNCHANGED ent
        \/ Return(c) /\ UNCHANGED <<ent, token, kv, fd>>
        \/ kv # Null /\ GetCas(c) /\ UNCHANGED <<pc, todo, kv, fd>>
    BY <1>6 DEF OpenCas
  <2>2. ent[c] \in Good /\ ent[c] # Null /\ Made(ent[c], dfs) /\ dfs # NoFile
    BY <1>6 DEF OpenCas, FileInv, Sound
  <2>3. kv' \in Good /\ Made(kv', dfs') /\ token' \in SUBSET Clients
    BY <1>1, <2>1, <2>2, TruncatedGood, GetEffect DEF Store, FileInv, Made
  <2>4. /\ Cell(ent, ent', c, Good) /\ Cell(fd, fd', c, BOOLEAN)
        /\ ent'[c] # Null /\ Made(ent'[c], dfs)
    BY <2>1, <2>2, StayEffect, GetEffect DEF FileInv
  <2>5. /\ Cell(pc, pc', c, Steps) /\ Cell(todo, todo', c, Seq(AllCalls))
        /\ pc'[c] = "idle" \/ (pc'[c] = "ocas" /\ todo'[c] = todo[c])
    BY <1>1, <1>6, <2>1, StayEffect, ReturnEffect DEF OpenCas
  <2>6. Sound(pc'[c], todo'[c], ent'[c], fd'[c], dfs')
    BY <1>1, <2>2, <2>4, <2>5 DEF Sound
  <2> QED BY <1>1, <2>2, <2>3, <2>4, <2>5, <2>6 DEF ClientEffect, FileInv
<1> QED BY <1>3, <1>4, <1>5, <1>6

\* pacon_write_new: where the bytes go.
LEMMA WriteStarts ==
    ASSUME FileInv, NEW c \in Clients, WriteGet(c)
    PROVE  FileInv'
<1>1. todo[c] # <<>> /\ Call(c).op = "write" /\ UNCHANGED <<kv, dfs, mq, fd, commit, evict>> /\ GetCas(c)
  BY DEF WriteGet, Calls
<1>2. \/ Goto(c, "direct")
      \/ Goto(c, "pwrite") /\ kv # Null /\ fd[c]
      \/ Return(c)
      \/ Goto(c, "wcas") /\ kv # Null /\ NewSize(c, kv) < Limit
      \/ Goto(c, "wopen") /\ kv # Null
  BY DEF WriteGet
<1>3. Cell(ent, ent', c, Good) /\ ent'[c] = kv /\ token' \in SUBSET Clients
  BY <1>1, GetEffect
<1>4. Cell(fd, fd', c, BOOLEAN) /\ fd'[c] = fd[c] /\ (fd[c] => dfs # NoFile)
  BY <1>1, StayEffect DEF FileInv, Sound
<1>5. /\ Cell(pc, pc', c, Steps) /\ Cell(todo, todo', c, Seq(AllCalls))
      /\ \/ pc'[c] = "direct" /\ todo'[c] = todo[c]
         \/ pc'[c] = "pwrite" /\ todo'[c] = todo[c] /\ kv # Null /\ fd[c]
         \/ pc'[c] = "idle"
         \/ pc'[c] = "wcas" /\ todo'[c] = todo[c] /\ kv # Null /\ NewSize(c, kv) < Limit
         \/ pc'[c] = "wopen" /\ todo'[c] = todo[c] /\ kv # Null
  BY <1>1, <1>2, GotoEffect, ReturnEffect DEF Steps, WriteSteps
<1>6. Sound(pc'[c], todo'[c], ent'[c], fd'[c], dfs')
  BY <1>1, <1>3, <1>4, <1>5 DEF Sound, FileInv, NewSize, Call, WriteSteps, EntrySteps
<1>7. ClientEffect(c)
  BY <1>1, <1>3, <1>4, <1>5, <1>6 DEF ClientEffect, FileInv
<1> QED BY <1>1, <1>7, ClientSound DEF FileInv

\* The new inline data is as long as WriteGet has found.
LEMMA NewDataType ==
    ASSUME FileInv, NEW c \in Clients, pc[c] = "wcas", NEW d \in NewData(c)
    PROVE  d \in Data /\ Len(d) < Limit
<1>1. /\ Call(c).buf \in Data /\ Call(c).off \in Nat /\ ent[c] \in Entry
      /\ NewSize(c, ent[c]) < Limit
  BY WriteCall DEF FileInv, Sound, Good, NewSize, Call, WriteSteps, EntrySteps
<1>2. Bytes(ent[c]) \in Data /\ Len(Bytes(ent[c])) = ent[c].size /\ ent[c].size \in Nat
  BY <1>1, BytesType DEF Entry
<1> DEFINE new == Overlay(Bytes(ent[c]), Call(c).off, Call(c).buf)
<1>3. new \in Data /\ Len(new) = Larger(Len(Bytes(ent[c])), Call(c).off + Len(Call(c).buf))
  <2>1. Hole \in AnyByte
    BY DEF AnyByte
  <2> QED BY <1>1, <1>2, <2>1, OverlayType DEF Data
<1>4. Len(Call(c).buf) \in Nat
  BY <1>1 DEF Data
<1>5. Len(new) = NewSize(c, ent[c])
  BY <1>1, <1>2, <1>3, <1>4 DEF Larger, NewSize
<1> QED BY <1>1, <1>3, <1>5, SerialisedType DEF NewData

\* pacon_write_new: what follows.
LEMMA WriteStepsSound ==
    ASSUME FileInv, NEW c \in Clients,
           WriteDirect(c) \/ WriteCas(c) \/ WriteOpen(c) \/ WriteInline(c) \/ WriteDfs(c) \/ WriteUpdate(c)
    PROVE  FileInv'
<1> USE DEF WriteSteps, EntrySteps
<1>1. pc[c] \in WriteSteps /\ UNCHANGED <<commit, evict, mq, ent>>
  BY DEF WriteDirect, WriteCas, WriteOpen, WriteInline, WriteDfs, WriteUpdate
<1>2. /\ todo[c] # <<>> /\ Call(c).op = "write" /\ Call(c).buf \in Data /\ Call(c).off \in Nat
      /\ ent[c] \in Good /\ Made(ent[c], dfs) /\ (fd[c] => dfs # NoFile)
  BY <1>1, WriteCall DEF FileInv, Sound
<1>3. Cell(ent, ent', c, Good) /\ ent'[c] = ent[c]
  BY <1>1, StayEffect
<1>4. SUFFICES ASSUME TRUE PROVE ClientEffect(c)
  BY <1>1, ClientSound DEF FileInv
<1>5. CASE WriteDirect(c)
  <2>1. /\ UNCHANGED <<kv, token, fd>> /\ Return(c)
        /\ UNCHANGED dfs \/ (dfs # NoFile /\ dfs' = Overlay(dfs, Call(c).off, Call(c).buf))
    BY <1>5 DEF WriteDirect
  <2>2. dfs' \in Data \cup {NoFile} /\ (dfs # NoFile => dfs' # NoFile)
    BY <1>2, <2>1, PwriteType DEF FileInv
  <2>3. Cell(fd, fd', c, BOOLEAN) /\ fd'[c] = fd[c]
    BY <2>1, StayEffect
  <2>4. Cell(pc, pc', c, Steps) /\ Cell(todo, todo', c, Seq(AllCalls)) /\ pc'[c] = "idle"
    BY <1>2, <2>1, ReturnEffect
  <2>5. Sound(pc'[c], todo'[c], ent'[c], fd'[c], dfs') /\ Made(kv', dfs')
    BY <1>2, <1>3, <2>1, <2>2, <2>3, <2>4 DEF Sound, Made, FileInv
  <2> QED BY <1>3, <2>1, <2>2, <2>3, <2>4, <2>5 DEF ClientEffect, FileInv
<1>6. CASE WriteCas(c)
  <2>1. /\ UNCHANGED <<dfs, fd>>
        /\ \/ (\E d \in NewData(c) : Store(Inline(d, ent[c].created))) /\ Goto(c, "qwrite")
           \/ UNCHANGED <<kv, token>> /\ (Return(c) \/ Goto(c, "idle"))
    BY <1>6 DEF WriteCas
  <2>2. ent[c] \in Entry /\ ent[c].created \in BOOLEAN
    BY <1>6 DEF WriteCas, FileInv, Sound, Good, Entry
  <2>3. kv' \in Good /\ Made(kv', dfs') /\ token' \in SUBSET Clients
    <3>1. ASSUME NEW d \in NewData(c), Store(Inline(d, ent[c].created))
          PROVE  kv' \in Good /\ Made(kv', dfs') /\ token' \in SUBSET Clients
      <4>1. d \in Data /\ Len(d) < Limit
        BY <1>6, NewDataType DEF WriteCas
      <4>2. /\ Inline(d, ent[c].created) \in Good /\ Inline(d, ent[c].created) # Null
            /\ Inline(d, ent[c].created).created = ent[c].created
        BY <2>2, <4>1, InlineGood
      <4>3. ent[c] # Null
        BY <2>2, FileAssumption
      <4> QED BY <1>2, <2>1, <3>1, <4>2, <4>3 DEF Store, Made
    <3> QED BY <2>1, <3>1 DEF FileInv
  <2>4. Cell(fd, fd', c, BOOLEAN) /\ fd'[c] = fd[c]
    BY <2>1, StayEffect
  <2>5. /\ Cell(pc, pc', c, Steps) /\ Cell(todo, todo', c, Seq(AllCalls))
        /\ pc'[c] = "idle" \/ (pc'[c] = "qwrite" /\ todo'[c] = todo[c])
    BY <1>2, <2>1, ReturnEffect, GotoEffect DEF Steps
  <2>6. Sound(pc'[c], todo'[c], ent'[c], fd'[c], dfs')
    BY <1>2, <1>3, <2>1, <2>4, <2>5 DEF Sound, Call
  <2> QED BY <1>3, <2>1, <2>3, <2>4, <2>5, <2>6 DEF ClientEffect, FileInv
<1>7. CASE WriteOpen(c)
  <2>1. /\ UNCHANGED <<kv, token, dfs>> /\ dfs # NoFile /\ fd' = [fd EXCEPT ![c] = TRUE]
        /\ Goto(c, "winline") \/ Goto(c, "pwrite")
    BY <1>7 DEF WriteOpen
  <2>2. Cell(fd, fd', c, BOOLEAN)
    BY <2>1, StayEffect
  <2>3. /\ Cell(pc, pc', c, Steps) /\ Cell(todo, todo', c, Seq(AllCalls)) /\ todo'[c] = todo[c]
        /\ pc'[c] \in {"winline", "pwrite"}
    BY <2>1, GotoEffect DEF Steps
  <2>4. ent[c] # Null
    BY <1>7 DEF WriteOpen, FileInv, Sound
  <2>5. Sound(pc'[c], todo'[c], ent'[c], fd'[c], dfs')
    BY <1>2, <1>3, <2>1, <2>3, <2>4 DEF Sound, Call
  <2> QED BY <1>3, <2>1, <2>2, <2>3, <2>5 DEF ClientEffect, FileInv
<1>8. CASE WriteInline(c) \/ WriteDfs(c)
  <2>1. /\ UNCHANGED <<kv, token, fd>> /\ dfs # NoFile /\ ent[c] # Null
        /\ \/ dfs' = Overlay(dfs, 0, Bytes(ent[c])) /\ Goto(c, "pwrite")
           \/ dfs' = Overlay(dfs, Call(c).off, Call(c).buf) /\ Goto(c, "update")
    BY <1>8 DEF WriteInline, WriteDfs, FileInv, Sound
  <2>2. dfs' \in Data \cup {NoFile} /\ dfs' # NoFile
    <3>1. Bytes(ent[c]) \in Data
      BY <1>2, <2>1, BytesType DEF Good
    <3> QED BY <1>2, <2>1, <3>1, PwriteType
  <2>3. Cell(fd, fd', c, BOOLEAN) /\ fd'[c] = fd[c]
    BY <2>1, StayEffect
  <2>4. /\ Cell(pc, pc', c, Steps) /\ Cell(todo, todo', c, Seq(AllCalls)) /\ todo'[c] = todo[c]
        /\ pc'[c] \in {"pwrite", "update"}
    BY <2>1, GotoEffect DEF Steps
  <2>5. Sound(pc'[c], todo'[c], ent'[c], fd'[c], dfs') /\ Made(kv', dfs')
    BY <1>2, <1>3, <2>1, <2>2, <2>3, <2>4 DEF Sound, Call, Made
  <2> QED BY <1>3, <2>1, <2>2, <2>3, <2>4, <2>5 DEF ClientEffect, FileInv
<1>9. CASE WriteUpdate(c)
  <2>1. /\ UNCHANGED <<dfs, fd>> /\ Return(c) /\ ent[c] # Null
        /\ Store(Truncated(ent[c])) \/ UNCHANGED <<kv, token>>
    BY <1>9 DEF WriteUpdate, FileInv, Sound
  <2>2. kv' \in Good /\ Made(kv', dfs') /\ token' \in SUBSET Clients
    BY <1>2, <2>1, TruncatedGood DEF Store, FileInv, Made
  <2>3. Cell(fd, fd', c, BOOLEAN) /\ fd'[c] = fd[c]
    BY <2>1, StayEffect
  <2>4. Cell(pc, pc', c, Steps) /\ Cell(todo, todo', c, Seq(AllCalls)) /\ pc'[c] = "idle"
    BY <1>2, <2>1, ReturnEffect
  <2>5. Sound(pc'[c], todo'[c], ent'[c], fd'[c], dfs')
    BY <1>2, <1>3, <2>1, <2>3, <2>4 DEF Sound
  <2> QED BY <1>3, <2>1, <2>2, <2>3, <2>4, <2>5 DEF ClientEffect, FileInv
<1> QED BY <1>5, <1>6, <1>7, <1>8, <1>9

\* pacon_read_new and the barrier.
LEMMA ReadSteps ==
    ASSUME FileInv, NEW c \in Clients, ReadGet(c) \/ ReadDfs(c) \/ ReadFd(c)
    PROVE  FileInv'
<1> USE DEF WriteSteps, EntrySteps
<1>1. todo[c] # <<>> /\ UNCHANGED <<kv, dfs, commit, evict, mq>>
  BY DEF ReadGet, ReadDfs, ReadFd, Calls, FileInv, Sound
<1>2. /\ \/ GetCas(c) /\ UNCHANGED fd
         \/ UNCHANGED <<token, ent, fd>>
         \/ UNCHANGED <<token, ent>> /\ fd' = [fd EXCEPT ![c] = dfs # NoFile]
      /\ Return(c) \/ Goto(c, "rdfs")
  BY DEF ReadGet, ReadDfs, ReadFd
<1>3. Cell(ent, ent', c, Good) /\ ent'[c] \in {kv, ent[c]} /\ token' \in SUBSET Clients
  BY <1>2, GetEffect, StayEffect DEF FileInv
<1>4. Cell(fd, fd', c, BOOLEAN) /\ (fd'[c] => dfs # NoFile)
  <2>1. fd[c] => dfs # NoFile
    BY DEF FileInv, Sound
  <2>2. CASE UNCHANGED fd
    BY <2>1, <2>2, StayEffect
  <2>3. CASE fd' = [fd EXCEPT ![c] = dfs # NoFile]
    <3>1. (dfs # NoFile) \in BOOLEAN
      OBVIOUS
    <3> QED BY <2>3, <3>1, StayEffect
  <2> QED BY <1>2, <2>2, <2>3
<1>5. /\ Cell(pc, pc', c, Steps) /\ Cell(todo, todo', c, Seq(AllCalls))
      /\ pc'[c] = "idle" \/ (pc'[c] = "rdfs" /\ todo'[c] = todo[c])
  BY <1>1, <1>2, GotoEffect, ReturnEffect DEF Steps
<1>6. Sound(pc'[c], todo'[c], ent'[c], fd'[c], dfs')
  BY <1>1, <1>3, <1>4, <1>5 DEF Sound, FileInv
<1>7. ClientEffect(c)
  BY <1>1, <1>3, <1>4, <1>5, <1>6 DEF ClientEffect, FileInv
<1> QED BY <1>1, <1>7, ClientSound DEF FileInv

\* The commit threads.
LEMMA CommitSteps ==
    ASSUME FileInv, NEW n \in Nodes, Commit(n)
    PROVE  FileInv'
<1>1. UNCHANGED <<kv, token, evict, ent, fd, pc, todo>>
  BY DEF Commit, CommitData, CommitCreate, CommitWrite
<1>2. /\ mq' \in [Clients -> Seq({"CREATE", "WRITE"})]
      /\ dfs' \in Data \cup {NoFile} /\ (dfs # NoFile => dfs' # NoFile)
      /\ commit' \in [Nodes -> Good \cup {Dead}] /\ \A d \in Nodes : commit'[d] # Null => dfs' # NoFile
  <2>1. CASE CommitData(n)
    <3>1. commit[n] \in Entry /\ dfs # NoFile /\ Null \in Good
      BY <2>1 DEF CommitData, FileInv, Good, EntryOK
    <3>2. dfs' \in Data \cup {NoFile} /\ dfs' # NoFile
      BY <2>1, <3>1, BytesType, PwriteType DEF CommitData
    <3>3. commit' \in [Nodes -> Good \cup {Dead}]
      BY <2>1, <3>1 DEF CommitData, FileInv
    <3> QED BY <2>1, <3>1, <3>2, <3>3 DEF CommitData, FileInv
  <2>2. CASE \E c \in NodeClients(n) : CommitCreate(c)
    <3>1. PICK c \in Clients : mq[c] # <<>> /\ mq' = [mq EXCEPT ![c] = Tail(mq[c])]
      BY <2>2 DEF CommitCreate, NodeClients, Receives, Received
    <3>2. mq' \in [Clients -> Seq({"CREATE", "WRITE"})]
      <4>1. Tail(mq[c]) \in Seq({"CREATE", "WRITE"})
        BY <3>1 DEF FileInv
      <4> QED BY <3>1, <4>1 DEF FileInv
    <3>3. dfs' = <<>> /\ dfs' \in Data /\ dfs' # NoFile /\ UNCHANGED commit
      <4>1. <<>> \in Seq(Letters \cup {Junk, Hole}) /\ <<>> \in Data
        BY DEF Data
      <4>2. <<>> # NoFile
        BY <4>1, FileAssumption
      <4> QED BY <2>2, <4>1, <4>2 DEF CommitCreate
    <3> QED BY <3>2, <3>3 DEF FileInv
  <2>3. CASE \E c \in NodeClients(n) : CommitWrite(c)
    <3>1. PICK c \in NodeClients(n) : CommitWrite(c)
      BY <2>3
    <3>2. mq' \in [Clients -> Seq({"CREATE", "WRITE"})]
      <4>1. c \in Clients /\ mq[c] # <<>> /\ mq' = [mq EXCEPT ![c] = Tail(mq[c])]
        BY <3>1 DEF CommitWrite, NodeClients, Receives, Received
      <4>2. Tail(mq[c]) \in Seq({"CREATE", "WRITE"})
        BY <4>1 DEF FileInv
      <4> QED BY <4>1, <4>2 DEF FileInv
    <3>3. UNCHANGED dfs /\ \E e \in Good \cup {Dead} : commit' = [commit EXCEPT ![n] = e] /\ (e # Null => dfs # NoFile)
      <4>1. Null \in Good /\ kv \in Good
        BY DEF Good, EntryOK, FileInv
      <4> QED BY <3>1, <4>1 DEF CommitWrite, NodeClients
    <3> QED BY <3>2, <3>3 DEF FileInv
  <2> QED BY <2>1, <2>2, <2>3 DEF Commit
<1>3. Made(kv, dfs') /\ \A c \in Clients : Sound(pc[c], todo[c], ent[c], fd[c], dfs')
  BY <1>2 DEF FileInv, Sound, Made
<1> QED BY <1>1, <1>2, <1>3 DEF FileInv

\* The eviction.
LEMMA EvictStep ==
    ASSUME FileInv, Evict
    PROVE  FileInv'
<1>1. Null \in Good /\ Made(Null, dfs)
  BY DEF Good, EntryOK, Made
<1> QED BY <1>1 DEF Evict, Store, FileInv, Sound

\* Every step keeps the types.
LEMMA FileStep ==
    ASSUME FileInv, [Next]_vars
    PROVE  FileInv'
<1>1. ASSUME NEW c \in Clients, Client(c)
      PROVE  FileInv'
  BY <1>1, CreateSteps, OpenSteps, WriteStarts, WriteStepsSound, ReadSteps DEF Client
<1>2. CASE UNCHANGED vars
  BY <1>2 DEF vars, FileInv, Sound
<1> QED BY <1>1, <1>2, CommitSteps, EvictStep DEF Next

\* In every program an inline entry, in the KV store and in the memory of
\* clients and commit threads, is below the limit, and no entry has more bytes
\* than its size says: the client's INLINE_MAX is never exceeded.
THEOREM FileTypes == Spec => []TypeOK
<1>1. Init => FileInv
  BY FileInit
<1>2. FileInv /\ [Next]_vars => FileInv'
  BY FileStep
<1>3. FileInv => TypeOK
  BY DEF FileInv, TypeOK, Good
<1> QED BY <1>1, <1>2, <1>3, PTL DEF Spec

-----------------------------------------------------------------------------
(* Inline data, in programs that stay inline.                              *)

\* A client that reads does not write: pacon_read_new leaves the file open, and
\* the writes of the same struct pacon_file would go to the DFS.
NoWrites(t) == \A i \in DOMAIN t : t[i].op # "write"
Separate(t) == (\E i \in DOMAIN t : t[i].op = "read") => NoWrites(t)

\* The file is new, is not evicted, and no write takes it to the limit.
InlineOnly ==
    /\ \A s \in Setups : /\ s.dfs = NoFile /\ ~ s.evict
                         /\ \A c \in Clients : Separate(s.todo[c])
    /\ \A call \in AllCalls : call.op = "write" => call.off + Len(call.buf) < Limit

\* What the entry k holds when the file is f.
Current(k, f) ==
    k # Null => Bytes(k) = f /\ f \in Seq(Letters) /\ ~ k.created /\ (k.inline \/ k.size = 0)

\* A client at step p of its calls t, with the entry e and the open flag f.
Tidy(p, t, e, f) ==
    /\ p \in {"idle", "qcreate", "qwrite", "wcas", "rdfs"}
    /\ p = "wcas" => Head(t).off <= e.size
    /\ Separate(t)
    /\ f \/ p = "rdfs" => NoWrites(t)

CacheInv ==
    /\ ~ evict
    /\ Current(kv, file)
    /\ kv = Null => dfs = NoFile /\ \A c \in Clients : mq[c] = <<>> /\ pc[c] = "idle"
    /\ \A c \in token : ent[c] = kv
    /\ \A c \in Clients : Tidy(pc[c], todo[c], ent[c], fd[c])

\* A new file has no entry.
LEMMA CacheInit == ASSUME InlineOnly, Init PROVE CacheInv
<1>1. PICK s \in Setups : dfs = s.dfs /\ todo = s.todo /\ evict = s.evict
  BY DEF Init
<1>2. dfs = NoFile /\ ~ evict /\ \A c \in Clients : Separate(todo[c])
  BY <1>1 DEF InlineOnly
<1> QED BY <1>2 DEF Init, CacheInv, Current, Tidy

\* The calls that are left are as tidy.
LEMMA TailTidy ==
    ASSUME NEW t \in Seq(AllCalls), t # <<>>
    PROVE  /\ NoWrites(t) => NoWrites(Tail(t))
           /\ Separate(t) => Separate(Tail(t))
           /\ Head(t).op = "read" /\ Separate(t) => NoWrites(t)
           /\ Head(t).op = "write" => ~ NoWrites(t)
<1>1. \A i \in DOMAIN Tail(t) : i + 1 \in DOMAIN t /\ Tail(t)[i] = t[i + 1]
  OBVIOUS
<1>2. 1 \in DOMAIN t /\ Head(t) = t[1]
  OBVIOUS
<1> QED BY <1>1, <1>2 DEF NoWrites, Separate

Others(c) == \A d \in Clients \ {c} : /\ pc'[d] = pc[d] /\ todo'[d] = todo[d]
                                      /\ ent'[d] = ent[d] /\ fd'[d] = fd[d]

\* A step of client c either leaves the entry and the file alone, or stores an
\* entry that is current.
LEMMA CacheClient ==
    ASSUME FileInv, CacheInv, NEW c \in Clients, UNCHANGED evict, Others(c),
           Tidy(pc'[c], todo'[c], ent'[c], fd'[c]),
           \/ /\ UNCHANGED <<kv, file>> /\ token' \subseteq token \cup {c}
              /\ c \in token' => ent'[c] = kv
              /\ kv = Null => pc'[c] = "idle" /\ UNCHANGED <<mq, dfs>>
           \/ token' = {} /\ kv' # Null /\ Current(kv', file')
    PROVE  CacheInv'
<1>1. \A d \in Clients : Tidy(pc'[d], todo'[d], ent'[d], fd'[d])
  BY Zenon DEF CacheInv, Others
<1>2. Current(kv', file')
  BY DEF CacheInv
<1>3. \A d \in token' : ent'[d] = kv'
  BY DEF CacheInv, FileInv, Others
<1>4. kv' = Null => dfs' = NoFile /\ \A d \in Clients : mq'[d] = <<>> /\ pc'[d] = "idle"
  BY DEF CacheInv, Others
<1> QED BY <1>1, <1>2, <1>3, <1>4 DEF CacheInv

\* Where the client goes, and what it gets.
LEMMA Places ==
    ASSUME FileInv, NEW c \in Clients, NEW d \in Clients
    PROVE  /\ \A p : Goto(c, p) => /\ pc'[c] = p /\ todo'[c] = todo[c]
                                   /\ d # c => pc'[d] = pc[d] /\ todo'[d] = todo[d]
           /\ Return(c) => /\ pc'[c] = "idle" /\ todo'[c] = Tail(todo[c])
                           /\ d # c => pc'[d] = pc[d] /\ todo'[d] = todo[d]
           /\ GetCas(c) => /\ ent'[c] = kv /\ token' = token \cup {c}
                           /\ d # c => ent'[d] = ent[d]
           /\ \A b : fd' = [fd EXCEPT ![c] = b] => fd'[c] = b /\ (d # c => fd'[d] = fd[d])
  BY DEF FileInv, Goto, Return, GetCas

\* The two entries that a create stores.
LEMMA CreatedCurrent ==
    /\ Current(NotInline(0, FALSE), <<>>)
    /\ \A d \in Seq(Letters) : Current(Inline(d, FALSE), d)
<1>1. Current(NotInline(0, FALSE), <<>>)
  <2>1. NotInline(0, FALSE).size = 0 /\ NotInline(0, FALSE).created = FALSE
    BY DEF NotInline
  <2>2. Bytes(NotInline(0, FALSE)) = <<>>
    <3>1. NotInline(0, FALSE) \in Entry
      BY DEF NotInline, Entry
    <3>2. Bytes(NotInline(0, FALSE)) \in Data /\ Len(Bytes(NotInline(0, FALSE))) = 0
      BY <2>1, <3>1, BytesType
    <3>3. \A x \in Data : Len(x) = 0 => x = <<>>
      BY DEF Data
    <3> QED BY <3>2, <3>3, Zenon
  <2>3. <<>> \in Seq(Letters)
    OBVIOUS
  <2> QED BY <2>1, <2>2, <2>3 DEF Current
<1>2. ASSUME NEW d \in Seq(Letters) PROVE Current(Inline(d, FALSE), d)
  <2>1. /\ Inline(d, FALSE).size = Len(d) /\ Inline(d, FALSE).data = d
        /\ Inline(d, FALSE).created = FALSE /\ Inline(d, FALSE).inline = TRUE
    BY DEF Inline
  <2>2. Bytes(Inline(d, FALSE)) = [i \in 1 .. Len(d) |-> d[i]]
    <3>1. Bytes(Inline(d, FALSE)) = [i \in 1 .. Len(d) |-> IF i <= Len(d) THEN d[i] ELSE Junk]
      BY <2>1, Zenon DEF Bytes
    <3>2. \A i \in 1 .. Len(d) : i <= Len(d)
      OBVIOUS
    <3> QED BY <3>1, <3>2
  <2>3. d = [i \in 1 .. Len(d) |-> d[i]]
    OBVIOUS
  <2> QED BY <2>1, <2>2, <2>3 DEF Current
<1> QED BY <1>1, <1>2

\* A creation stores an entry that is current.
LEMMA CacheCreate ==
    ASSUME FileInv, CacheInv, NEW c \in Clients, Create(c) \/ CreateWrite(c) \/ AddToMq(c)
    PROVE  CacheInv'
<1>1. todo[c] # <<>> /\ UNCHANGED <<evict, dfs, ent>>
  BY DEF Create, CreateWrite, AddToMq, Calls, FileInv, Sound
<1>2. /\ Separate(todo[c]) /\ Separate(Tail(todo[c]))
      /\ NoWrites(todo[c]) => NoWrites(Tail(todo[c]))
      /\ (fd[c] => NoWrites(todo[c]))
  BY <1>1, TailTidy DEF CacheInv, Tidy, FileInv
<1>3. /\ (Goto(c, "qcreate") /\ fd' = [fd EXCEPT ![c] = FALSE]) \/ (Return(c) /\ UNCHANGED fd)
      /\ \/ UNCHANGED <<kv, token, file>> /\ (kv = Null => Return(c) /\ UNCHANGED mq)
         \/ Store(NotInline(0, FALSE)) /\ file' = <<>>
         \/ Store(Inline(Call(c).buf, FALSE)) /\ file' = Call(c).buf /\ Call(c).op = "create_write"
  BY DEF Create, CreateWrite, AddToMq, Applied, Calls, CacheInv
<1>4. Others(c) /\ Tidy(pc'[c], todo'[c], ent'[c], fd'[c])
  <2>1. CASE Goto(c, "qcreate") /\ fd' = [fd EXCEPT ![c] = FALSE]
    <3>1. Others(c)
      BY <1>1, <2>1, Places DEF Others
    <3>2. pc'[c] = "qcreate" /\ todo'[c] = todo[c] /\ fd'[c] = FALSE
      BY <2>1, Places
    <3> QED BY <1>2, <3>1, <3>2 DEF Tidy
  <2>2. CASE Return(c) /\ UNCHANGED fd
    <3>1. Others(c)
      BY <1>1, <2>2, Places DEF Others
    <3>2. pc'[c] = "idle" /\ todo'[c] = Tail(todo[c]) /\ fd'[c] = fd[c]
      BY <2>2, Places
    <3> QED BY <1>2, <3>1, <3>2 DEF Tidy
  <2> QED BY <1>3, <2>1, <2>2
<1>5. \/ UNCHANGED <<kv, file, token>> /\ (kv = Null => pc'[c] = "idle" /\ UNCHANGED <<mq, dfs>>)
      \/ token' = {} /\ kv' # Null /\ Current(kv', file')
  <2>1. CASE UNCHANGED <<kv, token, file>> /\ (kv = Null => Return(c) /\ UNCHANGED mq)
    BY <1>1, <2>1, Places
  <2>2. CASE Store(NotInline(0, FALSE)) /\ file' = <<>>
    BY <2>2, CreatedCurrent, NotInlineGood DEF Store
  <2>3. CASE Store(Inline(Call(c).buf, FALSE)) /\ file' = Call(c).buf /\ Call(c).op = "create_write"
    <3>1. Call(c).buf \in Seq(Letters)
      BY <1>1, <2>3, CallType
    <3>2. Inline(Call(c).buf, FALSE) # Null
      <4>1. Inline(Call(c).buf, FALSE) \in Entry
        BY <3>1 DEF Inline, Entry
      <4> QED BY <4>1, FileAssumption
    <3> QED BY <2>3, <3>1, <3>2, CreatedCurrent DEF Store
  <2> QED BY <1>3, <2>1, <2>2, <2>3
<1> QED BY <1>1, <1>4, <1>5, CacheClient DEF CacheInv

\* pacon_open finds the entry and opens nothing.
LEMMA CacheOpen ==
    ASSUME FileInv, CacheInv, NEW c \in Clients, OpenGet(c) \/ OpenStat(c) \/ OpenAdd(c) \/ OpenCas(c)
    PROVE  CacheInv'
<1>1. OpenGet(c)
  BY DEF OpenStat, OpenAdd, OpenCas, CacheInv, Tidy
<1>2. kv # Null /\ ~ kv.created
  BY <1>1 DEF OpenGet, Exists, CacheInv, Current
<1>3. /\ todo[c] # <<>> /\ UNCHANGED <<evict, kv, file>> /\ GetCas(c)
      /\ Return(c) /\ fd' = [fd EXCEPT ![c] = FALSE]
  BY <1>1, <1>2 DEF OpenGet, Calls
<1>4. /\ pc'[c] = "idle" /\ todo'[c] = Tail(todo[c]) /\ fd'[c] = FALSE
      /\ ent'[c] = kv /\ token' = token \cup {c}
  BY <1>3, Places
<1>5. Others(c)
  BY <1>3, Places DEF Others
<1>6. Tidy(pc'[c], todo'[c], ent'[c], fd'[c])
  <2>1. Separate(Tail(todo[c]))
    BY <1>3, TailTidy DEF CacheInv, Tidy, FileInv
  <2> QED BY <1>4, <2>1 DEF Tidy
<1> QED BY <1>2, <1>3, <1>4, <1>5, <1>6, CacheClient

\* A write that fits is inline.
LEMMA CacheWriteGet ==
    ASSUME InlineOnly, FileInv, CacheInv, NEW c \in Clients, WriteGet(c)
    PROVE  CacheInv'
<1>1. /\ todo[c] # <<>> /\ Call(c).op = "write" /\ UNCHANGED <<evict, kv, fd, file>> /\ GetCas(c)
      /\ kv # Null
  BY DEF WriteGet, Calls, Exists, CacheInv
<1>2. ~ fd[c] /\ Separate(todo[c]) /\ Separate(Tail(todo[c]))
  BY <1>1, TailTidy DEF CacheInv, Tidy, FileInv, Call
<1>3. Call(c).off \in Nat /\ Len(Call(c).buf) \in Nat /\ Call(c).off + Len(Call(c).buf) < Limit
  BY <1>1, CallType DEF InlineOnly
<1>4. kv.size \in Nat /\ (kv.inline => kv.size < Limit) /\ (kv.inline \/ kv.size = 0)
  BY <1>1 DEF FileInv, Good, EntryOK, Entry, CacheInv, Current
<1>5. NewSize(c, kv) < Limit
  BY <1>3, <1>4, FileAssumption DEF NewSize, Larger
<1>6. Return(c) \/ (Goto(c, "wcas") /\ Call(c).off <= kv.size)
  BY <1>1, <1>2, <1>3, <1>4, <1>5 DEF WriteGet
<1>7. /\ fd'[c] = fd[c] /\ ent'[c] = kv /\ token' = token \cup {c}
      /\ \/ pc'[c] = "idle" /\ todo'[c] = Tail(todo[c])
         \/ pc'[c] = "wcas" /\ todo'[c] = todo[c] /\ Call(c).off <= kv.size
  BY <1>1, <1>6, Places
<1>8. Others(c)
  BY <1>1, <1>6, Places DEF Others
<1>9. Tidy(pc'[c], todo'[c], ent'[c], fd'[c])
  BY <1>2, <1>7 DEF Tidy, Call
<1> QED BY <1>1, <1>7, <1>8, <1>9, CacheClient

\* A buffer copied into text at an offset within it gives text again, which
\* the serialisation leaves as it is.
LEMMA OverlayText ==
    ASSUME NEW s \in Seq(Letters), NEW off \in Nat, off <= Len(s), NEW buf \in Seq(Letters)
    PROVE  Overlay(s, off, buf) \in Seq(Letters) /\ Serialised(Overlay(s, off, buf)) = {Overlay(s, off, buf)}
<1> DEFINE n == Larger(Len(s), off + Len(buf))
           F == [i \in 1 .. n |-> IF i \in off + 1 .. off + Len(buf) THEN buf[i - off]
                                  ELSE IF i <= Len(s) THEN s[i] ELSE Hole]
<1>1. n \in Nat
  BY DEF Larger
<1>2. ASSUME NEW i \in 1 .. n
      PROVE  (IF i \in off + 1 .. off + Len(buf) THEN buf[i - off]
              ELSE IF i <= Len(s) THEN s[i] ELSE Hole) \in Letters
  <2>1. CASE i \in off + 1 .. off + Len(buf)
    <3>1. i - off \in 1 .. Len(buf)
      BY <1>1, <2>1
    <3> QED BY <2>1, <3>1
  <2>2. CASE i \notin off + 1 .. off + Len(buf)
    <3>1. i \in 1 .. Len(s)
      BY <1>1, <2>2 DEF Larger
    <3> QED BY <2>2, <3>1
  <2> QED BY <2>1, <2>2
<1>3. F \in [1 .. n -> Letters]
  <2> HIDE DEF n
  <2> QED BY <1>2
<1> HIDE DEF n
<1>4. F \in Seq(Letters) /\ DOMAIN F = 1 .. n
  <2> HIDE DEF F
  <2> QED BY <1>1, <1>3
<1>5. \A i \in DOMAIN F : F[i] # Junk
  <2> HIDE DEF F
  <2> QED BY <1>3, <1>4, FileAssumption
<1>6. F = [i \in DOMAIN F |-> IF \E j \in 1 .. i : F[j] = Junk THEN Junk ELSE F[i]]
  <2>1. \A i \in DOMAIN F : \A j \in 1 .. i : j \in DOMAIN F
    <3> HIDE DEF F
    <3> QED BY <1>1, <1>4
  <2>2. F = [i \in DOMAIN F |-> F[i]]
    OBVIOUS
  <2> HIDE DEF F
  <2> QED BY <1>5, <2>1, <2>2
<1>7. Overlay(s, off, buf) = F
  BY DEF Overlay, n
<1> HIDE DEF F
<1> DEFINE G == [i \in DOMAIN F |-> IF \E j \in 1 .. i : F[j] = Junk THEN Junk ELSE F[i]]
<1>8. Serialised(F) = {F, G}
  BY Zenon DEF Serialised
<1>9. F = G
  BY <1>6, Zenon
<1> HIDE DEF G
<1>10. Serialised(F) = {F}
  BY <1>8, <1>9
<1> QED BY <1>4, <1>7, <1>10

\* The cas of an inline write makes of the entry what the write makes of the
\* file.
LEMMA CacheWriteCas ==
    ASSUME FileInv, CacheInv, NEW c \in Clients, WriteCas(c)
    PROVE  CacheInv'
<1>1. pc[c] = "wcas" /\ UNCHANGED <<evict, ent, fd, mq, dfs>>
  BY DEF WriteCas
<1>2. /\ todo[c] # <<>> /\ Call(c).op = "write" /\ Call(c).buf \in Seq(Letters) /\ Call(c).off \in Nat
      /\ ent[c] \in Entry /\ Call(c).off <= ent[c].size
  BY <1>1, WriteCall DEF WriteSteps, EntrySteps, CacheInv, Tidy, Call, FileInv, Sound, Good
<1>3. /\ Separate(todo[c]) /\ Separate(Tail(todo[c])) /\ ~ fd[c] /\ kv # Null
  BY <1>1, <1>2, TailTidy DEF CacheInv, Tidy, FileInv, Call
<1>4. CASE c \in token
  <2>1. /\ \E d \in NewData(c) : Store(Inline(d, ent[c].created))
        /\ file' = Overlay(file, Call(c).off, Call(c).buf) /\ Goto(c, "qwrite")
    BY <1>4 DEF WriteCas, Written, Applied
  <2>2. ent[c] = kv /\ Bytes(kv) = file /\ file \in Seq(Letters) /\ ent[c].created = FALSE
    BY <1>2, <1>3, <1>4 DEF CacheInv, Current, Entry
  <2>3. Len(file) = ent[c].size
    BY <1>2, <2>2, BytesType
  <2>4. file' \in Seq(Letters) /\ NewData(c) = {file'}
    BY <1>2, <2>1, <2>2, <2>3, OverlayText DEF NewData
  <2>5. kv' = Inline(file', FALSE) /\ token' = {}
    BY <2>1, <2>2, <2>4 DEF Store
  <2>6. kv' # Null
    <3>1. kv' \in Entry
      BY <2>4, <2>5 DEF Inline, Entry
    <3> QED BY <3>1, FileAssumption
  <2>7. pc'[c] = "qwrite" /\ todo'[c] = todo[c] /\ Others(c)
    BY <1>1, <2>1, Places DEF Others
  <2>8. Tidy(pc'[c], todo'[c], ent'[c], fd'[c])
    BY <1>1, <1>3, <2>7 DEF Tidy
  <2> QED BY <1>1, <2>4, <2>5, <2>6, <2>7, <2>8, CreatedCurrent, CacheClient
<1>5. CASE c \notin token
  <2>1. (Return(c) \/ Goto(c, "idle")) /\ UNCHANGED <<kv, token, file>>
    BY <1>5 DEF WriteCas
  <2>2. pc'[c] = "idle" /\ todo'[c] \in {todo[c], Tail(todo[c])}
    BY <2>1, Places
  <2>3. Others(c)
    BY <1>1, <2>1, Places DEF Others
  <2>4. Tidy(pc'[c], todo'[c], ent'[c], fd'[c])
    BY <1>1, <1>3, <2>2 DEF Tidy
  <2> QED BY <1>1, <1>5, <2>1, <2>2, <2>3, <2>4, CacheClient
<1> QED BY <1>4, <1>5

\* A read changes no entry.
LEMMA CacheRead ==
    ASSUME FileInv, CacheInv, NEW c \in Clients, ReadGet(c) \/ ReadDfs(c) \/ ReadFd(c)
    PROVE  CacheInv'
<1>1. todo[c] # <<>> /\ UNCHANGED <<evict, kv, file, mq, dfs>>
  BY DEF ReadGet, ReadDfs, ReadFd, Calls, FileInv, Sound
<1>2. /\ Separate(todo[c]) /\ Separate(Tail(todo[c]))
      /\ NoWrites(todo[c]) => NoWrites(Tail(todo[c]))
      /\ fd[c] => NoWrites(todo[c])
      /\ Call(c).op = "read" \/ pc[c] = "rdfs" => NoWrites(todo[c])
  BY <1>1, TailTidy DEF CacheInv, Tidy, FileInv, Call
<1>3. /\ \/ GetCas(c) /\ UNCHANGED fd
         \/ UNCHANGED <<token, ent, fd>>
         \/ /\ UNCHANGED <<token, ent>> /\ fd' = [fd EXCEPT ![c] = dfs # NoFile]
            /\ NoWrites(todo[c])
      /\ Return(c) \/ (Goto(c, "rdfs") /\ NoWrites(todo[c]) /\ kv # Null)
  BY <1>2 DEF ReadGet, ReadDfs, ReadFd, Calls
<1>4. Others(c)
  BY <1>3, Places DEF Others
<1>5. /\ \/ pc'[c] = "idle" /\ todo'[c] = Tail(todo[c])
         \/ pc'[c] = "rdfs" /\ todo'[c] = todo[c] /\ NoWrites(todo[c]) /\ kv # Null
      /\ fd'[c] => NoWrites(todo[c])
  <2>1. fd'[c] => NoWrites(todo[c])
    BY <1>2, <1>3
  <2> QED BY <1>3, <2>1, Places
<1>6. Tidy(pc'[c], todo'[c], ent'[c], fd'[c])
  BY <1>2, <1>5 DEF Tidy
<1>7. token' \subseteq token \cup {c} /\ (c \in token' => ent'[c] = kv)
  BY <1>3, Places DEF CacheInv
<1> QED BY <1>1, <1>4, <1>5, <1>6, <1>7, CacheClient

\* Every step keeps the entry current.
LEMMA CacheStep ==
    ASSUME InlineOnly, FileInv, CacheInv, [Next]_vars
    PROVE  CacheInv'
<1>1. ASSUME NEW c \in Clients, Client(c)
      PROVE  CacheInv'
  <2>1. ~ (WriteDirect(c) \/ WriteOpen(c) \/ WriteInline(c) \/ WriteDfs(c) \/ WriteUpdate(c))
    BY DEF WriteDirect, WriteOpen, WriteInline, WriteDfs, WriteUpdate, CacheInv, Tidy
  <2> QED BY <1>1, <2>1, CacheCreate, CacheOpen, CacheWriteGet, CacheWriteCas, CacheRead DEF Client
<1>2. ASSUME NEW n \in Nodes, Commit(n)
      PROVE  CacheInv'
  <2>1. UNCHANGED <<kv, token, evict, file, ent, fd, pc, todo>>
    BY <1>2 DEF Commit, CommitData, CommitCreate, CommitWrite
  <2>2. kv # Null
    BY <1>2 DEF Commit, CommitData, CommitCreate, CommitWrite, Receives, NodeClients, CacheInv, FileInv
  <2> QED BY <2>1, <2>2 DEF CacheInv
<1>3. ~ Evict
  BY DEF Evict, CacheInv
<1>4. CASE UNCHANGED vars
  BY <1>4 DEF vars, CacheInv
<1> QED BY <1>1, <1>2, <1>3, <1>4 DEF Next

\* However many clients write one small file at once, on however many nodes,
\* the inline data is what the writes make of it one after the other: the
\* get and cas of pacon_write_new lose no write and tear none.
THEOREM InlineWrites == InlineOnly => (Spec => []CacheCurrent)
<1> SUFFICES ASSUME InlineOnly PROVE Spec => []CacheCurrent
  OBVIOUS
<1>1. Init => FileInv /\ CacheInv
  BY FileInit, CacheInit
<1>2. FileInv /\ CacheInv /\ [Next]_vars => FileInv' /\ CacheInv'
  BY FileStep, CacheStep
<1>3. CacheInv => CacheCurrent
  BY DEF CacheInv, Current, CacheCurrent
<1> QED BY <1>1, <1>2, <1>3, PTL DEF Spec

-----------------------------------------------------------------------------
(* The write-back, of a file that one client writes and any number read.   *)

NoOp(t, op) == \A i \in DOMAIN t : t[i].op # op
Silent(t) == NoOp(t, "create") /\ NoOp(t, "create_write") /\ NoOp(t, "write")

\* Client w creates and writes the file, nobody else does, and not with
\* pacon_create_write, which does not queue the data of a new file.
WrittenBy(w) ==
    \A s \in Setups : /\ NoOp(s.todo[w], "create_write")
                      /\ \A c \in Clients \ {w} : Silent(s.todo[c])
OneWriter == \E w \in Clients : WrittenBy(w)

\* No write takes the file to the server's INLINE_MAX, past which the copy of
\* the commit thread overflows.
ServerFits == \A call \in AllCalls : call.op = "write" => call.off + Len(call.buf) < ServerMax

OnlyWrites(q) == \A i \in DOMAIN q : q[i] = "WRITE"

\* While the file is not in the DFS its CREATE is the first message, with a
\* WRITE behind it if there is data.
Unborn(w) ==
    \/ pc[w] = "qcreate" /\ mq[w] = <<>> /\ file = <<>>
    \/ /\ pc[w] # "qcreate" /\ mq[w] # <<>> /\ Head(mq[w]) = "CREATE" /\ OnlyWrites(Tail(mq[w]))
       /\ file = <<>> \/ Tail(mq[w]) # <<>> \/ pc[w] = "qwrite"

\* After that the DFS holds the file, or the commit thread has the current
\* entry, or a WRITE is still to come; what is there is never longer than the
\* file.
Born(w) ==
    LET e == commit[NodeOf[w]] IN
    /\ pc[w] # "qcreate" /\ OnlyWrites(mq[w]) /\ Len(dfs) <= Len(file)
    /\ e # Null => e.size <= Len(file)
    /\ mq[w] # <<>> \/ pc[w] = "qwrite" \/ (e # Null /\ e = kv) \/ (e = Null /\ dfs = file)

BackInv(w) ==
    /\ NoOp(todo[w], "create_write")
    /\ \A c \in Clients \ {w} : /\ Silent(todo[c]) /\ mq[c] = <<>>
                                /\ pc[c] \notin {"qcreate", "qwrite", "wcas"}
    /\ \A n \in Nodes \ {NodeOf[w]} : commit[n] = Null
    /\ kv = Null => file = NoFile
    /\ kv # Null => /\ Len(file) < ServerMax
                    /\ IF dfs = NoFile THEN Unborn(w) ELSE Born(w)
    /\ commit[NodeOf[w]] # Dead

\* There is nothing to write back at the start.
LEMMA BackInit ==
    ASSUME InlineOnly, NEW w \in Clients, WrittenBy(w), Init
    PROVE  BackInv(w)
<1>1. PICK s \in Setups : todo = s.todo /\ file = s.dfs
  BY DEF Init
<1>2. file = NoFile /\ NoOp(todo[w], "create_write") /\ \A c \in Clients \ {w} : Silent(todo[c])
  BY <1>1 DEF WrittenBy, InlineOnly
<1>3. commit[NodeOf[w]] = Null /\ \A n \in Nodes : commit[n] = Null
  BY FileAssumption DEF Init
<1> QED BY <1>2, <1>3, FileAssumption DEF Init, BackInv

\* What a program does not call, the rest of it does not call.
LEMMA TailNoOp ==
    ASSUME NEW t \in Seq(AllCalls), t # <<>>
    PROVE  /\ \A op : NoOp(t, op) => NoOp(Tail(t), op)
           /\ \A op : NoOp(t, op) => Head(t).op # op
           /\ Silent(t) => Silent(Tail(t)) /\ Head(t).op \notin {"create", "create_write", "write"}
<1>1. \A i \in DOMAIN Tail(t) : i + 1 \in DOMAIN t /\ Tail(t)[i] = t[i + 1]
  OBVIOUS
<1>2. 1 \in DOMAIN t /\ Head(t) = t[1]
  OBVIOUS
<1>3. \A op : (NoOp(t, op) => NoOp(Tail(t), op)) /\ (NoOp(t, op) => Head(t).op # op)
  BY <1>1, <1>2 DEF NoOp
<1> QED BY <1>3 DEF Silent

\* Queues of messages.
LEMMA QueueFacts ==
    ASSUME NEW q \in Seq({"CREATE", "WRITE"})
    PROVE  /\ q # <<>> /\ OnlyWrites(q) => Head(q) = "WRITE" /\ OnlyWrites(Tail(q))
           /\ Append(q, "WRITE") # <<>> /\ (OnlyWrites(q) => OnlyWrites(Append(q, "WRITE")))
           /\ q # <<>> => /\ Head(Append(q, "WRITE")) = Head(q)
                          /\ Tail(Append(q, "WRITE")) = Append(Tail(q), "WRITE")
                          /\ Tail(q) \in Seq({"CREATE", "WRITE"})
<1>1. q # <<>> /\ OnlyWrites(q) => Head(q) = "WRITE" /\ OnlyWrites(Tail(q))
  <2>1. SUFFICES ASSUME q # <<>>, OnlyWrites(q) PROVE Head(q) = "WRITE" /\ OnlyWrites(Tail(q))
    OBVIOUS
  <2>2. 1 \in DOMAIN q /\ Head(q) = q[1]
    BY <2>1
  <2>3. \A i \in DOMAIN Tail(q) : i + 1 \in DOMAIN q /\ Tail(q)[i] = q[i + 1]
    BY <2>1
  <2> QED BY <2>1, <2>2, <2>3 DEF OnlyWrites
<1>2. Append(q, "WRITE") # <<>>
  OBVIOUS
<1>3. OnlyWrites(q) => OnlyWrites(Append(q, "WRITE"))
  <2>1. \A i \in DOMAIN Append(q, "WRITE") :
          Append(q, "WRITE")[i] = "WRITE" \/ (i \in DOMAIN q /\ Append(q, "WRITE")[i] = q[i])
    OBVIOUS
  <2> QED BY <2>1 DEF OnlyWrites
<1>4. q # <<>> => /\ Head(Append(q, "WRITE")) = Head(q)
                  /\ Tail(Append(q, "WRITE")) = Append(Tail(q), "WRITE")
                  /\ Tail(q) \in Seq({"CREATE", "WRITE"})
  OBVIOUS
<1> QED BY <1>1, <1>2, <1>3, <1>4

\* Steps that neither store, queue nor commit anything.
LEMMA BackQuiet ==
    ASSUME FileInv, NEW w \in Clients, BackInv(w), NEW c \in Clients, Others(c),
           UNCHANGED <<kv, dfs, file, commit, mq>>,
           pc[c] \notin {"qcreate", "qwrite"}, pc'[c] \notin {"qcreate", "qwrite"},
           c # w => pc'[c] # "wcas",
           todo[c] # <<>>, todo'[c] \in {todo[c], Tail(todo[c])}
    PROVE  BackInv(w)'
<1>1. /\ \A op : NoOp(todo[c], op) => NoOp(todo'[c], op)
      /\ Silent(todo[c]) => Silent(todo'[c])
  <2>1. todo[c] \in Seq(AllCalls)
    BY DEF FileInv
  <2> QED BY <2>1, TailNoOp
<1>2. /\ NoOp(todo'[w], "create_write")
      /\ \A d \in Clients \ {w} : /\ Silent(todo'[d]) /\ mq'[d] = <<>>
                                  /\ pc'[d] \notin {"qcreate", "qwrite", "wcas"}
  BY <1>1 DEF BackInv, Others
<1>3. (pc'[w] = "qcreate") = (pc[w] = "qcreate") /\ (pc'[w] = "qwrite") = (pc[w] = "qwrite")
  BY DEF Others
<1>4. kv # Null => IF dfs = NoFile THEN Unborn(w)' ELSE Born(w)'
  BY <1>3 DEF BackInv, Unborn, Born
<1>5. (kv # Null => Len(file) < ServerMax) /\ commit[NodeOf[w]] # Dead
  BY DEF BackInv
<1> QED BY <1>2, <1>4, <1>5 DEF BackInv

\* What a step of a client is when the file stays inline.
LEMMA InlineSteps ==
    ASSUME FileInv, CacheInv, NEW c \in Clients, Client(c)
    PROVE  \/ Create(c) \/ CreateWrite(c) \/ AddToMq(c) \/ WriteGet(c) \/ WriteCas(c)
           \/ /\ OpenGet(c) \/ ReadGet(c) \/ ReadDfs(c) \/ ReadFd(c)
              /\ todo[c] # <<>> /\ UNCHANGED <<kv, dfs, file, commit, mq>>
              /\ pc[c] \in {"idle", "rdfs"} /\ pc'[c] \in {"idle", "rdfs"}
              /\ todo'[c] \in {todo[c], Tail(todo[c])} /\ Others(c)
<1>1. \/ Create(c) \/ CreateWrite(c) \/ AddToMq(c) \/ WriteGet(c) \/ WriteCas(c)
      \/ OpenGet(c) \/ ReadGet(c) \/ ReadDfs(c) \/ ReadFd(c)
  BY DEF Client, WriteDirect, WriteOpen, WriteInline, WriteDfs, WriteUpdate, OpenStat, OpenAdd, OpenCas,
         CacheInv, Tidy
<1>2. CASE OpenGet(c)
  <2>1. kv # Null /\ ~ kv.created
    BY <1>2 DEF OpenGet, Exists, CacheInv, Current
  <2>2. /\ todo[c] # <<>> /\ UNCHANGED <<kv, dfs, file, commit, mq>> /\ pc[c] = "idle"
        /\ Return(c) /\ GetCas(c) /\ fd' = [fd EXCEPT ![c] = FALSE]
    BY <1>2, <2>1 DEF OpenGet, Calls
  <2>3. pc'[c] = "idle" /\ todo'[c] = Tail(todo[c]) /\ Others(c)
    BY <2>2, Places DEF Others
  <2> QED BY <1>2, <2>2, <2>3
<1>3. CASE ReadGet(c) \/ ReadDfs(c) \/ ReadFd(c)
  <2>1. todo[c] # <<>> /\ UNCHANGED <<kv, dfs, file, commit, mq>> /\ pc[c] \in {"idle", "rdfs"}
    BY <1>3 DEF ReadGet, ReadDfs, ReadFd, Calls, FileInv, Sound
  <2>2. /\ \/ GetCas(c) /\ UNCHANGED fd
           \/ UNCHANGED <<ent, fd>>
           \/ UNCHANGED ent /\ fd' = [fd EXCEPT ![c] = dfs # NoFile]
        /\ Return(c) \/ Goto(c, "rdfs")
    BY <1>3 DEF ReadGet, ReadDfs, ReadFd
  <2>3. Others(c)
    BY <2>2, Places DEF Others
  <2>4. pc'[c] \in {"idle", "rdfs"} /\ todo'[c] \in {todo[c], Tail(todo[c])}
    BY <2>2, Places
  <2> QED BY <1>3, <2>1, <2>3, <2>4
<1> QED BY <1>1, <1>2, <1>3

\* Readers do not disturb the write-back.
LEMMA BackReader ==
    ASSUME FileInv, CacheInv, NEW w \in Clients, BackInv(w), NEW c \in Clients \ {w}, Client(c)
    PROVE  BackInv(w)'
<1>1. Silent(todo[c]) /\ pc[c] \notin {"qcreate", "qwrite", "wcas"}
  BY DEF BackInv
<1>2. todo[c] # <<>> => Head(todo[c]).op \notin {"create", "create_write", "write"}
  BY <1>1, TailNoOp DEF FileInv
<1>3. ~ (Create(c) \/ CreateWrite(c) \/ AddToMq(c) \/ WriteGet(c) \/ WriteCas(c))
  BY <1>1, <1>2 DEF Create, CreateWrite, AddToMq, WriteGet, WriteCas, Calls, Call
<1>4. /\ todo[c] # <<>> /\ UNCHANGED <<kv, dfs, file, commit, mq>>
      /\ pc[c] \in {"idle", "rdfs"} /\ pc'[c] \in {"idle", "rdfs"}
      /\ todo'[c] \in {todo[c], Tail(todo[c])} /\ Others(c)
  BY <1>3, InlineSteps
<1> QED BY <1>4, BackQuiet

\* A write makes the file no shorter.
LEMMA OverlayLonger ==
    ASSUME NEW s \in Seq(Letters), NEW off \in Nat, off <= Len(s), NEW buf \in Seq(Letters)
    PROVE  Len(s) <= Len(Overlay(s, off, buf))
<1>1. Letters \subseteq AnyByte /\ Hole \in AnyByte
  BY DEF AnyByte
<1>2. s \in Seq(AnyByte) /\ buf \in Seq(AnyByte)
  BY <1>1
<1>3. Len(Overlay(s, off, buf)) = Larger(Len(s), off + Len(buf))
  BY <1>1, <1>2, OverlayType
<1> QED BY <1>3 DEF Larger

\* The writer queues what is to be written back.
LEMMA BackWriter ==
    ASSUME InlineOnly, ServerFits, FileInv, CacheInv, NEW w \in Clients, BackInv(w), Client(w)
    PROVE  BackInv(w)'
<1>1. NoOp(todo[w], "create_write") /\ (todo[w] # <<>> => Call(w).op # "create_write")
  BY TailNoOp DEF BackInv, FileInv, Call
<1>2. ~ CreateWrite(w)
  BY <1>1 DEF CreateWrite, Calls
<1>3. CASE Create(w)
  <2>1. pc[w] = "idle" /\ todo[w] # <<>> /\ UNCHANGED <<dfs, mq, ent, commit>>
    BY <1>3 DEF Create, Calls
  <2>2. CASE kv # Null
    <3>1. Return(w) /\ UNCHANGED <<kv, fd, file>>
      BY <1>3, <2>2 DEF Create
    <3>2. pc'[w] = "idle" /\ todo'[w] = Tail(todo[w]) /\ Others(w)
      BY <2>1, <3>1, Places DEF Others
    <3> QED BY <2>1, <3>1, <3>2, BackQuiet
  <2>3. CASE kv = Null
    <3>1. /\ kv' = NotInline(0, FALSE) /\ file' = <<>> /\ Goto(w, "qcreate")
          /\ fd' = [fd EXCEPT ![w] = FALSE]
      BY <1>3, <2>3 DEF Create, Store, Applied
    <3>2. kv' # Null
      BY <3>1, NotInlineGood
    <3>3. pc'[w] = "qcreate" /\ todo'[w] = todo[w] /\ Others(w)
      BY <2>1, <3>1, Places DEF Others
    <3>4. dfs' = NoFile /\ mq'[w] = <<>>
      BY <2>1, <2>3 DEF CacheInv
    <3>5. Len(file') < ServerMax
      BY <3>1, FileAssumption
    <3> QED BY <2>1, <3>1, <3>2, <3>3, <3>4, <3>5 DEF BackInv, Others, Unborn
  <2> QED BY <2>2, <2>3
<1>4. CASE AddToMq(w)
  <2>1. pc[w] \in {"qcreate", "qwrite"} /\ todo[w] # <<>> /\ Return(w) /\ kv # Null
    BY <1>4 DEF AddToMq, FileInv, Sound, CacheInv
  <2>2. UNCHANGED <<kv, dfs, ent, fd, commit, file>>
    BY <1>4 DEF AddToMq
  <2>3. pc'[w] = "idle" /\ todo'[w] = Tail(todo[w]) /\ Others(w)
    BY <2>1, <2>2, Places DEF Others
  <2>4. /\ mq'[w] = Append(mq[w], IF pc[w] = "qcreate" THEN "CREATE" ELSE "WRITE")
        /\ \A d \in Clients \ {w} : mq'[d] = mq[d]
    BY <1>4 DEF AddToMq, FileInv
  <2>5. mq[w] \in Seq({"CREATE", "WRITE"})
    BY DEF FileInv
  <2>6. IF dfs' = NoFile THEN Unborn(w)' ELSE Born(w)'
    <3>1. CASE pc[w] = "qcreate"
      <4>1. dfs = NoFile /\ mq[w] = <<>> /\ file = <<>>
        BY <2>1, <3>1 DEF BackInv, Unborn, Born
      <4>2. mq'[w] # <<>> /\ Head(mq'[w]) = "CREATE" /\ Tail(mq'[w]) = <<>>
        BY <2>4, <3>1, <4>1
      <4>3. OnlyWrites(<<>>)
        BY DEF OnlyWrites
      <4> QED BY <2>2, <2>3, <4>1, <4>2, <4>3 DEF Unborn
    <3>2. CASE pc[w] = "qwrite" /\ dfs = NoFile
      <4>1. mq[w] # <<>> /\ Head(mq[w]) = "CREATE" /\ OnlyWrites(Tail(mq[w]))
        BY <2>1, <3>2 DEF BackInv, Unborn
      <4>2. /\ mq'[w] # <<>> /\ Head(mq'[w]) = "CREATE" /\ Tail(mq'[w]) = Append(Tail(mq[w]), "WRITE")
            /\ Tail(mq[w]) \in Seq({"CREATE", "WRITE"})
        BY <2>4, <2>5, <3>2, <4>1, QueueFacts
      <4>3. Tail(mq'[w]) # <<>> /\ OnlyWrites(Tail(mq'[w]))
        BY <4>1, <4>2, QueueFacts
      <4> QED BY <2>2, <2>3, <3>2, <4>2, <4>3 DEF Unborn
    <3>3. CASE pc[w] = "qwrite" /\ dfs # NoFile
      <4>1. /\ OnlyWrites(mq[w]) /\ Len(dfs) <= Len(file)
            /\ commit[NodeOf[w]] # Null => commit[NodeOf[w]].size <= Len(file)
        BY <2>1, <3>3 DEF BackInv, Born
      <4>2. mq'[w] # <<>> /\ OnlyWrites(mq'[w])
        BY <2>4, <2>5, <3>3, <4>1, QueueFacts
      <4> QED BY <2>2, <2>3, <3>3, <4>1, <4>2 DEF Born
    <3> QED BY <2>1, <3>1, <3>2, <3>3
  <2>7. NoOp(todo'[w], "create_write")
    BY <1>1, <2>1, <2>3, TailNoOp DEF FileInv
  <2> QED BY <2>1, <2>2, <2>3, <2>4, <2>6, <2>7 DEF BackInv, Others
<1>5. CASE WriteGet(w)
  <2>1. /\ pc[w] = "idle" /\ todo[w] # <<>> /\ GetCas(w) /\ UNCHANGED <<kv, dfs, mq, fd, commit, file>>
        /\ Return(w) \/ \E step \in {"direct", "pwrite", "wcas", "wopen"} : Goto(w, step)
    BY <1>5 DEF WriteGet, Calls
  <2>2. /\ pc'[w] \notin {"qcreate", "qwrite"} /\ todo'[w] \in {todo[w], Tail(todo[w])}
    BY <2>1, Places
  <2>3. Others(w)
    BY <2>1, Places DEF Others
  <2> QED BY <2>1, <2>2, <2>3, BackQuiet
<1>6. CASE WriteCas(w)
  <2>1. pc[w] = "wcas" /\ UNCHANGED <<ent, fd, mq, dfs, commit>> /\ kv # Null
    BY <1>6 DEF WriteCas, CacheInv
  <2>2. /\ todo[w] # <<>> /\ Call(w).buf \in Seq(Letters) /\ Call(w).off \in Nat
        /\ ent[w] \in Entry /\ Call(w).off <= ent[w].size
    BY <2>1, WriteCall DEF WriteSteps, EntrySteps, CacheInv, Tidy, Call, FileInv, Sound, Good
  <2>3. CASE w \in token
    <3>1. /\ \E d \in NewData(w) : kv' = Inline(d, ent[w].created)
          /\ file' = Overlay(file, Call(w).off, Call(w).buf) /\ Goto(w, "qwrite")
      BY <1>6, <2>3 DEF WriteCas, Written, Applied, Store
    <3>2. ent[w] = kv /\ Bytes(kv) = file /\ file \in Seq(Letters)
      BY <2>1, <2>3 DEF CacheInv, Current
    <3>3. Len(file) = ent[w].size
      BY <2>2, <3>2, BytesType
    <3>4. Len(file) <= Len(file') /\ Len(file) \in Nat /\ Len(file') \in Nat
      <4>1. Len(file) <= Len(Overlay(file, Call(w).off, Call(w).buf))
        BY <2>2, <3>2, <3>3, OverlayLonger
      <4>2. Overlay(file, Call(w).off, Call(w).buf) \in Seq(Letters)
        BY <2>2, <3>2, <3>3, OverlayText
      <4>3. Len(Overlay(file, Call(w).off, Call(w).buf)) \in Nat
        BY <4>2
      <4> QED BY <3>1, <3>2, <4>1, <4>3
    <3>5. kv' # Null
      <4>1. PICK d \in NewData(w) : kv' = Inline(d, ent[w].created)
        BY <3>1
      <4>2. d \in Data /\ Len(d) < Limit /\ ent[w].created \in BOOLEAN
        BY <2>1, <2>2, NewDataType DEF Entry
      <4> QED BY <4>1, <4>2, InlineGood
    <3>6. pc'[w] = "qwrite" /\ todo'[w] = todo[w] /\ Others(w)
      BY <2>1, <3>1, Places DEF Others
    <3>7. dfs = NoFile => Unborn(w)'
      BY <2>1, <3>6 DEF BackInv, Unborn
    <3>8. dfs # NoFile => Born(w)'
      <4>1. SUFFICES ASSUME dfs # NoFile PROVE Born(w)'
        OBVIOUS
      <4>2. /\ OnlyWrites(mq[w]) /\ Len(dfs) <= Len(file)
            /\ commit[NodeOf[w]] # Null => commit[NodeOf[w]].size <= Len(file)
        BY <2>1, <4>1 DEF BackInv, Born
      <4>3. Len(dfs) \in Nat /\ (commit[NodeOf[w]] # Null => commit[NodeOf[w]].size \in Nat)
        <5>1. dfs \in Data /\ commit[NodeOf[w]] \in Good
          BY <4>1, FileAssumption DEF FileInv, BackInv
        <5> QED BY <5>1 DEF Data, Good, Entry
      <4>4. Len(dfs) <= Len(file') /\ (commit[NodeOf[w]] # Null => commit[NodeOf[w]].size <= Len(file'))
        BY <3>4, <4>2, <4>3
      <4> QED BY <2>1, <3>6, <4>2, <4>4 DEF Born
    <3>9. Len(file') < ServerMax
      <4>1. Call(w) \in AllCalls /\ Call(w).op = "write"
        BY <2>1, CallType, WriteCall DEF FileInv, Sound, WriteSteps, Call
      <4>2. Call(w).off + Len(Call(w).buf) < ServerMax
        BY <4>1 DEF ServerFits
      <4>3. Len(file') = Larger(Len(file), Call(w).off + Len(Call(w).buf))
        <5>1. Letters \subseteq AnyByte /\ Hole \in AnyByte
          BY DEF AnyByte
        <5>2. file \in Seq(AnyByte) /\ Call(w).buf \in Seq(AnyByte)
          BY <2>2, <3>2, <5>1
        <5> QED BY <2>2, <3>1, <5>1, <5>2, OverlayType
      <4>4. Len(file) < ServerMax
        BY <2>1 DEF BackInv
      <4> QED BY <4>2, <4>3, <4>4 DEF Larger
    <3> QED BY <2>1, <3>5, <3>6, <3>7, <3>8, <3>9 DEF BackInv, Others
  <2>4. CASE w \notin token
    <3>1. (Return(w) \/ Goto(w, "idle")) /\ UNCHANGED <<kv, file>>
      BY <1>6, <2>4 DEF WriteCas
    <3>2. pc'[w] = "idle" /\ todo'[w] \in {todo[w], Tail(todo[w])}
      BY <3>1, Places
    <3>3. Others(w)
      BY <2>1, <3>1, Places DEF Others
    <3> QED BY <2>1, <2>2, <3>1, <3>2, <3>3, BackQuiet
  <2> QED BY <2>3, <2>4
<1>7. CASE ~ (Create(w) \/ AddToMq(w) \/ WriteGet(w) \/ WriteCas(w))
  <2>1. /\ todo[w] # <<>> /\ UNCHANGED <<kv, dfs, file, commit, mq>>
        /\ pc[w] \in {"idle", "rdfs"} /\ pc'[w] \in {"idle", "rdfs"}
        /\ todo'[w] \in {todo[w], Tail(todo[w])} /\ Others(w)
    BY <1>2, <1>7, InlineSteps
  <2> QED BY <2>1, BackQuiet
<1> QED BY <1>3, <1>4, <1>5, <1>6, <1>7

\* A pwrite from the start that is as long as the file replaces it.
LEMMA OverlayAll ==
    ASSUME NEW s \in Data, NEW b \in Data, Len(s) <= Len(b)
    PROVE  Overlay(s, 0, b) = b
<1>1. Len(s) \in Nat /\ Len(b) \in Nat /\ 0 + Len(b) = Len(b)
  BY DEF Data
<1>2. Larger(Len(s), 0 + Len(b)) = Len(b)
  BY <1>1 DEF Larger
<1>3. \A i \in 1 .. Len(b) : i \in 0 + 1 .. 0 + Len(b) /\ i - 0 = i
  BY <1>1
<1>4. Overlay(s, 0, b) = [i \in 1 .. Len(b) |-> b[i]]
  BY <1>2, <1>3 DEF Overlay
<1>5. b = [i \in 1 .. Len(b) |-> b[i]]
  BY DEF Data
<1> QED BY <1>4, <1>5

\* An entry of a short file fits the buffer of the server.
LEMMA ShortData ==
    ASSUME NEW e \in Good, e # Null, NEW f \in Data, e.size <= Len(f), Len(f) < ServerMax
    PROVE  ~ Overflows(e)
<1>1. Len(e.data) <= e.size /\ Len(e.data) \in Nat /\ e.size \in Nat /\ Len(f) \in Nat
  BY DEF Good, EntryOK, Entry, Data
<1> QED BY <1>1, FileAssumption DEF Overflows

\* The commit thread of the writer creates the file and copies the entry.
LEMMA BackCommit ==
    ASSUME FileInv, CacheInv, NEW w \in Clients, BackInv(w), NEW n \in Nodes, Commit(n)
    PROVE  BackInv(w)'
<1> DEFINE nw == NodeOf[w]
<1>1. nw \in Nodes /\ DOMAIN commit = Nodes /\ DOMAIN mq = Clients
  BY FileAssumption DEF FileInv
<1>2. UNCHANGED <<kv, file, pc, todo>>
  BY DEF Commit, CommitData, CommitCreate, CommitWrite
<1>3. CASE CommitData(n)
  <2>1. n = nw /\ commit[nw] \notin {Null, Dead} /\ dfs # NoFile /\ kv # Null
    BY <1>3 DEF CommitData, BackInv, FileInv, CacheInv
  <2>2. /\ OnlyWrites(mq[w]) /\ pc[w] # "qcreate" /\ Len(dfs) <= Len(file)
        /\ commit[nw].size <= Len(file)
        /\ mq[w] # <<>> \/ pc[w] = "qwrite" \/ commit[nw] = kv
    BY <2>1 DEF BackInv, Born
  <2>3. /\ dfs \in Data /\ commit[nw] \in Entry /\ kv \in Entry /\ Bytes(kv) = file
        /\ dfs' = Overlay(dfs, 0, Bytes(commit[nw])) /\ UNCHANGED mq
    BY <1>1, <1>3, <2>1 DEF CommitData, FileInv, Good, CacheInv, Current
  <2>4. /\ Bytes(commit[nw]) \in Data /\ Len(Bytes(commit[nw])) = commit[nw].size
        /\ file \in Data /\ commit[nw].size \in Nat
    BY <2>3, BytesType DEF Entry
  <2>5. Len(dfs') = Larger(Len(dfs), 0 + commit[nw].size) /\ dfs' # NoFile
    <3>1. Hole \in AnyByte
      BY DEF AnyByte
    <3>2. dfs \in Seq(AnyByte) /\ Bytes(commit[nw]) \in Seq(AnyByte) /\ 0 \in Nat
      BY <2>3, <2>4 DEF Data
    <3>3. Len(Overlay(dfs, 0, Bytes(commit[nw]))) = Larger(Len(dfs), 0 + Len(Bytes(commit[nw])))
      BY <3>1, <3>2, OverlayType, Zenon
    <3>4. Len(dfs') = Larger(Len(dfs), 0 + Len(Bytes(commit[nw])))
      BY <2>3, <3>3
    <3> QED BY <2>1, <2>3, <2>4, <3>4, PwriteType
  <2>6. Len(dfs') <= Len(file)
    <3>1. Len(dfs) \in Nat /\ Len(file) \in Nat
      BY <2>3, <2>4 DEF Data
    <3> QED BY <2>2, <2>4, <2>5, <3>1 DEF Larger
  <2>7. commit[nw] = kv => dfs' = file
    BY <2>2, <2>3, <2>4, OverlayAll
  <2>8. /\ commit'[nw] = Null /\ \A d \in Nodes \ {nw} : commit'[d] = commit[d]
    <3>1. ~ Overflows(commit[nw])
      <4>1. commit[nw] \in Good /\ Len(file) < ServerMax
        BY <1>1, <2>1 DEF FileInv, BackInv
      <4> QED BY <2>1, <2>2, <2>4, <4>1, ShortData
    <3> QED BY <1>1, <1>3, <2>1, <3>1 DEF CommitData
  <2>9. Born(w)'
    BY <1>2, <2>2, <2>3, <2>6, <2>7, <2>8 DEF Born
  <2>10. Len(file) < ServerMax /\ commit'[nw] # Dead
    BY <2>1, <2>8, FileAssumption DEF BackInv
  <2> QED BY <1>2, <2>1, <2>3, <2>5, <2>8, <2>9, <2>10 DEF BackInv
<1>4. CASE \E c \in NodeClients(n) : CommitCreate(c) \/ CommitWrite(c)
  <2>1. PICK c \in NodeClients(n) : CommitCreate(c) \/ CommitWrite(c)
    BY <1>4
  <2>2. /\ c = w /\ n = nw /\ mq[w] # <<>> /\ commit[nw] = Null /\ kv # Null
        /\ mq' = [mq EXCEPT ![w] = Tail(mq[w])]
    <3>1. c \in Clients /\ NodeOf[c] = n /\ mq[c] # <<>>
      BY <2>1 DEF NodeClients, CommitCreate, CommitWrite, Receives
    <3>2. c = w
      BY <3>1 DEF BackInv
    <3> QED BY <2>1, <3>1, <3>2 DEF CommitCreate, CommitWrite, Receives, Received, CacheInv
  <2>3. mq'[w] = Tail(mq[w]) /\ \A d \in Clients \ {w} : mq'[d] = mq[d]
    BY <1>1, <2>2
  <2>4. mq[w] \in Seq({"CREATE", "WRITE"}) /\ (Head(mq[w]) = "WRITE" \/ dfs = NoFile)
    BY <2>2, QueueFacts DEF FileInv, BackInv, Born
  <2>5. CASE CommitCreate(w)
    <3>1. Head(mq[w]) = "CREATE" /\ dfs' = <<>> /\ UNCHANGED commit
      BY <2>5 DEF CommitCreate, Receives
    <3>2. dfs = NoFile
      BY <2>4, <3>1
    <3>3. /\ pc[w] # "qcreate" /\ OnlyWrites(Tail(mq[w]))
          /\ file = <<>> \/ Tail(mq[w]) # <<>> \/ pc[w] = "qwrite"
      BY <2>2, <3>2 DEF BackInv, Unborn
    <3>4. dfs' # NoFile
      <4>1. <<>> \in Seq(Letters \cup {Junk, Hole})
        OBVIOUS
      <4> QED BY <3>1, <4>1, FileAssumption
    <3>5. Len(dfs') <= Len(file)
      <4>1. file \in Seq(Letters)
        BY <2>2 DEF CacheInv, Current
      <4> QED BY <3>1, <4>1
    <3>6. Born(w)'
      BY <1>2, <2>2, <2>3, <3>1, <3>3, <3>5 DEF Born
    <3>7. commit[nw] # Dead /\ Len(file) < ServerMax
      BY <2>2 DEF BackInv
    <3> QED BY <1>2, <2>2, <2>3, <3>1, <3>4, <3>6, <3>7 DEF BackInv
  <2>6. CASE CommitWrite(w)
    <3>1. Head(mq[w]) = "WRITE" /\ UNCHANGED dfs
      BY <2>6 DEF CommitWrite, Receives
    <3>2. dfs # NoFile
      BY <2>2, <3>1 DEF BackInv, Unborn
    <3>3. commit'[nw] = kv /\ \A d \in Nodes \ {nw} : commit'[d] = commit[d]
      <4>1. kv \in Good /\ kv # Null /\ Len(file) < ServerMax /\ kv.size = Len(file) /\ file \in Data
        BY <2>2, BytesType DEF FileInv, BackInv, CacheInv, Current, Good
      <4>2. ~ Overflows(kv)
        BY <4>1, ShortData
      <4> QED BY <1>1, <2>6, <3>2, <4>2 DEF CommitWrite
    <3>4. OnlyWrites(mq[w]) /\ pc[w] # "qcreate" /\ Len(dfs) <= Len(file)
      BY <2>2, <3>2 DEF BackInv, Born
    <3>5. OnlyWrites(Tail(mq[w]))
      BY <2>2, <2>4, <3>4, QueueFacts
    <3>6. kv.size <= Len(file)
      <4>1. kv \in Entry /\ Bytes(kv) = file
        BY <2>2 DEF CacheInv, Current, FileInv, Good
      <4>2. Len(file) = kv.size /\ kv.size \in Nat
        BY <4>1, BytesType DEF Entry
      <4> QED BY <4>2
    <3>7. Born(w)'
      BY <1>2, <2>2, <2>3, <3>1, <3>3, <3>4, <3>5, <3>6 DEF Born
    <3>8. kv # Dead /\ Len(file) < ServerMax
      BY <2>2, FileAssumption DEF FileInv, Good, BackInv
    <3> QED BY <1>2, <2>2, <2>3, <3>1, <3>2, <3>3, <3>7, <3>8 DEF BackInv
  <2> QED BY <2>1, <2>2, <2>5, <2>6
<1> QED BY <1>3, <1>4 DEF Commit

\* A file that one client writes and any number of clients read is in the DFS,
\* byte for byte, when all calls have returned and all messages are committed,
\* however its writes, its CREATE and the write-backs interleave, if it stays
\* below the INLINE_MAX of the server, which is smaller than the client's.
THEOREM WriteBackComplete == InlineOnly /\ OneWriter /\ ServerFits => (Spec => []WrittenBack)
<1>1. SUFFICES ASSUME InlineOnly, ServerFits, NEW w \in Clients, WrittenBy(w)
               PROVE  Spec => []WrittenBack
  BY DEF OneWriter
<1>2. Init => FileInv /\ CacheInv /\ BackInv(w)
  BY <1>1, FileInit, CacheInit, BackInit
<1>3. FileInv /\ CacheInv /\ BackInv(w) /\ [Next]_vars => FileInv' /\ CacheInv' /\ BackInv(w)'
  <2>1. SUFFICES ASSUME FileInv, CacheInv, BackInv(w), [Next]_vars
                 PROVE  FileInv' /\ CacheInv' /\ BackInv(w)'
    OBVIOUS
  <2>2. ~ Evict
    BY <2>1 DEF Evict, CacheInv
  <2>3. UNCHANGED vars => BackInv(w)'
    BY <2>1 DEF vars, BackInv, Unborn, Born
  <2>4. ASSUME NEW c \in Clients, Client(c) PROVE BackInv(w)'
    BY <1>1, <2>1, <2>4, BackReader, BackWriter
  <2>5. ASSUME NEW n \in Nodes, Commit(n) PROVE BackInv(w)'
    BY <2>1, <2>5, BackCommit
  <2>6. BackInv(w)'
    BY <2>1, <2>2, <2>3, <2>4, <2>5 DEF Next
  <2> QED BY <1>1, <2>1, <2>6, FileStep, CacheStep
<1>4. FileInv /\ CacheInv /\ BackInv(w) => WrittenBack
  <2>1. SUFFICES ASSUME FileInv, CacheInv, BackInv(w), Quiescent PROVE dfs = file
    BY DEF WrittenBack
  <2>2. mq[w] = <<>> /\ pc[w] = "idle" /\ commit[NodeOf[w]] = Null
    <3>1. commit[NodeOf[w]] # Dead /\ NodeOf[w] \in Nodes
      BY <2>1, FileAssumption DEF BackInv
    <3> QED BY <2>1, <3>1 DEF Quiescent, Committed, FileInv, Sound
  <2> QED BY <2>1, <2>2 DEF BackInv, CacheInv, Unborn, Born
<1> QED BY <1>2, <1>3, <1>4, PTL DEF Spec

-----------------------------------------------------------------------------
(* Reads, of a file that is inline from the start.                         *)

\* The file is made by pacon_create_write: its entry has inline data from the
\* start, and pacon_read_new does not turn to the DFS.
BornInline == InlineOnly /\ \A s \in Setups : \A c \in Clients : NoOp(s.todo[c], "create")

ReadInv ==
    /\ kv # Null => kv.inline
    /\ DOMAIN got = Clients /\ DOMAIN seen = Clients
    /\ \A c \in Clients : NoOp(todo[c], "create") /\ ~ fd[c] /\ pc[c] # "rdfs"
    /\ ReadsCurrent

\* The steps that are left.
LEMMA CachedSteps ==
    ASSUME FileInv, CacheInv, ReadInv, NEW c \in Clients, Client(c)
    PROVE  \/ CreateWrite(c) \/ AddToMq(c) \/ WriteGet(c) \/ WriteCas(c) \/ OpenGet(c)
           \/ ReadGet(c)
<1>1. ~ Create(c)
  BY TailNoOp DEF Create, Calls, Call, ReadInv, FileInv
<1>2. ~ ReadDfs(c) /\ ~ ReadFd(c)
  BY DEF ReadDfs, ReadFd, ReadInv
<1> QED BY <1>1, <1>2, InlineSteps

\* No step opens the file or leaves the inline data.
LEMMA StaysCached ==
    ASSUME FileInv, CacheInv, ReadInv, NEW c \in Clients, Client(c), NEW d \in Clients
    PROVE  /\ kv' # Null => kv'.inline
           /\ NoOp(todo'[d], "create") /\ ~ fd'[d] /\ pc'[d] # "rdfs"
<1>1. kv' # Null => kv'.inline
  <2>1. ASSUME NEW b, NEW created, kv' = Inline(b, created) PROVE kv'.inline
    BY <2>1 DEF Inline
  <2>2. UNCHANGED kv \/ \E b, created : kv' = Inline(b, created)
    BY CachedSteps DEF CreateWrite, AddToMq, WriteGet, WriteCas, OpenGet, ReadGet, Store
  <2> QED BY <2>1, <2>2 DEF ReadInv
<1>2. todo[c] # <<>>
  BY CachedSteps DEF CreateWrite, AddToMq, WriteGet, WriteCas, OpenGet, ReadGet, Calls, FileInv,
                     Sound
<1>3. UNCHANGED fd \/ fd' = [fd EXCEPT ![c] = FALSE]
  BY CachedSteps DEF CreateWrite, AddToMq, WriteGet, WriteCas, OpenGet, ReadGet
<1>4. Return(c) \/ \E p \in Steps \ {"rdfs"} : Goto(c, p)
  <2>1. ReadGet(c) => Return(c)
    BY DEF ReadGet, ReadInv
  <2>2. OpenGet(c) => Return(c)
    BY DEF OpenGet, Exists, CacheInv, Current
  <2> QED BY <2>1, <2>2, CachedSteps
          DEF CreateWrite, AddToMq, WriteGet, WriteCas, Steps, WriteSteps
<1>5. ~ fd'[d]
  BY <1>3, Places DEF ReadInv
<1>6. pc'[d] # "rdfs" /\ (todo'[d] = todo[d] \/ (d = c /\ todo'[d] = Tail(todo[d])))
  <2>1. pc[d] # "rdfs"
    BY DEF ReadInv
  <2>2. CASE Return(c)
    BY <2>1, <2>2, Places
  <2>3. ASSUME NEW p, p # "rdfs", Goto(c, p)
        PROVE  pc'[d] # "rdfs" /\ todo'[d] = todo[d]
    BY <2>1, <2>3, Places
  <2> QED BY <1>4, <2>2, <2>3
<1>7. NoOp(todo'[d], "create")
  <2>1. NoOp(todo[d], "create") /\ todo[d] \in Seq(AllCalls)
    BY DEF ReadInv, FileInv
  <2>2. d = c => NoOp(Tail(todo[d]), "create")
    BY <1>2, <2>1, TailNoOp
  <2> QED BY <1>6, <2>1, <2>2
<1> QED BY <1>1, <1>5, <1>6, <1>7

\* What a step does to the reads.
LEMMA ReadStep ==
    ASSUME FileInv, CacheInv, ReadInv, NEW c \in Clients, Client(c)
    PROVE  ReadInv'
<1>1. CASE ~ ReadGet(c)
  <2>1. UNCHANGED got
    BY <1>1, CachedSteps DEF CreateWrite, AddToMq, WriteGet, WriteCas, OpenGet
  <2>2. UNCHANGED seen \/ \E s : Applied(s)
    BY <1>1, CachedSteps DEF CreateWrite, AddToMq, WriteGet, WriteCas, OpenGet, Written
  <2>3. DOMAIN seen' = Clients /\ \A d \in Clients : seen'[d] = seen[d]
    BY <2>2 DEF Applied, ReadInv
  <2>4. ReadsCurrent'
    BY <2>1, <2>3 DEF ReadInv, ReadsCurrent
  <2> QED BY <2>1, <2>3, <2>4, StaysCached DEF ReadInv
<1>2. CASE ReadGet(c)
  <2>1. /\ seen' = [seen EXCEPT ![c] = {file}]
        /\ \/ got' = [got EXCEPT ![c] = Null]
           \/ kv # Null /\ Result(c, Bytes(kv))
    BY <1>2 DEF ReadGet, ReadInv
  <2>2. /\ DOMAIN seen' = Clients /\ DOMAIN got' = Clients
        /\ seen'[c] = {file} /\ \A d \in Clients \ {c} : seen'[d] = seen[d] /\ got'[d] = got[d]
    BY <2>1 DEF Result, ReadInv
  <2>3. CASE got' = [got EXCEPT ![c] = Null]
    <3>1. got'[c] = Null
      BY <2>3 DEF ReadInv
    <3>2. ReadsCurrent'
      BY <2>2, <3>1 DEF ReadInv, ReadsCurrent
    <3> QED BY <2>2, <3>2, StaysCached DEF ReadInv
  <2>4. CASE kv # Null /\ Result(c, Bytes(kv))
    <3>1. Bytes(kv) = file
      BY <2>4 DEF CacheInv, Current
    <3> DEFINE off == Call(c).off
               n == Call(c).n
    <3>2. got'[c] = [off |-> off, n |-> n, bytes |-> Slice(file, off, n)]
      BY <2>4, <3>1 DEF Result, ReadInv
    <3> HIDE DEF off, n
    <3>3. got'[c].bytes = Slice(file, got'[c].off, got'[c].n)
      BY <3>2
    <3>4. ReadsCurrent'
      BY <2>2, <3>3 DEF ReadInv, ReadsCurrent
    <3> QED BY <2>2, <3>4, StaysCached DEF ReadInv
  <2> QED BY <2>1, <2>3, <2>4
<1> QED BY <1>1, <1>2

\* A file that is made by pacon_create_write and stays below the limit is read
\* as it was at some time during the read, by any number of clients on any
\* nodes, however their reads interleave with writes and write-backs.
THEOREM InlineReads == BornInline => (Spec => []ReadsCurrent)
<1> SUFFICES ASSUME BornInline PROVE Spec => []ReadsCurrent
  OBVIOUS
<1>1. Init => FileInv /\ CacheInv /\ ReadInv
  <2>1. SUFFICES ASSUME Init PROVE FileInv /\ CacheInv /\ ReadInv
    OBVIOUS
  <2>2. \A c \in Clients : NoOp(todo[c], "create")
    BY <2>1 DEF Init, BornInline
  <2>3. ReadInv
    BY <2>1, <2>2 DEF Init, ReadInv, ReadsCurrent
  <2> QED BY <2>1, <2>3, FileInit, CacheInit DEF BornInline
<1>2. FileInv /\ CacheInv /\ ReadInv /\ [Next]_vars => FileInv' /\ CacheInv' /\ ReadInv'
  <2>1. SUFFICES ASSUME FileInv, CacheInv, ReadInv, [Next]_vars PROVE FileInv' /\ CacheInv' /\ ReadInv'
    OBVIOUS
  <2>2. ~ Evict
    BY <2>1 DEF Evict, CacheInv
  <2>3. UNCHANGED <<kv, got, seen, todo, fd, pc>> => ReadInv'
    BY <2>1 DEF ReadInv, ReadsCurrent
  <2>4. ASSUME NEW n \in Nodes, Commit(n) PROVE UNCHANGED <<kv, got, seen, todo, fd, pc>>
    BY <2>4 DEF Commit, CommitData, CommitCreate, CommitWrite
  <2>5. ReadInv'
    BY <2>1, <2>2, <2>3, <2>4, ReadStep DEF Next, vars
  <2> QED BY <2>1, <2>5, FileStep, CacheStep DEF BornInline
<1>3. ReadInv => ReadsCurrent
  BY DEF ReadInv
<1> QED BY <1>1, <1>2, <1>3, PTL DEF Spec
=============================================================================
