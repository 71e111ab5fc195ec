------------------------------ MODULE PaconFile ------------------------------
(***************************************************************************)
(* The data of one file.  A small file lives in its cache entry: pacon_    *)
(* write_new stores the bytes with the metadata (inline data) by a cas and *)
(* queues WRITE, and the commit thread of the node copies them to the DFS. *)
(* A write that takes the file to the limit or past it goes to the DFS     *)
(* itself, as do all later calls with the same struct pacon_file.  Client  *)
(* and server are built with limits of their own (INLINE_MAX of pacon.h    *)
(* and of pacon_server.h).                                                 *)
(*                                                                         *)
(* One action is one call on the KV store, the queue or the DFS.  Buffers  *)
(* hold text, as strcpy and strlen assume: strlen(buf) = size.  External:  *)
(* memcached (cas succeeds iff nothing was stored since the get), the      *)
(* queue of each client (in order) and the DFS (pwrite and pread atomic).  *)
(***************************************************************************)
EXTENDS Integers, Sequences, FiniteSets

CONSTANTS
    Clients, Nodes,
    NodeOf,     \* the node of each client
    Limit,      \* the client's INLINE_MAX - 1: inline files are shorter
    ServerMax,  \* the server's INLINE_MAX: its buffer for inline data
    Letters,    \* what buffers hold: bytes of text
    Setups,     \* what applications do: records [dfs, todo, evict]
    NoFile,     \* the DFS has no such file
    Null,       \* no entry
    Dead,       \* a server that was killed
    Junk, Hole  \* an indeterminate byte; a byte of a gap

AllCalls == UNION {{s.todo[c][i] : i \in DOMAIN s.todo[c]} : s \in Setups, c \in Clients}

Entry == [inline : BOOLEAN, created : BOOLEAN, size : Nat, data : Seq(Letters \cup {Junk, Hole})]

ASSUME FileAssumption ==
    /\ NodeOf \in [Clients -> Nodes] /\ Junk \notin Letters
    /\ Limit \in Nat /\ ServerMax \in Nat \ {0}
    /\ NoFile \notin Seq(Letters \cup {Junk, Hole})
    /\ Null \notin Entry /\ Dead \notin Entry /\ Dead # Null
    /\ \A s \in Setups :
         /\ s.evict \in BOOLEAN /\ s.dfs \in Seq(Letters) \cup {NoFile}
         /\ s.todo \in [Clients -> Seq(AllCalls)]
    /\ \A call \in AllCalls :
         /\ call.op \in {"write", "create_write"} => call.buf \in Seq(Letters)
         /\ call.op = "write" => call.off \in Nat

VARIABLES
    kv,     \* the entry of the file: [inline, created, size, data] or Null
    token,  \* clients whose cas value is current
    dfs,    \* the bytes in the DFS, or NoFile
    mq,     \* per client: messages to the commit thread of its node
    todo,   \* per client: the calls it still makes
    pc,     \* per client: the next step of the first of them
    ent,    \* per client: the entry it got
    fd,     \* per client: TRUE iff fd of its struct pacon_file is open
    commit, \* per node: the entry its commit thread got in WRITE, Null or Dead
    evict,  \* TRUE: the entry may be evicted, once
    file,   \* history: every successful write applied to what was there
    seen,   \* history, per client: what file was during its last read
    got     \* per client: its last read, [off, n, bytes], or Null

vars == <<kv, token, dfs, mq, todo, pc, ent, fd, commit, evict, file, seen, got>>

NotInline(size, created) ==
    [inline |-> FALSE, created |-> created, size |-> size, data |-> <<>>]
Inline(bytes, created) ==
    [inline |-> TRUE, created |-> created, size |-> Len(bytes), data |-> bytes]

\* dmkv_cas of the first PSTAT_SIZE bytes of a value that was got.
Truncated(e) == [e EXCEPT !.data = <<>>]

\* deseri_inline_data copies what is stored to an uninitialised array, of
\* which callers use size bytes.
Bytes(e) == [i \in 1 .. e.size |-> IF i <= Len(e.data) THEN e.data[i] ELSE Junk]

\* seri_inline_data: strlen may stop at a junk byte, and what follows is
\* then indeterminate as well.
Serialised(s) ==
    {s, [i \in DOMAIN s |-> IF \E j \in 1 .. i : s[j] = Junk THEN Junk ELSE s[i]]}

Larger(m, n) == IF m > n THEN m ELSE n

\* pwrite of buf at an offset of s.
Overlay(s, off, buf) ==
    [i \in 1 .. Larger(Len(s), off + Len(buf)) |->
        IF i \in off + 1 .. off + Len(buf) THEN buf[i - off]
        ELSE IF i <= Len(s) THEN s[i] ELSE Hole]

\* pread of n bytes at an offset of s.
Slice(s, off, n) == SubSeq(s, off + 1, IF off + n < Len(s) THEN off + n ELSE Len(s))

Init ==
    \E s \in Setups :
        /\ kv = Null /\ token = {}
        /\ dfs = s.dfs
        /\ mq = [c \in Clients |-> <<>>]
        /\ todo = s.todo
        /\ pc = [c \in Clients |-> "idle"]
        /\ ent = [c \in Clients |-> Null]
        /\ fd = [c \in Clients |-> FALSE]
        /\ commit = [n \in Nodes |-> Null]
        /\ evict = s.evict
        /\ file = s.dfs
        /\ seen = [c \in Clients |-> {}]
        /\ got = [c \in Clients |-> Null]

-----------------------------------------------------------------------------
Call(c) == Head(todo[c])
Calls(c, op) == pc[c] = "idle" /\ todo[c] # <<>> /\ Call(c).op = op
Goto(c, step) == pc' = [pc EXCEPT ![c] = step] /\ UNCHANGED todo
Return(c) == pc' = [pc EXCEPT ![c] = "idle"] /\ todo' = [todo EXCEPT ![c] = Tail(@)]

\* A store makes every cas value outdated.
Store(e) == kv' = e /\ token' = {}
GetCas(c) == ent' = [ent EXCEPT ![c] = kv] /\ token' = token \cup {c}

\* The file changes to s, also for the reads under way.
Applied(s) ==
    /\ file' = s
    /\ seen' = [c \in Clients |-> IF pc[c] = "rdfs" THEN seen[c] \cup {s} ELSE seen[c]]
Written(c) == Applied(Overlay(file, Call(c).off, Call(c).buf))

\* Applications use a file once it was created.
Exists == kv # Null \/ dfs # NoFile

-----------------------------------------------------------------------------
(* pacon_create (and pacon_create_open) and pacon_create_write.            *)

Create(c) ==
    /\ Calls(c, "create")
    /\ IF kv = Null
         THEN /\ Store(NotInline(0, FALSE)) /\ Applied(<<>>)
              /\ fd' = [fd EXCEPT ![c] = FALSE]
              /\ Goto(c, "qcreate")
         ELSE Return(c) /\ UNCHANGED <<kv, token, fd, file, seen>>
    /\ UNCHANGED <<dfs, mq, ent, commit, evict, got>>

\* Refuses a buffer that is too long.  CREATE is queued even if the entry
\* was there; the data of a new file is not queued.
CreateWrite(c) ==
    /\ Calls(c, "create_write")
    /\ LET fits == Len(Call(c).buf) < Limit IN
         /\ IF fits /\ kv = Null
              THEN Store(Inline(Call(c).buf, FALSE)) /\ Applied(Call(c).buf)
              ELSE UNCHANGED <<kv, token, file, seen>>
         /\ IF fits
              THEN Goto(c, "qcreate") /\ fd' = [fd EXCEPT ![c] = FALSE]
              ELSE Return(c) /\ UNCHANGED fd
    /\ UNCHANGED <<dfs, mq, ent, commit, evict, got>>

\* Mutant of AddToMq: WRITE is not queued, as with INLINE_ASYNC_WB 0.
AddToMqNoWrite(c) ==
    /\ pc[c] \in {"qcreate", "qwrite"}
    /\ mq' = [mq EXCEPT ![c] = IF pc[c] = "qcreate" THEN Append(@, "CREATE") ELSE @]
    /\ Return(c)
    /\ UNCHANGED <<kv, token, dfs, ent, fd, commit, evict, file, seen, got>>

\* add_to_mq, the last step of a create and of an inline write.
AddToMq(c) ==
    /\ pc[c] \in {"qcreate", "qwrite"}
    /\ mq' = [mq EXCEPT ![c] = Append(@, IF pc[c] = "qcreate" THEN "CREATE" ELSE "WRITE")]
    /\ Return(c)
    /\ UNCHANGED <<kv, token, dfs, ent, fd, commit, evict, file, seen, got>>

-----------------------------------------------------------------------------
(* pacon_open.                                                             *)

\* An entry of a file that is in the DFS, and not inline, opens the file.
OpenGet(c) ==
    /\ Calls(c, "open") /\ Exists
    /\ GetCas(c)
    /\ IF kv = Null
         THEN Goto(c, "ostat") /\ UNCHANGED fd
         ELSE IF kv.created /\ ~kv.inline /\ kv.size > 0
           THEN Goto(c, "ocas") /\ UNCHANGED fd
           ELSE Return(c) /\ fd' = [fd EXCEPT ![c] = FALSE]
    /\ UNCHANGED <<kv, dfs, mq, commit, evict, file, seen, got>>

\* stat and open: the entry that is added if there still is none.
OpenStat(c) ==
    /\ pc[c] = "ostat"
    /\ IF dfs = NoFile
         THEN Return(c) /\ UNCHANGED ent
         ELSE Goto(c, "oadd") /\ ent' = [ent EXCEPT ![c] = NotInline(Len(dfs), TRUE)]
    /\ UNCHANGED <<kv, token, dfs, mq, fd, commit, evict, file, seen, got>>

OpenAdd(c) ==
    /\ pc[c] = "oadd"
    /\ IF kv = Null
         THEN Store(ent[c]) /\ Return(c) /\ fd' = [fd EXCEPT ![c] = TRUE]
         ELSE Goto(c, "idle") /\ UNCHANGED <<kv, token, fd>>
    /\ UNCHANGED <<dfs, mq, ent, commit, evict, file, seen, got>>

\* The loop that increases open_counter; the entry that is got again is not
\* tested again.
OpenCas(c) ==
    /\ pc[c] = "ocas"
    /\ IF c \in token
         THEN /\ Store(Truncated(ent[c])) /\ Return(c)
              /\ fd' = [fd EXCEPT ![c] = TRUE]
              /\ UNCHANGED ent
         ELSE /\ IF kv = Null THEN Return(c) /\ UNCHANGED <<ent, token>>
                              ELSE GetCas(c) /\ UNCHANGED <<pc, todo>>
              /\ UNCHANGED <<kv, fd>>
    /\ UNCHANGED <<dfs, mq, commit, evict, file, seen, got>>

-----------------------------------------------------------------------------
(* pacon_write_new.                                                        *)

NewSize(c, e) == Larger(Call(c).off + Len(Call(c).buf), e.size)

\* Mutant of WriteGet: a file of exactly the limit is still stored inline.
WriteGetOver(c) ==
    /\ Calls(c, "write") /\ Exists
    /\ GetCas(c)
    /\ IF kv = Null THEN Goto(c, "direct")
       ELSE IF fd[c] THEN Goto(c, "pwrite")
       ELSE IF kv.size < Call(c).off THEN Return(c)
       ELSE Goto(c, IF NewSize(c, kv) <= Limit THEN "wcas" ELSE "wopen")
    /\ UNCHANGED <<kv, dfs, mq, fd, commit, evict, file, seen, got>>

\* Where the bytes go; an offset past the end of the cached size is refused.
WriteGet(c) ==
    /\ Calls(c, "write") /\ Exists
    /\ GetCas(c)
    /\ IF kv = Null THEN Goto(c, "direct")
       ELSE IF fd[c] THEN Goto(c, "pwrite")
       ELSE IF kv.size < Call(c).off THEN Return(c)
       ELSE Goto(c, IF NewSize(c, kv) < Limit THEN "wcas" ELSE "wopen")
    /\ UNCHANGED <<kv, dfs, mq, fd, commit, evict, file, seen, got>>

\* No entry: open and pwrite, and no more; fails if there is no file.
WriteDirect(c) ==
    /\ pc[c] = "direct"
    /\ IF dfs = NoFile
         THEN UNCHANGED <<dfs, file, seen>>
         ELSE dfs' = Overlay(dfs, Call(c).off, Call(c).buf) /\ Written(c)
    /\ Return(c)
    /\ UNCHANGED <<kv, token, mq, ent, fd, commit, evict, got>>

\* The new inline data: what was got, with the buffer copied into it.
NewData(c) == Serialised(Overlay(Bytes(ent[c]), Call(c).off, Call(c).buf))

\* Mutant of WriteCas: a set instead of a cas.
WriteCasBlind(c) ==
    /\ pc[c] = "wcas"
    /\ \E d \in NewData(c) : Store(Inline(d, ent[c].created))
    /\ Written(c)
    /\ Goto(c, "qwrite")
    /\ UNCHANGED <<dfs, mq, ent, fd, commit, evict, got>>

\* Mutant of WriteCas: the cas is tried again without another get.
WriteCasSpin(c) ==
    /\ pc[c] = "wcas"
    /\ IF c \in token
         THEN /\ \E d \in NewData(c) : Store(Inline(d, ent[c].created))
              /\ Written(c)
              /\ Goto(c, "qwrite")
         ELSE UNCHANGED <<kv, token, file, seen, pc, todo>>
    /\ UNCHANGED <<dfs, mq, ent, fd, commit, evict, got>>

\* The cas of an inline write; it is tried again from the get on if the
\* entry changed, and fails if the entry is gone.
WriteCas(c) ==
    /\ pc[c] = "wcas"
    /\ IF c \in token
         THEN /\ \E d \in NewData(c) : Store(Inline(d, ent[c].created))
              /\ Written(c)
              /\ Goto(c, "qwrite")
         ELSE /\ IF kv = Null THEN Return(c) ELSE Goto(c, "idle")
              /\ UNCHANGED <<kv, token, file, seen>>
    /\ UNCHANGED <<dfs, mq, ent, fd, commit, evict, got>>

\* Waits until the file is in the DFS.
WriteOpen(c) ==
    /\ pc[c] = "wopen" /\ dfs # NoFile
    /\ fd' = [fd EXCEPT ![c] = TRUE]
    /\ Goto(c, IF ent[c].inline THEN "winline" ELSE "pwrite")
    /\ UNCHANGED <<kv, token, dfs, mq, ent, commit, evict, file, seen, got>>

\* The inline data goes to the DFS first.
WriteInline(c) ==
    /\ pc[c] = "winline"
    /\ dfs' = Overlay(dfs, 0, Bytes(ent[c]))
    /\ Goto(c, "pwrite")
    /\ UNCHANGED <<kv, token, mq, ent, fd, commit, evict, file, seen, got>>

WriteDfs(c) ==
    /\ pc[c] = "pwrite"
    /\ dfs' = Overlay(dfs, Call(c).off, Call(c).buf)
    /\ Written(c)
    /\ Goto(c, "update")
    /\ UNCHANGED <<kv, token, mq, ent, fd, commit, evict, got>>

\* update: the new size and STAT_inline are set in new_st only, so that the
\* cas stores the metadata as it was, without the inline data.  After the
\* assignments to new_st its test for a retry is never true.
WriteUpdate(c) ==
    /\ pc[c] = "update"
    /\ IF c \in token THEN Store(Truncated(ent[c])) ELSE UNCHANGED <<kv, token>>
    /\ Return(c)
    /\ UNCHANGED <<dfs, mq, ent, fd, commit, evict, file, seen, got>>

-----------------------------------------------------------------------------
(* pacon_read_new.                                                         *)

Result(c, s) ==
    got' = [got EXCEPT ![c] = [off |-> Call(c).off, n |-> Call(c).n,
                               bytes |-> Slice(s, Call(c).off, Call(c).n)]]

\* Mutant of ReadGet: read overflow is not tested.
ReadGetOver(c) ==
    /\ Calls(c, "read") /\ Exists /\ ~fd[c] /\ kv # Null
    /\ seen' = [seen EXCEPT ![c] = {file}]
    /\ IF kv.inline
         THEN /\ got' = [got EXCEPT ![c] =
                    [off |-> Call(c).off, n |-> Call(c).n,
                     bytes |-> SubSeq(Bytes(kv) \o <<Junk, Junk, Junk>>,
                                      Call(c).off + 1, Call(c).off + Call(c).n)]]
              /\ Return(c)
         ELSE Goto(c, "rdfs") /\ UNCHANGED got
    /\ UNCHANGED <<kv, token, dfs, mq, ent, fd, commit, evict, file>>

\* Through the entry: fails if there is none, or if it is inline and the
\* range is not within it.
ReadGet(c) ==
    /\ Calls(c, "read") /\ Exists /\ ~fd[c]
    /\ GetCas(c)
    /\ seen' = [seen EXCEPT ![c] = {file}]
    /\ IF kv # Null /\ ~kv.inline
         THEN Goto(c, "rdfs") /\ UNCHANGED got
         ELSE /\ IF kv # Null /\ Call(c).off + Call(c).n <= kv.size
                   THEN Result(c, Bytes(kv))
                   ELSE got' = [got EXCEPT ![c] = Null]
              /\ Return(c)
    /\ UNCHANGED <<kv, dfs, mq, fd, commit, evict, file>>

\* open and pread; the file stays open.
ReadDfs(c) ==
    /\ pc[c] = "rdfs"
    /\ IF dfs = NoFile THEN got' = [got EXCEPT ![c] = Null] ELSE Result(c, dfs)
    /\ fd' = [fd EXCEPT ![c] = dfs # NoFile]
    /\ Return(c)
    /\ UNCHANGED <<kv, token, dfs, mq, ent, commit, evict, file, seen>>

ReadFd(c) ==
    /\ Calls(c, "read") /\ fd[c]
    /\ seen' = [seen EXCEPT ![c] = {file}]
    /\ Result(c, dfs)
    /\ Return(c)
    /\ UNCHANGED <<kv, token, dfs, mq, ent, fd, commit, evict, file>>

-----------------------------------------------------------------------------
(* commit_to_fs, and what else happens.                                    *)

NodeClients(n) == {c \in Clients : NodeOf[c] = n}
Receives(c, m) == commit[NodeOf[c]] = Null /\ mq[c] # <<>> /\ Head(mq[c]) = m
Received(c) == mq' = [mq EXCEPT ![c] = Tail(@)]

\* creat truncates a file that is there.
CommitCreate(c) ==
    /\ Receives(c, "CREATE") /\ Received(c)
    /\ dfs' = <<>>
    /\ UNCHANGED <<kv, token, todo, pc, ent, fd, commit, evict, file, seen, got>>

\* WRITE: dropped if the file is not there yet or the entry is not any more.
\* strcpy of data that is too long for the server's array writes past it,
\* which may kill the server now or when commit_to_fs returns.
Overflows(e) == Len(e.data) >= ServerMax

CommitWrite(c) ==
    /\ Receives(c, "WRITE") /\ Received(c)
    /\ \/ commit' = [commit EXCEPT ![NodeOf[c]] = IF dfs = NoFile THEN Null ELSE kv]
       \/ /\ dfs # NoFile /\ kv # Null /\ Overflows(kv)
          /\ commit' = [commit EXCEPT ![NodeOf[c]] = Dead]
    /\ UNCHANGED <<kv, token, dfs, todo, pc, ent, fd, evict, file, seen, got>>

\* ... pwrite of st.size bytes from the start.
CommitData(n) ==
    /\ commit[n] \notin {Null, Dead}
    /\ dfs' = Overlay(dfs, 0, Bytes(commit[n]))
    /\ \/ commit' = [commit EXCEPT ![n] = Null]
       \/ Overflows(commit[n]) /\ commit' = [commit EXCEPT ![n] = Dead]
    /\ UNCHANGED <<kv, token, mq, todo, pc, ent, fd, evict, file, seen, got>>

\* Nothing is left that a server will commit.
Committed ==
    /\ \A c \in Clients : mq[c] = <<>> \/ commit[NodeOf[c]] = Dead
    /\ \A n \in Nodes : commit[n] \in {Null, Dead}

\* evict_metadata_explicit, used as pacon.h recommends: everything queued is
\* committed and no client is within a call.
Evict ==
    /\ evict /\ kv # Null /\ Committed /\ \A c \in Clients : pc[c] = "idle"
    /\ Store(Null)
    /\ evict' = FALSE
    /\ UNCHANGED <<dfs, mq, todo, pc, ent, fd, commit, file, seen, got>>

-----------------------------------------------------------------------------
Client(c) ==
    \/ Create(c) \/ CreateWrite(c) \/ AddToMq(c)
    \/ OpenGet(c) \/ OpenStat(c) \/ OpenAdd(c) \/ OpenCas(c)
    \/ WriteGet(c) \/ WriteDirect(c) \/ WriteCas(c) \/ WriteOpen(c)
    \/ WriteInline(c) \/ WriteDfs(c) \/ WriteUpdate(c)
    \/ ReadGet(c) \/ ReadDfs(c) \/ ReadFd(c)

Commit(n) == CommitData(n) \/ \E c \in NodeClients(n) : CommitCreate(c) \/ CommitWrite(c)

Next == (\E c \in Clients : Client(c)) \/ (\E n \in Nodes : Commit(n)) \/ Evict

Spec == Init /\ [][Next]_vars

\* Clients and commit threads run; nobody has to evict.
Fairness ==
    /\ \A c \in Clients : WF_vars(Client(c))
    /\ \A n \in Nodes : WF_vars(Commit(n))

FairSpec == Spec /\ Fairness

-----------------------------------------------------------------------------
(* Properties.                                                             *)

EntryOK(e) ==
    e # Null => /\ Len(e.data) <= e.size
                /\ e.inline => e.size < Limit

\* Entries are well formed: an inline entry is below the limit, and no more
\* bytes are stored than the size says.
TypeOK ==
    /\ EntryOK(kv) /\ \A c \in Clients : EntryOK(ent[c])
    /\ \A n \in Nodes : commit[n] = Dead \/ EntryOK(commit[n])
    /\ token \in SUBSET Clients
    /\ fd \in [Clients -> BOOLEAN]
    /\ mq \in [Clients -> Seq({"CREATE", "WRITE"})]
    /\ evict \in BOOLEAN

Quiescent == Committed /\ \A c \in Clients : todo[c] = <<>>

\* A commit thread was killed by an inline file that is too long for its array.
Killed == Len(file) \in ServerMax .. Limit - 1 /\ \E n \in Nodes : commit[n] = Dead

\* Inline data is written back: when all calls have returned and everything
\* is committed, the DFS holds every write, none lost, torn or undone by an
\* older copy, however writes, the CREATE and the write-backs interleave; only
\* a file between the two limits may be lost, with the thread that commits it.
WrittenBack == Quiescent => dfs = file \/ Killed

\* Concurrent inline writes all take effect: the inline data is what the
\* writes make of it one after the other, with no byte of another version
\* and none that was never written.
CacheCurrent == kv # Null /\ kv.inline /\ Len(file) < Limit => Bytes(kv) = file

\* A read that succeeds returns the bytes of the file as it was at some time
\* during the call, through the entry as well as through the DFS.
ReadsCurrent ==
    \A c \in Clients : got[c] # Null =>
        \E s \in seen[c] : got[c].bytes = Slice(s, got[c].off, got[c].n)

\* Every call returns, in particular a large write that waits for the file
\* to be created in the DFS, and everything is committed.
CallsEnd == <>[]Quiescent
=============================================================================
