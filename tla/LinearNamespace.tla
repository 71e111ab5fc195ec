-------------------------- MODULE LinearNamespace ---------------------------
(***************************************************************************)
(* What a consistent region promises: the strongly consistent namespace of *)
(* README.md.  There is one namespace, every call that changes it does so  *)
(* in one step between its begin and its end, and nothing else changes it: *)
(* not the commits, not loading, not looking up, not evicting.  It is      *)
(* about these effects only: calls have no results here.                   *)
(***************************************************************************)
CONSTANTS Clients, Paths, Root, Parent, Call, NoCall, InitNs

VARIABLES
    ns,    \* path -> "none", "dir" or "file"
    call,  \* per client: the call in progress
    took   \* per client: the call in progress has changed the namespace

vars == <<ns, call, took>>

Init ==
    /\ ns \in InitNs
    /\ call = [c \in Clients |-> NoCall]
    /\ took = [c \in Clients |-> FALSE]

Begin(c) ==
    /\ call[c] = NoCall
    /\ \E o \in Call : call' = [call EXCEPT ![c] = o]
    /\ UNCHANGED <<ns, took>>

\* After its effect a call may end at once or go on (to queue a message).
Took(c) ==
    \/ /\ took' = [took EXCEPT ![c] = TRUE]
       /\ UNCHANGED call
    \/ /\ call' = [call EXCEPT ![c] = NoCall]
       /\ UNCHANGED took

Make(c, t) ==
    LET p == call[c].path
    IN /\ ~took[c]
       /\ ns[p] = "none" /\ ns[Parent[p]] = "dir"
       /\ ns' = [ns EXCEPT ![p] = t]
       /\ Took(c)

Mkdir(c) == call[c].op = "mkdir" /\ Make(c, "dir")

Create(c) == call[c].op \in {"create", "create_write"} /\ Make(c, "file")

Remove(c) ==
    /\ call[c].op = "rm" /\ ~took[c]
    /\ ns[call[c].path] # "none"
    /\ ns' = [ns EXCEPT ![call[c].path] = "none"]
    /\ Took(c)

\* A call may end without effect: an error, or a call that only looks.
End(c) ==
    /\ call' = [call EXCEPT ![c] = NoCall]
    /\ took' = [took EXCEPT ![c] = FALSE]
    /\ UNCHANGED ns

Next == \E c \in Clients : Begin(c) \/ Mkdir(c) \/ Create(c) \/ Remove(c) \/ End(c)

Spec == Init /\ [][Next]_vars
=============================================================================
