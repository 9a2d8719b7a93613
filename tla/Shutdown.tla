------------------------------ MODULE Shutdown ------------------------------
(***************************************************************************)
(* What a ServerHandle promises (server/serv_handle.rs): a signal makes    *)
(* the server stop accepting, and the confirmation comes only when the     *)
(* server is quiet, that is when the listener and every task it led to     *)
(* are over.                                                               *)
(***************************************************************************)
CONSTANT Tasks     \* connection tasks and request tasks

VARIABLES
    signalled,     \* the handle was given up
    accepting,     \* the listener runs
    tasks,         \* the tasks that run
    confirmed      \* shutdown() returned

vars == <<signalled, accepting, tasks, confirmed>>

TypeOK ==
    /\ signalled \in BOOLEAN /\ accepting \in BOOLEAN /\ confirmed \in BOOLEAN
    /\ tasks \in SUBSET Tasks

Quiet == ~accepting /\ tasks = {}

Init == signalled = FALSE /\ accepting = TRUE /\ tasks = {} /\ confirmed = FALSE

\* The listener starts a connection's task, that one starts requests' tasks.
Start(t) ==
    /\ ~Quiet
    /\ t \notin tasks
    /\ tasks' = tasks \cup {t}
    /\ UNCHANGED <<signalled, accepting, confirmed>>

End(t) ==
    /\ t \in tasks
    /\ tasks' = tasks \ {t}
    /\ UNCHANGED <<signalled, accepting, confirmed>>

Signal ==
    /\ ~signalled
    /\ signalled' = TRUE
    /\ UNCHANGED <<accepting, tasks, confirmed>>

StopAccepting ==
    /\ signalled /\ accepting
    /\ accepting' = FALSE
    /\ UNCHANGED <<signalled, tasks, confirmed>>

Confirm ==
    /\ signalled /\ Quiet /\ ~confirmed
    /\ confirmed' = TRUE
    /\ UNCHANGED <<signalled, accepting, tasks>>

Next == Signal \/ StopAccepting \/ Confirm \/ \E t \in Tasks : Start(t) \/ End(t)

Spec == Init /\ [][Next]_vars
=============================================================================
