------------------------------ MODULE Runtime ------------------------------
(***************************************************************************)
(* The process-wide runtime (async_impl.rs): the mutexes CURRENT_RUNTIME,  *)
(* RUNTIME and HANDLE, and the threads that spawn, block and switch the    *)
(* runtime.                                                                *)
(*                                                                         *)
(* A thread stops where it waits for a mutex; what it does between two     *)
(* waits is one action.  Locking a poisoned mutex panics (unwrap()), and a *)
(* panic poisons every mutex the thread holds.  The runtime that block_on()*)
(* drives runs the caller's future on the caller's thread, under the       *)
(* RUNTIME mutex: what the future does is done by that thread with the     *)
(* mutex held, and a panic of the future unwinds through it.               *)
(* connect_tcp(), timeout(), listen() and file_to_reader() take no mutex   *)
(* but that of current(), with which spawn() starts too, and are left to   *)
(* it.  Runtimes are numbers, a new one each time one is made; a tokio     *)
(* runtime of the program's own is number 0.  What becomes of the tasks of *)
(* a runtime that is shut down is left out.                                *)
(***************************************************************************)
EXTENDS Integers, FiniteSets

CONSTANTS
    Threads,      \* threads that call hreq
    InTokio,      \* those of them that run inside a tokio runtime of the program
    NoThread,     \* nobody
    MaxCalls,     \* bound: calls a thread makes
    MaxSwitches   \* bound: calls of make_default()

ASSUME ThreadsAssumption == NoThread \notin Threads /\ InTokio \subseteq Threads
ASSUME CallsAssumption == MaxCalls \in Nat /\ MaxSwitches \in Nat

VARIABLES
    owner,      \* who holds each mutex
    poisoned,   \* the poisoned mutexes
    current,    \* what CURRENT_RUNTIME says, "unset" before the first use
    runtime,    \* the runtime in RUNTIME, NoRuntime for None
    handle,     \* the runtime HANDLE points to, NoRuntime for None
    made,       \* the number of the last runtime that was made
    at,         \* where a thread is
    driving,    \* the threads inside block_on(): their future runs
    wanted,     \* the kind a thread in make_default() switches to
    calls,      \* calls a thread has made
    switches,   \* calls of make_default() so far
    nested,     \* history: somebody blocked on a future inside a tokio context
    crashed     \* history: threads on which a driven future panicked

mutexes == <<owner, poisoned>>
singletons == <<current, runtime, handle, made>>
counters == <<calls, switches, nested, crashed>>
runtimeVars == <<mutexes, singletons, at, driving, wanted, counters>>
-----------------------------------------------------------------------------
Mutex == {"CURRENT_RUNTIME", "RUNTIME", "HANDLE"}
NoRuntime == -1
Kind == {"TokioSingle", "TokioShared", "TokioOwned"}

(***************************************************************************)
(* "idle": between calls.  "askSpawn", "askBlock": current() comes first.  *)
(* "spawn", "block": and then the other mutex.  In make_default(),         *)
(* "switch" waits for CURRENT_RUNTIME, "take" and "drop" are the mutexes   *)
(* of unset_singletons(), "point" and "put" those of set_singletons().     *)
(* "dead": the thread panicked.                                            *)
(***************************************************************************)
Switching == {"switch", "take", "drop", "point", "put"}
Place == {"idle", "askSpawn", "askBlock", "spawn", "block", "dead"} \cup Switching

\* The mutex a thread at place waits for.
Wants(place) ==
    CASE place \in {"askSpawn", "askBlock", "switch"} -> "CURRENT_RUNTIME"
      [] place \in {"block", "take", "put"} -> "RUNTIME"
      [] place \in {"spawn", "drop", "point"} -> "HANDLE"
      [] OTHER -> "none"

\* lock() returns, and unwrap() finds no poison.
Locks(m) == owner[m] = NoThread /\ m \notin poisoned

Goes(t, place) == at' = [at EXCEPT ![t] = place]

\* Handle::try_current() is ok: a tokio context of the program, or of the
\* runtime of hreq that this thread drives.
InContext(t) == t \in InTokio \/ t \in driving

\* The thread unwinds and lets go of its mutexes, which poisons them and more.
Unwinds(t, more) ==
    /\ Goes(t, "dead")
    /\ owner' = [m \in Mutex |-> IF owner[m] = t THEN NoThread ELSE owner[m]]
    /\ poisoned' = poisoned \cup {m \in Mutex : owner[m] = t} \cup more
    /\ driving' = driving \ {t}
    /\ UNCHANGED <<singletons, wanted, calls, switches, nested>>

\* hreq, or tokio for it, panics.
Panics(t, more) == Unwinds(t, more) /\ UNCHANGED crashed

RuntimeInit ==
    /\ owner = [m \in Mutex |-> NoThread] /\ poisoned = {}
    /\ current = "unset" /\ runtime = NoRuntime /\ handle = NoRuntime /\ made = 0
    /\ at = [t \in Threads |-> "idle"]
    /\ driving = {}
    /\ wanted = [t \in Threads |-> "TokioSingle"]
    /\ calls = [t \in Threads |-> 0] /\ switches = 0 /\ nested = FALSE
    /\ crashed = {}
-----------------------------------------------------------------------------
\* A call starts, in the program or in the future that the thread drives.
Call(t, place) ==
    /\ at[t] = "idle"
    /\ calls[t] < MaxCalls
    /\ calls' = [calls EXCEPT ![t] = @ + 1]
    /\ Goes(t, place)
    /\ UNCHANGED <<mutexes, singletons, driving, crashed>>

Spawn(t) == Call(t, "askSpawn") /\ UNCHANGED <<wanted, switches, nested>>

Block(t) ==
    /\ Call(t, "askBlock")
    /\ nested' = (nested \/ InContext(t))
    /\ UNCHANGED <<wanted, switches>>

MakeDefault(t, kind) ==
    /\ switches < MaxSwitches
    /\ Call(t, "switch")
    /\ wanted' = [wanted EXCEPT ![t] = kind]
    /\ switches' = switches + 1
    /\ UNCHANGED nested

\* As if the initializer only looked for the program's runtime.
DetectHandleOnly(t) ==
    /\ current = "unset"
    /\ Wants(at[t]) = "CURRENT_RUNTIME"
    /\ current' = IF InContext(t) THEN "TokioShared" ELSE "TokioSingle"
    /\ handle' = 0
    /\ UNCHANGED <<mutexes, runtime, made, at, driving, wanted, counters>>

(***************************************************************************)
(* The first use of CURRENT_RUNTIME runs its initializer.  No thread gets  *)
(* to the other mutexes before that, so it is one action.                  *)
(***************************************************************************)
Detect(t) ==
    /\ current = "unset"
    /\ Wants(at[t]) = "CURRENT_RUNTIME"
    /\ IF InContext(t)
         THEN current' = "TokioShared" /\ handle' = 0 /\ UNCHANGED <<runtime, made>>
         ELSE /\ current' = "TokioSingle"
              /\ made' = made + 1 /\ handle' = made' /\ runtime' = made'
    /\ UNCHANGED <<mutexes, at, driving, wanted, counters>>

\* As if the guard of current() were kept for the call.
ReadsCurrentAndKeeps(t, place) ==
    /\ current # "unset"
    /\ Locks("CURRENT_RUNTIME")
    /\ owner' = [owner EXCEPT !["CURRENT_RUNTIME"] = t]
    /\ Goes(t, place)
    /\ UNCHANGED <<poisoned, singletons, driving, wanted, counters>>

\* current(): locks CURRENT_RUNTIME, copies it and lets go.
ReadsCurrent(t, place) ==
    /\ current # "unset"
    /\ Locks("CURRENT_RUNTIME")
    /\ Goes(t, place)
    /\ UNCHANGED <<mutexes, singletons, driving, wanted, counters>>

SpawnReads(t) == at[t] = "askSpawn" /\ ReadsCurrent(t, "spawn")

BlockReads(t) == at[t] = "askBlock" /\ ReadsCurrent(t, "block")

\* async_tokio::spawn(): the mutex is held while the task is handed over.
Spawned(t) ==
    /\ at[t] = "spawn"
    /\ Locks("HANDLE")
    /\ handle # NoRuntime
    /\ Goes(t, "idle")
    /\ UNCHANGED <<mutexes, singletons, driving, wanted, counters>>

\* async_tokio::block_on(): the mutex is held for as long as the future runs.
Drive(t) ==
    /\ at[t] = "block"
    /\ Locks("RUNTIME")
    /\ runtime # NoRuntime
    /\ t \notin InTokio
    /\ owner' = [owner EXCEPT !["RUNTIME"] = t]
    /\ driving' = driving \cup {t}
    /\ Goes(t, "idle")
    /\ UNCHANGED <<poisoned, singletons, wanted, counters>>

\* As if the mutex were not let go.
DrivenKeepsLock(t) ==
    /\ t \in driving
    /\ at[t] = "idle"
    /\ driving' = driving \ {t}
    /\ UNCHANGED <<mutexes, singletons, at, wanted, counters>>

\* The future is ready and block_on() returns.
Driven(t) ==
    /\ t \in driving
    /\ at[t] = "idle"
    /\ driving' = driving \ {t}
    /\ owner' = [owner EXCEPT !["RUNTIME"] = NoThread]
    /\ UNCHANGED <<poisoned, singletons, at, wanted, counters>>

\* The future panics: block_on() unwinds with the mutex held.
DrivenPanics(t) ==
    /\ t \in driving
    /\ at[t] = "idle"
    /\ Unwinds(t, {})
    /\ crashed' = crashed \cup {t}
-----------------------------------------------------------------------------
(***************************************************************************)
(* make_default(): CURRENT_RUNTIME is held to the end, the others only     *)
(* where they are used.  When the thread is inside a tokio context         *)
(* another thread runs unset_singletons() for it, and it waits.            *)
(***************************************************************************)
SwitchStarts(t) ==
    /\ at[t] = "switch"
    /\ current # "unset"
    /\ Locks("CURRENT_RUNTIME")
    /\ owner' = [owner EXCEPT !["CURRENT_RUNTIME"] = t]
    /\ Goes(t, "take")
    /\ UNCHANGED <<poisoned, singletons, driving, wanted, counters>>

TakesRuntime(t) ==
    /\ at[t] = "take"
    /\ Locks("RUNTIME")
    /\ runtime' = NoRuntime
    /\ Goes(t, "drop")
    /\ UNCHANGED <<mutexes, current, handle, made, driving, wanted, counters>>

DropsHandle(t) ==
    /\ at[t] = "drop"
    /\ Locks("HANDLE")
    /\ handle' = NoRuntime
    /\ Goes(t, "point")
    /\ UNCHANGED <<mutexes, current, runtime, made, driving, wanted, counters>>

\* The runtime is made, or the program's is found, and HANDLE points to it.
Points(t) ==
    /\ at[t] = "point"
    /\ Locks("HANDLE")
    /\ wanted[t] = "TokioShared" => InContext(t)
    /\ made' = IF wanted[t] = "TokioShared" THEN made ELSE made + 1
    /\ handle' = IF wanted[t] = "TokioShared" THEN 0 ELSE made'
    /\ owner' = [owner EXCEPT !["HANDLE"] = t]
    /\ Goes(t, "put")
    /\ UNCHANGED <<poisoned, current, runtime, driving, wanted, counters>>

\* As if a shared runtime left the runtime that was there.
PutsAlways(t) ==
    /\ at[t] = "put"
    /\ Locks("RUNTIME")
    /\ runtime' = handle
    /\ current' = wanted[t]
    /\ owner' = [owner EXCEPT !["HANDLE"] = NoThread, !["CURRENT_RUNTIME"] = NoThread]
    /\ Goes(t, "idle")
    /\ UNCHANGED <<poisoned, handle, made, driving, wanted, counters>>

\* RUNTIME is set, its mutex and HANDLE's are let go, then CURRENT_RUNTIME's.
Puts(t) ==
    /\ at[t] = "put"
    /\ Locks("RUNTIME")
    /\ runtime' = IF wanted[t] = "TokioShared" THEN NoRuntime ELSE handle
    /\ current' = wanted[t]
    /\ owner' = [owner EXCEPT !["HANDLE"] = NoThread, !["CURRENT_RUNTIME"] = NoThread]
    /\ Goes(t, "idle")
    /\ UNCHANGED <<poisoned, handle, made, driving, wanted, counters>>
-----------------------------------------------------------------------------
(***************************************************************************)
(* Panics: unwrap() of None in HANDLE; "Can't use .block() with a          *)
(* TokioShared runtime."; tokio, of a thread that it drives already;       *)
(* Handle::current() outside of tokio; a mutex that is poisoned already.   *)
(***************************************************************************)
SpawnPanics(t) ==
    at[t] = "spawn" /\ Locks("HANDLE") /\ handle = NoRuntime /\ Panics(t, {"HANDLE"})

BlockPanics(t) ==
    /\ at[t] = "block"
    /\ Locks("RUNTIME")
    /\ runtime = NoRuntime \/ t \in InTokio
    /\ Panics(t, {"RUNTIME"})

SharePanics(t) ==
    at[t] = "point" /\ wanted[t] = "TokioShared" /\ ~InContext(t) /\ Panics(t, {})

PoisonPanics(t) == Wants(at[t]) \in poisoned /\ Panics(t, {})

\* What a thread does by itself once it is in a call.
Proceeds(t) ==
    \/ Detect(t)
    \/ SpawnReads(t) \/ BlockReads(t)
    \/ Spawned(t)
    \/ Drive(t) \/ Driven(t)
    \/ SwitchStarts(t) \/ TakesRuntime(t) \/ DropsHandle(t) \/ Points(t) \/ Puts(t)
    \/ SpawnPanics(t) \/ BlockPanics(t) \/ SharePanics(t) \/ PoisonPanics(t)

RuntimeNext ==
    \E t \in Threads :
        \/ Spawn(t) \/ Block(t)
        \/ \E kind \in Kind : MakeDefault(t, kind)
        \/ Proceeds(t)
        \/ DrivenPanics(t)

\* Threads run, and the futures that are driven come to their ends.
RuntimeFairness == \A t \in Threads : WF_runtimeVars(Proceeds(t))

RuntimeSpec == RuntimeInit /\ [][RuntimeNext]_runtimeVars /\ RuntimeFairness
-----------------------------------------------------------------------------
\* Types, and each mutex is held by the thread whose place says so.
RuntimeTypeOK ==
    /\ owner \in [Mutex -> Threads \cup {NoThread}]
    /\ poisoned \in SUBSET Mutex
    /\ current \in Kind \cup {"unset"}
    /\ made \in Nat
    /\ runtime \in Nat \cup {NoRuntime} /\ handle \in Nat \cup {NoRuntime}
    /\ at \in [Threads -> Place]
    /\ driving \in SUBSET Threads
    /\ wanted \in [Threads -> Kind]
    /\ calls \in [Threads -> Nat] /\ switches \in Nat /\ nested \in BOOLEAN
    /\ crashed \in SUBSET Threads

\* Whenever CURRENT_RUNTIME can be read, the three say the same: a runtime to
\* block on is there unless the program's own is shared, and tasks go to that
\* runtime, whichever threads switched (async_impl.rs:149-156, 214-256).
SingletonsAgree ==
    current # "unset" /\ Locks("CURRENT_RUNTIME") =>
        IF current = "TokioShared" THEN runtime = NoRuntime /\ handle = 0
                                   ELSE runtime \in Nat /\ handle = runtime

\* As long as nobody switches, nor blocks inside a tokio context, and the runtime
\* is hreq's own, a call fails only after a future given to block() has panicked.
\* That one panic poisons RUNTIME and nothing else, so spawn() goes on working;
\* but nobody ever drives the runtime again (async_impl.rs:274-290).
FailuresHaveCause ==
    switches = 0 /\ ~nested /\ current # "TokioShared" =>
        /\ poisoned = IF crashed = {} THEN {} ELSE {"RUNTIME"}
        /\ crashed # {} => driving = {}
        /\ (\E t \in Threads : at[t] = "dead") => crashed # {}

\* Each thread of S waits for a mutex that a thread of S holds.
Deadlocked(S) ==
    S # {} /\ \A t \in S : Wants(at[t]) \in Mutex /\ owner[Wants(at[t])] \in S

\* Threads wait for each other in a circle only when one of them switches the
\* runtime, or blocks in a future it blocks on, and one of them is in block_on():
\* make_default() holds CURRENT_RUNTIME and waits for the RUNTIME that block_on()
\* holds (async_impl.rs:150-155, 223, 284).
DeadlockNeedsSwitch ==
    \A S \in SUBSET Threads : Deadlocked(S) =>
        /\ S \cap driving # {}
        /\ \E t \in S : at[t] \in Switching \/ (at[t] = "block" /\ t \in driving)

\* Without these, without a panic in a future, and with a runtime to block on,
\* block_on() returns when the futures do, for all the threads that block at
\* once: as calls are bounded, a moment comes when all have returned
\* (async_impl.rs:274-290).
BlockReturns ==
    [](switches = 0 /\ ~nested /\ current # "TokioShared" /\ crashed = {}) =>
        (\E t \in Threads : at[t] = "askBlock") ~>
            (driving = {} /\ \A t \in Threads : at[t] \notin {"askBlock", "block", "dead"})
=============================================================================
