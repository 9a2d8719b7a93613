-------------------------- MODULE ServerLifecycle --------------------------
(***************************************************************************)
(* The tasks of a listening server and its shutdown: do_listen() and       *)
(* Driver in server/mod.rs, ServerHandle and EndFut in                     *)
(* server/serv_handle.rs.  A listen task accepts sockets and spawns a task *)
(* for each; that task finds out the protocol and spawns a task for each   *)
(* request.  Every task keeps a reference to the Driver, the Driver and    *)
(* the listen task each keep an EndFut, and the last EndFut to be dropped  *)
(* drops the sender whose loss confirms the shutdown.                      *)
(*                                                                         *)
(* Abstractions.  Each socket and each request of a behaviour is a member  *)
(* of a set and used once, which bounds the connections and the requests;  *)
(* data, TLS and the choice between HTTP/1.1 and HTTP/2 are left out.      *)
(* What the mpsc channel, the sockets and the clients do is external.      *)
(***************************************************************************)
EXTENDS Integers, FiniteSets

CONSTANTS
    Sockets,   \* the connections clients open
    Requests   \* the requests clients send

ASSUME FiniteAssumption == IsFiniteSet(Sockets) /\ IsFiniteSet(Requests)

VARIABLES
    handle,      \* ServerHandle: "held", "dropped", in shutdown(): "waiting", "confirmed"
    listener,    \* the listen task: "accepting", "asked", "retry" after an error, "closed"
    sock,        \* each socket, and the connection task it is handled by
    req,         \* each request, and the request task it is handled by
    of,          \* the socket of each request that was sent
    driverRefs,  \* strong count of Arc<Driver>
    endRefs      \* strong count of EndFut's Arc<Sender>

vars == <<handle, listener, sock, req, of, driverRefs, endRefs>>
refVars == <<driverRefs, endRefs>>
-----------------------------------------------------------------------------
(***************************************************************************)
(* A socket is in the kernel's backlog, then in a connection task: in the  *)
(* "hello" of connect() (the TLS handshake, the peek for the preface of    *)
(* HTTP/2 and its handshake), then in the loop of handle_incoming().       *)
(* Select polls accept() and, if that pends, the signal: "asked" is        *)
(* between the two polls, for a connection and for the listen task.        *)
(***************************************************************************)
SockState == {"unused", "backlog", "hello", "serving", "asked", "ended"}
InConnTask == {"hello", "serving", "asked"}

\* A request is sent, run by the router, and answered; then its task ends.
ReqState == {"unused", "sent", "running", "responding", "ended"}
InReqTask == {"running", "responding"}

Signalled == handle # "held"
Listening == listener # "closed"

ConnTasks == {s \in Sockets : sock[s] \in InConnTask}
ReqTasks == {r \in Requests : req[r] \in InReqTask}

\* A request that conn.accept() has at hand on socket s.
Ready(s) == \E r \in Requests : req[r] = "sent" /\ of[r] = s

TypeOK ==
    /\ handle \in {"held", "dropped", "waiting", "confirmed"}
    /\ listener \in {"accepting", "asked", "retry", "closed"}
    /\ sock \in [Sockets -> SockState]
    /\ req \in [Requests -> ReqState]
    /\ of \in [Requests -> Sockets]
    /\ driverRefs \in Nat
    /\ endRefs \in Nat

Init ==
    /\ handle = "held"
    /\ listener = "accepting"
    /\ sock = [s \in Sockets |-> "unused"]
    /\ req = [r \in Requests |-> "unused"]
    /\ of \in [Requests -> Sockets]
    /\ driverRefs = 1    \* the listen task's driver
    /\ endRefs = 2       \* the listen task's end and the Driver's
-----------------------------------------------------------------------------
\* The clones of Arc<Driver> that go with a new task, and their drop with it.
CloneDriver == driverRefs' = driverRefs + 1 /\ UNCHANGED endRefs

\* The last Arc<Driver> takes the Driver's EndFut with it.
DropDriver ==
    /\ driverRefs' = driverRefs - 1
    /\ endRefs' = IF driverRefs = 1 THEN endRefs - 1 ELSE endRefs

\* The listen task drops its driver and its own EndFut.
DropDriverAndEnd ==
    /\ driverRefs' = driverRefs - 1
    /\ endRefs' = IF driverRefs = 1 THEN endRefs - 2 ELSE endRefs - 1
-----------------------------------------------------------------------------
\* A client opens a connection; a closed port refuses it.
Dial(s) ==
    /\ Listening
    /\ sock[s] = "unused"
    /\ sock' = [sock EXCEPT ![s] = "backlog"]
    /\ UNCHANGED <<handle, listener, req, of, refVars>>

\* As if the spawned task had only borrowed the driver.
AcceptNoClone(s) ==
    /\ listener = "accepting"
    /\ sock[s] = "backlog"
    /\ sock' = [sock EXCEPT ![s] = "hello"]
    /\ UNCHANGED <<handle, listener, req, of, refVars>>

\* The race polls accept() first: a socket in the backlog wins over the signal.
\* The task spawned for it keeps the driver.
Accept(s) ==
    /\ listener = "accepting"
    /\ sock[s] = "backlog"
    /\ sock' = [sock EXCEPT ![s] = "hello"]
    /\ CloneDriver
    /\ UNCHANGED <<handle, listener, req, of>>

\* Too many open files, say: sleep and try again.
AcceptFails ==
    /\ listener = "accepting"
    /\ listener' = "retry"
    /\ UNCHANGED <<handle, sock, req, of, refVars>>

RetryAccept ==
    /\ listener = "retry"
    /\ listener' = "accepting"
    /\ UNCHANGED <<handle, sock, req, of, refVars>>

AcceptPends ==
    /\ listener = "accepting"
    /\ \A s \in Sockets : sock[s] # "backlog"
    /\ listener' = "asked"
    /\ UNCHANGED <<handle, sock, req, of, refVars>>

\* No signal either: the task sleeps until a socket or the signal wakes it.
ListenerSleeps ==
    /\ listener = "asked"
    /\ ~Signalled
    /\ listener' = "accepting"
    /\ UNCHANGED <<handle, sock, req, of, refVars>>

\* A socket that came since accept() was polled is refused with the port.
ListenerStops ==
    /\ listener = "asked"
    /\ Signalled
    /\ listener' = "closed"
    /\ DropDriverAndEnd
    /\ UNCHANGED <<handle, sock, req, of>>
-----------------------------------------------------------------------------
\* connect() awaits the client's first bytes; it is not raced with the signal.
HelloDone(s) ==
    /\ sock[s] = "hello"
    /\ sock' = [sock EXCEPT ![s] = "serving"]
    /\ UNCHANGED <<handle, listener, req, of, refVars>>

HelloFails(s) ==
    /\ sock[s] = "hello"
    /\ sock' = [sock EXCEPT ![s] = "ended"]
    /\ DropDriver
    /\ UNCHANGED <<handle, listener, req, of>>

\* A client sends a request.
SendRequest(s, r) ==
    /\ sock[s] \in InConnTask
    /\ req[r] = "unused"
    /\ req' = [req EXCEPT ![r] = "sent"]
    /\ of' = [of EXCEPT ![r] = s]
    /\ UNCHANGED <<handle, listener, sock, refVars>>

\* As if request tasks did not keep the driver.
AcceptRequestNoClone(r) ==
    /\ req[r] = "sent"
    /\ sock[of[r]] = "serving"
    /\ req' = [req EXCEPT ![r] = "running"]
    /\ UNCHANGED <<handle, listener, sock, of, refVars>>

\* conn.accept() has a request: it is run in a task of its own.
AcceptRequest(r) ==
    /\ req[r] = "sent"
    /\ sock[of[r]] = "serving"
    /\ req' = [req EXCEPT ![r] = "running"]
    /\ CloneDriver
    /\ UNCHANGED <<handle, listener, sock, of>>

\* The loop of handle_incoming() is over; requests it started run on.
EndServing(s) ==
    /\ sock' = [sock EXCEPT ![s] = "ended"]
    /\ DropDriver
    /\ UNCHANGED <<handle, listener, req, of>>

\* conn.accept() returns None or an error: the client went away.
ConnEnds(s) ==
    /\ sock[s] = "serving"
    /\ EndServing(s)

ConnPends(s) ==
    /\ sock[s] = "serving"
    /\ ~Ready(s)
    /\ sock' = [sock EXCEPT ![s] = "asked"]
    /\ UNCHANGED <<handle, listener, req, of, refVars>>

ConnSleeps(s) ==
    /\ sock[s] = "asked"
    /\ ~Signalled
    /\ sock' = [sock EXCEPT ![s] = "serving"]
    /\ UNCHANGED <<handle, listener, req, of, refVars>>

\* As if only a connection that had no request yet looked at the signal.
ConnStopsEarly(s) ==
    /\ sock[s] = "asked"
    /\ Signalled
    /\ \A r \in Requests : req[r] = "unused" \/ of[r] # s
    /\ EndServing(s)

\* The signal is seen when conn.accept() had no request at hand.
ConnStops(s) ==
    /\ sock[s] = "asked"
    /\ Signalled
    /\ EndServing(s)

\* The router's handler returned, be it with an error.
HandlerDone(r) ==
    /\ req[r] = "running"
    /\ req' = [req EXCEPT ![r] = "responding"]
    /\ UNCHANGED <<handle, listener, sock, of, refVars>>

\* send_response() returned, be it with an error: the task is over.
ResponseDone(r) ==
    /\ req[r] = "responding"
    /\ req' = [req EXCEPT ![r] = "ended"]
    /\ DropDriver
    /\ UNCHANGED <<handle, listener, sock, of>>

\* The handler panics and its task unwinds.
HandlerPanics(r) ==
    /\ req[r] = "running"
    /\ req' = [req EXCEPT ![r] = "ended"]
    /\ DropDriver
    /\ UNCHANGED <<handle, listener, sock, of>>
-----------------------------------------------------------------------------
\* shutdown() drops tx_shutdown, which is the signal, and awaits rx_confirm.
CallShutdown ==
    /\ handle = "held"
    /\ handle' = "waiting"
    /\ UNCHANGED <<listener, sock, req, of, refVars>>

\* A handle that is dropped signals all the same.
DropHandle ==
    /\ handle = "held"
    /\ handle' = "dropped"
    /\ UNCHANGED <<listener, sock, req, of, refVars>>

\* The last sender of the confirmation is gone: recv() returns.
Confirm ==
    /\ handle = "waiting"
    /\ endRefs = 0
    /\ handle' = "confirmed"
    /\ UNCHANGED <<listener, sock, req, of, refVars>>
-----------------------------------------------------------------------------
\* One poll of accept() that does not fail, one of conn.accept().
PollAccept == (\E s \in Sockets : Accept(s)) \/ AcceptPends
PollConn(s) == ConnPends(s) \/ \E r \in Requests : of[r] = s /\ AcceptRequest(r)

Next ==
    \/ PollAccept \/ AcceptFails \/ RetryAccept \/ ListenerSleeps \/ ListenerStops
    \/ \E s \in Sockets :
          \/ Dial(s) \/ HelloDone(s) \/ HelloFails(s)
          \/ PollConn(s) \/ ConnSleeps(s) \/ ConnStops(s) \/ ConnEnds(s)
          \/ \E r \in Requests : SendRequest(s, r)
    \/ \E r \in Requests : HandlerDone(r) \/ ResponseDone(r) \/ HandlerPanics(r)
    \/ CallShutdown \/ DropHandle \/ Confirm

(***************************************************************************)
(* The runtime polls every task that can go on and fires its timers.       *)
(* Nothing is assumed of clients, handlers or of accept() succeeding for   *)
(* good: its poll is strongly fair because errors are not for ever.        *)
(***************************************************************************)
Scheduling ==
    /\ SF_vars(PollAccept)
    /\ WF_vars(ListenerSleeps \/ ListenerStops)
    /\ WF_vars(RetryAccept)
    /\ \A s \in Sockets : WF_vars(PollConn(s)) /\ WF_vars(ConnSleeps(s) \/ ConnStops(s))
    /\ WF_vars(Confirm)

Spec == Init /\ [][Next]_vars /\ Scheduling
-----------------------------------------------------------------------------
(***************************************************************************)
(* Properties.                                                             *)
(***************************************************************************)
\* The counts are those of the holders: one Arc<Driver> for the listen task
\* and each task, one EndFut for the listen task and one for the Driver while
\* anyone holds it (serv_handle.rs:50-54, mod.rs:318-349, 625, 656).
RefCounts ==
    /\ driverRefs = Cardinality(ConnTasks) + Cardinality(ReqTasks)
                      + (IF Listening THEN 1 ELSE 0)
    /\ endRefs = (IF Listening THEN 1 ELSE 0) + (IF driverRefs > 0 THEN 1 ELSE 0)

\* When shutdown() returns, the port is closed and no task of the server runs,
\* neither of a connection nor of a request (serv_handle.rs:32-45).
ConfirmedIsQuiet ==
    handle = "confirmed" => ~Listening /\ ConnTasks = {} /\ ReqTasks = {}

\* What the server does is what Shutdown allows.
TaskIds == {<<"conn", s>> : s \in Sockets} \cup {<<"req", r>> : r \in Requests}
LiveTasks == {<<"conn", s>> : s \in ConnTasks} \cup {<<"req", r>> : r \in ReqTasks}

Promise == INSTANCE Shutdown WITH
    Tasks <- TaskIds, signalled <- Signalled, accepting <- Listening,
    tasks <- LiveTasks, confirmed <- handle = "confirmed"

KeepsPromise == Promise!Spec

\* Handlers return and responses are taken.
HandlersFinish ==
    \A r \in Requests : WF_vars(HandlerDone(r)) /\ WF_vars(ResponseDone(r))

\* Clients that connect say hello or go away.
ClientsSpeak == \A s \in Sockets : WF_vars(HelloDone(s) \/ HelloFails(s))

\* Given clients that speak, handlers that return and a finite number of
\* connections, shutdown() returns (serv_handle.rs:32-45).
ShutdownReturns ==
    HandlersFinish /\ ClientsSpeak => (handle = "waiting" ~> handle = "confirmed")

\* "Signal to the server to close down. Stop listening to the port and exit."
\* (serv_handle.rs:32), with no assumption on what clients do.
ShutdownExits == HandlersFinish => (handle = "waiting" ~> handle = "confirmed")
=============================================================================
