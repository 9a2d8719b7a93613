----------------------- MODULE ServerLifecycleProofs -----------------------
(***************************************************************************)
(* Safety of ServerLifecycle for any finite sets of sockets and requests:  *)
(* the reference counts are exact, and with them a confirmed shutdown      *)
(* means that nothing runs.  The server then implements Shutdown.          *)
(***************************************************************************)
EXTENDS ServerLifecycle, FiniteSetTheorems, TLAPS

IInv == TypeOK /\ RefCounts /\ ConfirmedIsQuiet
-----------------------------------------------------------------------------
(***************************************************************************)
(* The tasks after a step of one connection or of one request.             *)
(***************************************************************************)
LEMMA TasksFinite ==
    ASSUME TypeOK
    PROVE  /\ IsFiniteSet(ConnTasks) /\ Cardinality(ConnTasks) \in Nat
           /\ IsFiniteSet(ReqTasks) /\ Cardinality(ReqTasks) \in Nat
<1>1. ConnTasks \in SUBSET Sockets /\ ReqTasks \in SUBSET Requests
  BY DEF ConnTasks, ReqTasks
<1>2. IsFiniteSet(ConnTasks) /\ IsFiniteSet(ReqTasks)
  BY <1>1, FiniteAssumption, FS_Subset
<1>3. QED
  BY <1>2, FS_CardinalityType

LEMMA ConnStep ==
    ASSUME TypeOK, NEW s \in Sockets, NEW st \in SockState,
           sock' = [sock EXCEPT ![s] = st]
    PROVE  /\ sock' \in [Sockets -> SockState]
           /\ st \in InConnTask =>
                 /\ ConnTasks' = ConnTasks \cup {s}
                 /\ Cardinality(ConnTasks') =
                       IF s \in ConnTasks THEN Cardinality(ConnTasks) ELSE Cardinality(ConnTasks)+1
           /\ st \notin InConnTask =>
                 /\ ConnTasks' = ConnTasks \ {s}
                 /\ Cardinality(ConnTasks') =
                       IF s \in ConnTasks THEN Cardinality(ConnTasks)-1 ELSE Cardinality(ConnTasks)
<1>1. sock \in [Sockets -> SockState]
  BY DEF TypeOK
<1>2. st \in InConnTask => ConnTasks' = ConnTasks \cup {s}
  BY <1>1 DEF ConnTasks
<1>3. st \notin InConnTask => ConnTasks' = ConnTasks \ {s}
  BY <1>1 DEF ConnTasks
<1>4. IsFiniteSet(ConnTasks) /\ Cardinality(ConnTasks) \in Nat
  BY TasksFinite
<1>5. Cardinality(ConnTasks \cup {s}) =
         IF s \in ConnTasks THEN Cardinality(ConnTasks) ELSE Cardinality(ConnTasks)+1
  BY <1>4, FS_AddElement, Zenon
<1>6. Cardinality(ConnTasks \ {s}) =
         IF s \in ConnTasks THEN Cardinality(ConnTasks)-1 ELSE Cardinality(ConnTasks)
  BY <1>4, FS_RemoveElement, Zenon
<1>7. QED
  BY <1>1, <1>2, <1>3, <1>5, <1>6

LEMMA ReqStep ==
    ASSUME TypeOK, NEW r \in Requests, NEW st \in ReqState,
           req' = [req EXCEPT ![r] = st]
    PROVE  /\ req' \in [Requests -> ReqState]
           /\ st \in InReqTask =>
                 /\ ReqTasks' = ReqTasks \cup {r}
                 /\ Cardinality(ReqTasks') =
                       IF r \in ReqTasks THEN Cardinality(ReqTasks) ELSE Cardinality(ReqTasks)+1
           /\ st \notin InReqTask =>
                 /\ ReqTasks' = ReqTasks \ {r}
                 /\ Cardinality(ReqTasks') =
                       IF r \in ReqTasks THEN Cardinality(ReqTasks)-1 ELSE Cardinality(ReqTasks)
<1>1. req \in [Requests -> ReqState]
  BY DEF TypeOK
<1>2. st \in InReqTask => ReqTasks' = ReqTasks \cup {r}
  BY <1>1 DEF ReqTasks
<1>3. st \notin InReqTask => ReqTasks' = ReqTasks \ {r}
  BY <1>1 DEF ReqTasks
<1>4. IsFiniteSet(ReqTasks) /\ Cardinality(ReqTasks) \in Nat
  BY TasksFinite
<1>5. Cardinality(ReqTasks \cup {r}) =
         IF r \in ReqTasks THEN Cardinality(ReqTasks) ELSE Cardinality(ReqTasks)+1
  BY <1>4, FS_AddElement, Zenon
<1>6. Cardinality(ReqTasks \ {r}) =
         IF r \in ReqTasks THEN Cardinality(ReqTasks)-1 ELSE Cardinality(ReqTasks)
  BY <1>4, FS_RemoveElement, Zenon
<1>7. QED
  BY <1>1, <1>2, <1>3, <1>5, <1>6

\* No sender of the confirmation is left: nothing runs, and the converse.
LEMMA QuietWhenNoEnd ==
    ASSUME TypeOK, RefCounts
    PROVE  endRefs = 0 <=> ~Listening /\ ConnTasks = {} /\ ReqTasks = {}
<1>1. /\ Cardinality(ConnTasks) \in Nat /\ Cardinality(ReqTasks) \in Nat
      /\ Cardinality(ConnTasks) = 0 <=> ConnTasks = {}
      /\ Cardinality(ReqTasks) = 0 <=> ReqTasks = {}
  BY TasksFinite, FS_EmptySet
<1>2. QED
  BY <1>1 DEF RefCounts, TypeOK

\* A confirmed server has no step left.
LEMMA ConfirmedIsFinal ==
    ASSUME IInv, Next
    PROVE  handle # "confirmed"
<1> SUFFICES ASSUME handle = "confirmed" PROVE FALSE
  OBVIOUS
<1>1. /\ ~Listening /\ \A s \in Sockets : sock[s] \notin InConnTask
      /\ \A r \in Requests : req[r] \notin InReqTask
  BY DEF IInv, ConfirmedIsQuiet, ConnTasks, ReqTasks
<1>2. listener = "closed" /\ Signalled /\ of \in [Requests -> Sockets]
  BY <1>1 DEF IInv, TypeOK, Listening, Signalled
<1>3. QED
  BY <1>1, <1>2 DEF Next, PollAccept, Accept, AcceptPends, AcceptFails, RetryAccept,
     ListenerSleeps, ListenerStops, Dial, HelloDone, HelloFails, PollConn, ConnPends,
     AcceptRequest, ConnSleeps, ConnStops, ConnEnds, SendRequest, HandlerDone,
     ResponseDone, HandlerPanics, CallShutdown, DropHandle, Confirm, InConnTask,
     InReqTask, Listening
-----------------------------------------------------------------------------
(***************************************************************************)
(* The invariant.                                                          *)
(***************************************************************************)
LEMMA InitInv == Init => IInv
<1> SUFFICES ASSUME Init PROVE IInv
  OBVIOUS
<1>1. ConnTasks = {} /\ ReqTasks = {}
  BY DEF Init, ConnTasks, ReqTasks, InConnTask, InReqTask
<1>2. TypeOK
  BY DEF Init, TypeOK, SockState, ReqState
<1>3. RefCounts
  BY <1>1, FS_EmptySet DEF Init, RefCounts, Listening
<1>4. QED
  BY <1>2, <1>3 DEF Init, IInv, ConfirmedIsQuiet

\* What the steps of the listen task and of the handle leave alone.
LEMMA HandleStep ==
    ASSUME IInv,
           AcceptPends \/ AcceptFails \/ RetryAccept \/ ListenerSleeps
           \/ CallShutdown \/ DropHandle \/ Confirm
    PROVE  IInv'
<1>1. UNCHANGED <<sock, req, of, driverRefs, endRefs>> /\ Listening' = Listening
  BY DEF AcceptPends, AcceptFails, RetryAccept, ListenerSleeps, CallShutdown, DropHandle,
         Confirm, refVars, Listening
<1>2. TypeOK'
  BY <1>1 DEF IInv, TypeOK, AcceptPends, AcceptFails, RetryAccept, ListenerSleeps,
              CallShutdown, DropHandle, Confirm
<1>3. RefCounts' /\ ConnTasks' = ConnTasks /\ ReqTasks' = ReqTasks
  BY <1>1 DEF IInv, RefCounts, ConnTasks, ReqTasks
<1>4. ConfirmedIsQuiet'
  BY <1>1, <1>3, QuietWhenNoEnd
     DEF IInv, ConfirmedIsQuiet, AcceptPends, AcceptFails, RetryAccept, ListenerSleeps,
         CallShutdown, DropHandle, Confirm
<1>5. QED
  BY <1>2, <1>3, <1>4 DEF IInv

LEMMA ListenerStopsStep == IInv /\ ListenerStops => IInv'
<1> SUFFICES ASSUME IInv, ListenerStops PROVE IInv'
  OBVIOUS
<1>1. ConnTasks' = ConnTasks /\ ReqTasks' = ReqTasks /\ handle' = handle
  BY DEF ListenerStops, ConnTasks, ReqTasks
<1>2. Cardinality(ConnTasks) \in Nat /\ Cardinality(ReqTasks) \in Nat
  BY TasksFinite DEF IInv
<1>3. /\ Listening /\ ~Listening'
      /\ driverRefs = Cardinality(ConnTasks) + Cardinality(ReqTasks) + 1
      /\ driverRefs >= 1 /\ driverRefs \in Nat /\ endRefs = 2
  BY <1>2 DEF IInv, RefCounts, ListenerStops, Listening
<1>4. /\ driverRefs' = driverRefs - 1
      /\ endRefs' = IF driverRefs = 1 THEN 0 ELSE 1
  BY <1>3 DEF ListenerStops, DropDriverAndEnd
<1>5. driverRefs' \in Nat /\ endRefs' \in Nat
  BY <1>3, <1>4
<1>6. TypeOK'
  BY <1>5 DEF IInv, TypeOK, ListenerStops
<1>7. RefCounts'
  <2>1. driverRefs' = Cardinality(ConnTasks)' + Cardinality(ReqTasks)'
    BY <1>1, <1>2, <1>3, <1>4
  <2>2. endRefs' = IF driverRefs' > 0 THEN 1 ELSE 0
    BY <1>3, <1>4
  <2>3. QED
    BY <1>1, <1>2, <1>3, <1>5, <2>1, <2>2 DEF RefCounts
<1>8. ConfirmedIsQuiet'
  BY <1>1, <1>3 DEF IInv, ConfirmedIsQuiet
<1>9. QED
  BY <1>6, <1>7, <1>8 DEF IInv
-----------------------------------------------------------------------------
(***************************************************************************)
(* The counts after a step that starts a task, ends one, or does neither.  *)
(***************************************************************************)
LEMMA CountStart ==
    ASSUME IInv, CloneDriver, UNCHANGED listener,
           Listening \/ ConnTasks # {},
           Cardinality(ConnTasks') + Cardinality(ReqTasks')
             = Cardinality(ConnTasks) + Cardinality(ReqTasks) + 1
    PROVE  RefCounts' /\ driverRefs' \in Nat /\ endRefs' \in Nat
<1>1. /\ Cardinality(ConnTasks) \in Nat /\ Cardinality(ReqTasks) \in Nat
      /\ Cardinality(ConnTasks) = 0 <=> ConnTasks = {}
  BY TasksFinite, FS_EmptySet DEF IInv
<1>2. Listening' = Listening /\ driverRefs' = driverRefs + 1 /\ endRefs' = endRefs
  BY DEF Listening, CloneDriver
<1>3. /\ driverRefs = Cardinality(ConnTasks) + Cardinality(ReqTasks)
                        + (IF Listening THEN 1 ELSE 0)
      /\ driverRefs \in Nat /\ driverRefs > 0 /\ endRefs \in Nat
      /\ endRefs = (IF Listening THEN 1 ELSE 0) + 1
  BY <1>1 DEF IInv, RefCounts, TypeOK
<1>4. driverRefs' = Cardinality(ConnTasks)' + Cardinality(ReqTasks)'
                      + (IF Listening' THEN 1 ELSE 0)
  BY <1>1, <1>2, <1>3
<1>5. driverRefs' > 0 /\ driverRefs' \in Nat /\ endRefs' \in Nat
  BY <1>2, <1>3
<1>6. QED
  BY <1>2, <1>3, <1>4, <1>5 DEF RefCounts

LEMMA CountEnd ==
    ASSUME IInv, DropDriver, UNCHANGED listener,
           Cardinality(ConnTasks') \in Nat, Cardinality(ReqTasks') \in Nat,
           Cardinality(ConnTasks') + Cardinality(ReqTasks')
             = Cardinality(ConnTasks) + Cardinality(ReqTasks) - 1
    PROVE  RefCounts' /\ driverRefs' \in Nat /\ endRefs' \in Nat
<1>1. Cardinality(ConnTasks) \in Nat /\ Cardinality(ReqTasks) \in Nat
  BY TasksFinite DEF IInv
<1>2. /\ Listening' = Listening /\ driverRefs' = driverRefs - 1
      /\ endRefs' = IF driverRefs = 1 THEN endRefs - 1 ELSE endRefs
  BY DEF Listening, DropDriver
<1>3. /\ driverRefs = Cardinality(ConnTasks) + Cardinality(ReqTasks)
                        + (IF Listening THEN 1 ELSE 0)
      /\ driverRefs \in Nat /\ endRefs \in Nat
      /\ endRefs = (IF Listening THEN 1 ELSE 0) + (IF driverRefs > 0 THEN 1 ELSE 0)
  BY DEF IInv, RefCounts, TypeOK
<1>4. driverRefs > 0
  BY <1>1, <1>3
<1>5. driverRefs' = Cardinality(ConnTasks)' + Cardinality(ReqTasks)'
                      + (IF Listening' THEN 1 ELSE 0)
  BY <1>1, <1>2, <1>3
<1>6. endRefs' = (IF Listening' THEN 1 ELSE 0) + (IF driverRefs' > 0 THEN 1 ELSE 0)
  BY <1>2, <1>3, <1>4
<1>7. driverRefs' \in Nat /\ endRefs' \in Nat
  BY <1>2, <1>3, <1>4
<1>8. QED
  BY <1>5, <1>6, <1>7 DEF RefCounts

LEMMA CountSame ==
    ASSUME IInv, UNCHANGED <<listener, driverRefs, endRefs>>,
           ConnTasks' = ConnTasks, ReqTasks' = ReqTasks
    PROVE  RefCounts' /\ driverRefs' \in Nat /\ endRefs' \in Nat
BY DEF IInv, TypeOK, RefCounts, Listening

\* A connection or request step of a server that is not confirmed yet.
LEMMA NotConfirmed ==
    ASSUME IInv, Next, UNCHANGED handle
    PROVE  ConfirmedIsQuiet'
BY ConfirmedIsFinal DEF ConfirmedIsQuiet
-----------------------------------------------------------------------------
(***************************************************************************)
(* The steps of a connection.                                              *)
(***************************************************************************)
LEMMA SockStays ==
    ASSUME IInv, Next, NEW s \in Sockets,
           Dial(s) \/ HelloDone(s) \/ ConnPends(s) \/ ConnSleeps(s)
    PROVE  IInv'
<1>1. PICK st \in SockState :
         /\ sock' = [sock EXCEPT ![s] = st]
         /\ st \in InConnTask <=> s \in ConnTasks
  BY DEF Dial, HelloDone, ConnPends, ConnSleeps, SockState, ConnTasks, InConnTask
<1>2. UNCHANGED <<handle, listener, req, of, driverRefs, endRefs>>
  BY DEF Dial, HelloDone, ConnPends, ConnSleeps, refVars
<1>3. sock' \in [Sockets -> SockState] /\ ConnTasks' = ConnTasks
  BY <1>1, ConnStep DEF IInv
<1>4. ReqTasks' = ReqTasks
  BY <1>2 DEF ReqTasks
<1>5. RefCounts'
  BY <1>2, <1>3, <1>4, CountSame
<1>6. TypeOK'
  BY <1>2, <1>3 DEF IInv, TypeOK
<1>7. QED
  BY <1>2, <1>5, <1>6, NotConfirmed DEF IInv

LEMMA AcceptStep ==
    ASSUME IInv, Next, NEW s \in Sockets, Accept(s)
    PROVE  IInv'
<1>1. /\ sock' = [sock EXCEPT ![s] = "hello"] /\ s \notin ConnTasks
      /\ Listening /\ UNCHANGED <<handle, listener, req, of>>
  BY DEF Accept, ConnTasks, InConnTask, Listening
<1>2. "hello" \in SockState /\ "hello" \in InConnTask
  BY DEF SockState, InConnTask
<1>3. sock' \in [Sockets -> SockState] /\ Cardinality(ConnTasks') = Cardinality(ConnTasks) + 1
  BY <1>1, <1>2, ConnStep DEF IInv
<1>4. ReqTasks' = ReqTasks
  BY <1>1 DEF ReqTasks
<1>5. Cardinality(ConnTasks) \in Nat /\ Cardinality(ReqTasks) \in Nat
  BY TasksFinite DEF IInv
<1>6. RefCounts' /\ driverRefs' \in Nat /\ endRefs' \in Nat
  BY <1>1, <1>3, <1>4, <1>5, CountStart DEF Accept
<1>7. TypeOK'
  BY <1>1, <1>3, <1>6 DEF IInv, TypeOK
<1>8. QED
  BY <1>1, <1>6, <1>7, NotConfirmed DEF IInv

LEMMA SockEnds ==
    ASSUME IInv, Next, NEW s \in Sockets, HelloFails(s) \/ ConnStops(s) \/ ConnEnds(s)
    PROVE  IInv'
<1>1. /\ sock' = [sock EXCEPT ![s] = "ended"] /\ s \in ConnTasks /\ DropDriver
      /\ UNCHANGED <<handle, listener, req, of>>
  BY DEF HelloFails, ConnStops, ConnEnds, EndServing, ConnTasks, InConnTask
<1>2. "ended" \in SockState /\ "ended" \notin InConnTask
  BY DEF SockState, InConnTask
<1>3. /\ sock' \in [Sockets -> SockState]
      /\ ConnTasks' = ConnTasks \ {s}
      /\ Cardinality(ConnTasks') = Cardinality(ConnTasks) - 1
  BY <1>1, <1>2, ConnStep DEF IInv
<1>4. ReqTasks' = ReqTasks
  BY <1>1 DEF ReqTasks
<1>5. /\ IsFiniteSet(ConnTasks) /\ Cardinality(ConnTasks) \in Nat
      /\ Cardinality(ReqTasks) \in Nat
  BY TasksFinite DEF IInv
<1>6. Cardinality(ConnTasks') \in Nat
  BY <1>3, <1>5, FS_RemoveElement, FS_CardinalityType
<1>7. RefCounts' /\ driverRefs' \in Nat /\ endRefs' \in Nat
  BY <1>1, <1>3, <1>4, <1>5, <1>6, CountEnd
<1>8. TypeOK'
  BY <1>1, <1>3, <1>7 DEF IInv, TypeOK
<1>9. QED
  BY <1>1, <1>7, <1>8, NotConfirmed DEF IInv
-----------------------------------------------------------------------------
(***************************************************************************)
(* The steps of a request.                                                 *)
(***************************************************************************)
LEMMA ReqStays ==
    ASSUME IInv, Next, NEW r \in Requests,
           HandlerDone(r) \/ \E s \in Sockets : SendRequest(s, r)
    PROVE  IInv'
<1>1. PICK st \in ReqState :
         /\ req' = [req EXCEPT ![r] = st]
         /\ st \in InReqTask <=> r \in ReqTasks
  BY DEF HandlerDone, SendRequest, ReqState, ReqTasks, InReqTask
<1>2. UNCHANGED <<handle, listener, sock, driverRefs, endRefs>> /\ of' \in [Requests -> Sockets]
  BY DEF HandlerDone, SendRequest, refVars, IInv, TypeOK
<1>3. req' \in [Requests -> ReqState] /\ ReqTasks' = ReqTasks
  BY <1>1, ReqStep DEF IInv
<1>4. ConnTasks' = ConnTasks
  BY <1>2 DEF ConnTasks
<1>5. RefCounts'
  BY <1>2, <1>3, <1>4, CountSame
<1>6. TypeOK'
  BY <1>2, <1>3 DEF IInv, TypeOK
<1>7. QED
  BY <1>2, <1>5, <1>6, NotConfirmed DEF IInv

LEMMA AcceptRequestStep ==
    ASSUME IInv, Next, NEW r \in Requests, AcceptRequest(r)
    PROVE  IInv'
<1>1. /\ req' = [req EXCEPT ![r] = "running"] /\ r \notin ReqTasks
      /\ of[r] \in ConnTasks /\ UNCHANGED <<handle, listener, sock, of>>
  BY DEF AcceptRequest, ReqTasks, InReqTask, ConnTasks, InConnTask, IInv, TypeOK
<1>2. "running" \in ReqState /\ "running" \in InReqTask
  BY DEF ReqState, InReqTask
<1>3. req' \in [Requests -> ReqState] /\ Cardinality(ReqTasks') = Cardinality(ReqTasks) + 1
  BY <1>1, <1>2, ReqStep DEF IInv
<1>4. ConnTasks' = ConnTasks
  BY <1>1 DEF ConnTasks
<1>5. Cardinality(ConnTasks) \in Nat /\ Cardinality(ReqTasks) \in Nat
  BY TasksFinite DEF IInv
<1>6. RefCounts' /\ driverRefs' \in Nat /\ endRefs' \in Nat
  BY <1>1, <1>3, <1>4, <1>5, CountStart DEF AcceptRequest
<1>7. TypeOK'
  BY <1>1, <1>3, <1>6 DEF IInv, TypeOK
<1>8. QED
  BY <1>1, <1>6, <1>7, NotConfirmed DEF IInv

LEMMA ReqEnds ==
    ASSUME IInv, Next, NEW r \in Requests, ResponseDone(r) \/ HandlerPanics(r)
    PROVE  IInv'
<1>1. /\ req' = [req EXCEPT ![r] = "ended"] /\ r \in ReqTasks /\ DropDriver
      /\ UNCHANGED <<handle, listener, sock, of>>
  BY DEF ResponseDone, HandlerPanics, ReqTasks, InReqTask
<1>2. "ended" \in ReqState /\ "ended" \notin InReqTask
  BY DEF ReqState, InReqTask
<1>3. /\ req' \in [Requests -> ReqState]
      /\ ReqTasks' = ReqTasks \ {r}
      /\ Cardinality(ReqTasks') = Cardinality(ReqTasks) - 1
  BY <1>1, <1>2, ReqStep DEF IInv
<1>4. ConnTasks' = ConnTasks
  BY <1>1 DEF ConnTasks
<1>5. /\ IsFiniteSet(ReqTasks) /\ Cardinality(ReqTasks) \in Nat
      /\ Cardinality(ConnTasks) \in Nat
  BY TasksFinite DEF IInv
<1>6. Cardinality(ReqTasks') \in Nat
  BY <1>3, <1>5, FS_RemoveElement, FS_CardinalityType
<1>7. RefCounts' /\ driverRefs' \in Nat /\ endRefs' \in Nat
  BY <1>1, <1>3, <1>4, <1>5, <1>6, CountEnd
<1>8. TypeOK'
  BY <1>1, <1>3, <1>7 DEF IInv, TypeOK
<1>9. QED
  BY <1>1, <1>7, <1>8, NotConfirmed DEF IInv
-----------------------------------------------------------------------------
LEMMA NextInv == IInv /\ [Next]_vars => IInv'
<1> SUFFICES ASSUME IInv, [Next]_vars PROVE IInv'
  OBVIOUS
<1>1. CASE UNCHANGED vars
  BY <1>1 DEF vars, IInv, TypeOK, RefCounts, ConfirmedIsQuiet, Listening, ConnTasks, ReqTasks
<1>2. CASE Next
  <2>1. CASE PollAccept
    BY <1>2, <2>1, HandleStep, AcceptStep DEF PollAccept
  <2>2. CASE AcceptFails \/ RetryAccept \/ ListenerSleeps \/ CallShutdown \/ DropHandle \/ Confirm
    BY <2>2, HandleStep
  <2>3. CASE ListenerStops
    BY <2>3, ListenerStopsStep
  <2>4. ASSUME NEW s \in Sockets,
               Dial(s) \/ HelloDone(s) \/ HelloFails(s) \/ PollConn(s) \/ ConnSleeps(s)
               \/ ConnStops(s) \/ ConnEnds(s) \/ \E r \in Requests : SendRequest(s, r)
        PROVE  IInv'
    BY <1>2, <2>4, SockStays, SockEnds, ReqStays, AcceptRequestStep DEF PollConn
  <2>5. ASSUME NEW r \in Requests, HandlerDone(r) \/ ResponseDone(r) \/ HandlerPanics(r)
        PROVE  IInv'
    BY <1>2, <2>5, ReqStays, ReqEnds
  <2>6. QED
    BY <1>2, <2>1, <2>2, <2>3, <2>4, <2>5 DEF Next
<1>3. QED
  BY <1>1, <1>2

LEMMA Invariant == Spec => []IInv
BY InitInv, NextInv, PTL DEF Spec

\* The counts of references stay natural numbers, every task its state.
THEOREM TypeCorrect == Spec => []TypeOK
<1>1. IInv => TypeOK
  BY DEF IInv
<1>2. QED
  BY <1>1, Invariant, PTL

\* Every task and the listener hold one driver, the rest hold none.
THEOREM CountsAreExact == Spec => []RefCounts
<1>1. IInv => RefCounts
  BY DEF IInv
<1>2. QED
  BY <1>1, Invariant, PTL

\* shutdown() returns only when the port is closed and no task runs.
THEOREM ConfirmedMeansQuiet == Spec => []ConfirmedIsQuiet
<1>1. IInv => ConfirmedIsQuiet
  BY DEF IInv
<1>2. QED
  BY <1>1, Invariant, PTL
-----------------------------------------------------------------------------
(***************************************************************************)
(* The server implements Shutdown.                                         *)
(***************************************************************************)
LEMMA InitMaps == Init => Promise!Init
BY DEF Init, Promise!Init, Signalled, Listening, LiveTasks, ConnTasks, ReqTasks,
       InConnTask, InReqTask

\* Shutdown is not quiet while the server has a listener or a connection.
LEMMA NotQuiet == Listening \/ ConnTasks # {} => ~Promise!Quiet
BY DEF Promise!Quiet, LiveTasks

\* A step that leaves every task, the listener and the signal as they are.
LEMMA StutterMaps ==
    ASSUME UNCHANGED <<handle, Listening, ConnTasks, ReqTasks>>
    PROVE  UNCHANGED Promise!vars
BY DEF Promise!vars, Signalled, LiveTasks

LEMMA SockMaps ==
    ASSUME IInv, NEW s \in Sockets, NEW st \in SockState,
           sock' = [sock EXCEPT ![s] = st],
           UNCHANGED <<handle, listener, req>>,
           st \in InConnTask /\ s \notin ConnTasks => Listening
    PROVE  [Promise!Next]_(Promise!vars)
<1> DEFINE t == <<"conn", s>>
<1>1. ReqTasks' = ReqTasks /\ Listening' = Listening /\ Signalled' = Signalled
  BY DEF ReqTasks, Listening, Signalled
<1>2. t \in TaskIds /\ (t \in LiveTasks <=> s \in ConnTasks)
  BY DEF TaskIds, LiveTasks
<1>3. CASE st \in InConnTask /\ s \notin ConnTasks
  <2>1. ConnTasks' = ConnTasks \cup {s}
    BY <1>3, ConnStep DEF IInv
  <2>2. LiveTasks' = LiveTasks \cup {t}
    BY <1>1, <2>1 DEF LiveTasks
  <2>3. Promise!Start(t)
    BY <1>1, <1>2, <1>3, <2>2, NotQuiet DEF Promise!Start
  <2>4. QED
    BY <1>2, <2>3 DEF Promise!Next
<1>4. CASE st \notin InConnTask /\ s \in ConnTasks
  <2>1. ConnTasks' = ConnTasks \ {s}
    BY <1>4, ConnStep DEF IInv
  <2>2. LiveTasks' = LiveTasks \ {t}
    BY <1>1, <2>1 DEF LiveTasks
  <2>3. Promise!End(t)
    BY <1>1, <1>2, <1>4, <2>2 DEF Promise!End
  <2>4. QED
    BY <1>2, <2>3 DEF Promise!Next
<1>5. CASE st \in InConnTask <=> s \in ConnTasks
  <2>1. ConnTasks' = ConnTasks
    <3>1. CASE st \in InConnTask
      BY <1>5, <3>1, ConnStep DEF IInv
    <3>2. CASE st \notin InConnTask
      BY <1>5, <3>2, ConnStep DEF IInv
    <3>3. QED
      BY <3>1, <3>2
  <2>2. QED
    BY <1>1, <2>1, StutterMaps
<1>6. QED
  BY <1>3, <1>4, <1>5

LEMMA ReqMaps ==
    ASSUME IInv, NEW r \in Requests, NEW st \in ReqState,
           req' = [req EXCEPT ![r] = st],
           UNCHANGED <<handle, listener, sock>>,
           st \in InReqTask /\ r \notin ReqTasks => ConnTasks # {}
    PROVE  [Promise!Next]_(Promise!vars)
<1> DEFINE t == <<"req", r>>
<1>1. ConnTasks' = ConnTasks /\ Listening' = Listening /\ Signalled' = Signalled
  BY DEF ConnTasks, Listening, Signalled
<1>2. t \in TaskIds /\ (t \in LiveTasks <=> r \in ReqTasks)
  BY DEF TaskIds, LiveTasks
<1>3. CASE st \in InReqTask /\ r \notin ReqTasks
  <2>1. ReqTasks' = ReqTasks \cup {r}
    BY <1>3, ReqStep DEF IInv
  <2>2. LiveTasks' = LiveTasks \cup {t}
    BY <1>1, <2>1 DEF LiveTasks
  <2>3. Promise!Start(t)
    BY <1>1, <1>2, <1>3, <2>2, NotQuiet DEF Promise!Start
  <2>4. QED
    BY <1>2, <2>3 DEF Promise!Next
<1>4. CASE st \notin InReqTask /\ r \in ReqTasks
  <2>1. ReqTasks' = ReqTasks \ {r}
    BY <1>4, ReqStep DEF IInv
  <2>2. LiveTasks' = LiveTasks \ {t}
    BY <1>1, <2>1 DEF LiveTasks
  <2>3. Promise!End(t)
    BY <1>1, <1>2, <1>4, <2>2 DEF Promise!End
  <2>4. QED
    BY <1>2, <2>3 DEF Promise!Next
<1>5. CASE st \in InReqTask <=> r \in ReqTasks
  <2>1. ReqTasks' = ReqTasks
    <3>1. CASE st \in InReqTask
      BY <1>5, <3>1, ReqStep DEF IInv
    <3>2. CASE st \notin InReqTask
      BY <1>5, <3>2, ReqStep DEF IInv
    <3>3. QED
      BY <3>1, <3>2
  <2>2. QED
    BY <1>1, <2>1, StutterMaps
<1>6. QED
  BY <1>3, <1>4, <1>5

\* The steps of the listen task and of the handle.
LEMMA HandleMaps ==
    ASSUME IInv,
           AcceptPends \/ AcceptFails \/ RetryAccept \/ ListenerSleeps \/ ListenerStops
           \/ CallShutdown \/ DropHandle \/ Confirm
    PROVE  [Promise!Next]_(Promise!vars)
<1>1. LiveTasks' = LiveTasks /\ ConnTasks' = ConnTasks /\ ReqTasks' = ReqTasks
  BY DEF AcceptPends, AcceptFails, RetryAccept, ListenerSleeps, ListenerStops, CallShutdown,
         DropHandle, Confirm, LiveTasks, ConnTasks, ReqTasks
<1>2. CASE AcceptPends \/ AcceptFails \/ RetryAccept \/ ListenerSleeps
  <2>1. handle' = handle /\ Listening' = Listening
    BY <1>2 DEF AcceptPends, AcceptFails, RetryAccept, ListenerSleeps, Listening
  <2>2. QED
    BY <1>1, <2>1, StutterMaps
<1>3. CASE ListenerStops
  <2>1. Signalled /\ Listening /\ ~Listening' /\ handle' = handle /\ Signalled' = Signalled
    BY <1>3 DEF ListenerStops, Listening, Signalled
  <2>2. Promise!StopAccepting
    BY <1>1, <2>1 DEF Promise!StopAccepting
  <2>3. QED
    BY <2>2 DEF Promise!Next
<1>4. CASE CallShutdown \/ DropHandle
  <2>1. /\ ~Signalled /\ Signalled' /\ Listening' = Listening
        /\ handle # "confirmed" /\ handle' # "confirmed"
    BY <1>4 DEF CallShutdown, DropHandle, Signalled, Listening
  <2>2. Promise!Signal
    BY <1>1, <2>1 DEF Promise!Signal
  <2>3. QED
    BY <2>2 DEF Promise!Next
<1>5. CASE Confirm
  <2>1. /\ Signalled /\ Signalled' /\ Listening' = Listening
        /\ handle # "confirmed" /\ handle' = "confirmed" /\ endRefs = 0
    BY <1>5 DEF Confirm, Signalled, Listening
  <2>2. Promise!Quiet
    BY <2>1, QuietWhenNoEnd DEF IInv, Promise!Quiet, LiveTasks
  <2>3. (handle' = "confirmed") = TRUE /\ ~(handle = "confirmed")
    BY <2>1
  <2>4. Signalled' = Signalled
    BY <2>1 DEF Signalled
  <2>5. Promise!Confirm
    BY <1>1, <2>1, <2>2, <2>3, <2>4 DEF Promise!Confirm
  <2>6. QED
    BY <2>5 DEF Promise!Next
<1>6. QED
  BY <1>2, <1>3, <1>4, <1>5

LEMMA NextMaps == IInv /\ [Next]_vars => [Promise!Next]_(Promise!vars)
<1> SUFFICES ASSUME IInv, [Next]_vars PROVE [Promise!Next]_(Promise!vars)
  OBVIOUS
<1>1. CASE UNCHANGED vars
  BY <1>1, StutterMaps DEF vars, Listening, ConnTasks, ReqTasks
<1>2. ASSUME NEW s \in Sockets,
             Dial(s) \/ Accept(s) \/ HelloDone(s) \/ HelloFails(s) \/ ConnPends(s)
             \/ ConnSleeps(s) \/ ConnStops(s) \/ ConnEnds(s)
      PROVE  [Promise!Next]_(Promise!vars)
  <2>1. PICK st \in SockState :
           /\ sock' = [sock EXCEPT ![s] = st]
           /\ st \in InConnTask /\ s \notin ConnTasks => Listening
    BY <1>2 DEF Dial, Accept, HelloDone, HelloFails, ConnPends, ConnSleeps, ConnStops,
                ConnEnds, EndServing, SockState, InConnTask, ConnTasks, Listening
  <2>2. UNCHANGED <<handle, listener, req>>
    BY <1>2 DEF Dial, Accept, HelloDone, HelloFails, ConnPends, ConnSleeps, ConnStops,
                ConnEnds, EndServing
  <2>3. QED
    BY <2>1, <2>2, SockMaps
<1>3. ASSUME NEW r \in Requests,
             AcceptRequest(r) \/ HandlerDone(r) \/ ResponseDone(r) \/ HandlerPanics(r)
             \/ \E s \in Sockets : SendRequest(s, r)
      PROVE  [Promise!Next]_(Promise!vars)
  <2>1. PICK st \in ReqState :
           /\ req' = [req EXCEPT ![r] = st]
           /\ st \in InReqTask /\ r \notin ReqTasks => ConnTasks # {}
    BY <1>3 DEF AcceptRequest, HandlerDone, ResponseDone, HandlerPanics, SendRequest, IInv,
                TypeOK, ReqState, InReqTask, ReqTasks, ConnTasks, InConnTask
  <2>2. UNCHANGED <<handle, listener, sock>>
    BY <1>3 DEF AcceptRequest, HandlerDone, ResponseDone, HandlerPanics, SendRequest
  <2>3. QED
    BY <2>1, <2>2, ReqMaps
<1>4. QED
  BY <1>1, <1>2, <1>3, HandleMaps DEF Next, PollAccept, PollConn

\* The initial states map to initial states, every step to a step or a stutter.
THEOREM ImplementsShutdown == Spec => KeepsPromise
<1>1. IInv /\ [Next]_vars => [Promise!Next]_(Promise!vars)
  BY NextMaps
<1>2. QED
  BY <1>1, InitMaps, Invariant, PTL DEF Spec, KeepsPromise, Promise!Spec
=============================================================================
