---------------------------- MODULE PartsProofs ----------------------------
(***************************************************************************)
(* Proofs about the parts that MCParts checks one after the other: of      *)
(* Bandwidth, of Runtime and of LossyText, and of all the types together.  *)
(* Those of Routing, StaticFiles and Message are in modules of their own.  *)
(***************************************************************************)
EXTENDS MCParts, RoutingProofs, StaticFilesProofs, MessageProofs

-----------------------------------------------------------------------------
(***************************************************************************)
(* Bandwidth, for any limit, round trips, sizes of reads and bounds.       *)
(* BandwidthTypeOK is inductive as it stands: that the estimate is even is *)
(* what makes two thirds of it, rounded down, enough to double without     *)
(* falling below it.                                                       *)
(***************************************************************************)
(***************************************************************************)
(* Arithmetic.                                                             *)
(***************************************************************************)
LEMMA ProductOfNats ==
    ASSUME NEW a \in Nat, NEW b \in Nat
    PROVE  a * b \in Nat
OBVIOUS

LEMMA ProductPositive ==
    ASSUME NEW a \in Nat, NEW b \in Nat, a > 0, b > 0
    PROVE  a * b \in Nat /\ a * b > 0
OBVIOUS

\* The moving average of some times is a time.
LEMMA AveragedPositive ==
    ASSUME rtt \in Fraction, NEW time \in Nat, time > 0
    PROVE  /\ Averaged(time) \in Fraction
           /\ Averaged(time).n > 0
<1>1. PICK n \in Nat, d \in Nat \ {0} : rtt = [n |-> n, d |-> d]
  BY DEF Fraction
<1>2. rtt.n = n /\ rtt.d = d /\ d \in Nat /\ d > 0
  BY <1>1
<1>3. time * d \in Nat /\ time * d > 0
  BY <1>2, ProductPositive
<1>4. CASE n = 0
  BY <1>2, <1>4 DEF Averaged, Fraction
<1>5. CASE n # 0
  <2> DEFINE w == time * d
  <2>1. w \in Nat /\ w > 0
    BY <1>3
  <2>2. Averaged(time) = [n |-> 7 * n + w, d |-> 8 * d]
    BY <1>2, <1>5 DEF Averaged
  <2> HIDE DEF w
  <2>3. 7 * n + w \in Nat /\ 7 * n + w > 0 /\ 8 * d \in Nat \ {0}
    BY <1>2, <2>1
  <2>4. QED
    BY <2>2, <2>3 DEF Fraction
<1>6. QED
  BY <1>4, <1>5

LEMMA SampledFraction ==
    ASSUME rtt \in Fraction, bytes \in Nat, NEW time \in Nat, time > 0
    PROVE  Sampled(time) \in Fraction
<1>1. PICK n \in Nat, d \in Nat \ {0} : Averaged(time) = [n |-> n, d |-> d]
  BY AveragedPositive DEF Fraction
<1>2. Averaged(time).n = n /\ Averaged(time).d = d /\ n > 0 /\ d \in Nat
  BY <1>1, AveragedPositive
<1>3. bytes * d \in Nat
  BY <1>2, ProductOfNats
<1>4. QED
  BY <1>2, <1>3 DEF Sampled, Fraction

\* A new estimate is even, within the limit, and not below the one before: twice
\* a sample of at least two thirds of an even number is at least that number.
LEMMA EstimateGrows ==
    ASSUME NEW sample \in Nat, bdp \in 0 .. WindowLimit, bdp % 2 = 0
    PROVE  /\ Estimate(sample) \in 0 .. WindowLimit
           /\ Estimate(sample) % 2 = 0
           /\ Enough(sample) => Estimate(sample) >= bdp
<1>1. WindowLimit \in Nat /\ WindowLimit % 2 = 0
  BY LimitAssumption
<1>2. (sample * 2) % 2 = 0 /\ sample * 2 \in Nat
  OBVIOUS
<1>3. ASSUME Enough(sample) PROVE sample * 2 >= bdp
  <2>1. sample >= (bdp * 2) \div 3
    BY <1>3 DEF Enough
  <2>2. PICK h \in Nat : bdp = 2 * h
    BY <1>1
  <2>3. QED
    BY <2>1, <2>2
<1>4. QED
  BY <1>1, <1>2, <1>3 DEF Estimate, Lesser
-----------------------------------------------------------------------------
(***************************************************************************)
(* Types.                                                                  *)
(***************************************************************************)
LEMMA BandwidthInitType == BandwidthInit => BandwidthTypeOK
<1> SUFFICES ASSUME BandwidthInit PROVE BandwidthTypeOK
  OBVIOUS
<1>1. [n |-> 0, d |-> 1] \in Fraction
  BY DEF Fraction
<1>2. 0 \in 0 .. WindowLimit /\ 0 % 2 = 0
  BY LimitAssumption
<1>3. QED
  BY <1>1, <1>2 DEF BandwidthInit, BandwidthTypeOK

\* The three parts of BandwidthTypeOK.
PingsOK ==
    pingSent \in BOOLEAN /\ driven \in BOOLEAN /\ wire \in {"none", "out", "pong", "broken"}
CountsOK == bytes \in Nat /\ counted \in Nat /\ samples \in Nat
EstimateOK ==
    /\ rtt \in Fraction /\ fast \in Fraction
    /\ bdp \in 0 .. WindowLimit /\ bdp % 2 = 0
    /\ window \in 0 .. WindowLimit
    /\ driven => window = bdp

LEMMA TypeParts == BandwidthTypeOK <=> PingsOK /\ CountsOK /\ EstimateOK
BY DEF BandwidthTypeOK, PingsOK, CountsOK, EstimateOK

LEMMA StepKeepsPings ==
    ASSUME PingsOK, [BandwidthNext]_bandwidthVars
    PROVE  PingsOK'
BY DEF PingsOK, BandwidthNext, bandwidthVars, DataRead, SendPing, PingReturns, SampleAtLimit,
       SampleSlower, SampleSmall, SampleRaises, TakeSample, GiveWindow

LEMMA StepKeepsCounts ==
    ASSUME CountsOK, [BandwidthNext]_bandwidthVars
    PROVE  CountsOK'
<1> USE DEF CountsOK
<1>1. ASSUME NEW n \in DataSizes, DataRead(n) PROVE CountsOK'
  <2>1. n \in Nat
    BY DataAssumption
  <2>2. QED
    BY <1>1, <2>1 DEF DataRead
<1>2. ASSUME TakeSample, counted' = counted PROVE CountsOK'
  BY <1>2 DEF TakeSample
<1>3. CASE UNCHANGED <<bytes, counted, samples>>
  BY <1>3
<1>4. QED
  BY <1>1, <1>2, <1>3
     DEF BandwidthNext, bandwidthVars, SendPing, PingReturns, SampleAtLimit, SampleSlower,
         SampleSmall, SampleRaises

LEMMA StepKeepsEstimate ==
    ASSUME EstimateOK, CountsOK, [BandwidthNext]_bandwidthVars
    PROVE  EstimateOK'
<1>1. CASE UNCHANGED <<estimate, window, driven>>
  BY <1>1 DEF EstimateOK, estimate
<1>2. ASSUME NEW time \in RoundTrips, SampleSlower(time) PROVE EstimateOK'
  <2>1. time \in Nat /\ time > 0
    BY RoundTripsAssumption
  <2>2. rtt' = Averaged(time) /\ UNCHANGED <<bdp, fast, window, driven>>
    BY <1>2 DEF SampleSlower
  <2>3. rtt' \in Fraction
    BY <2>1, <2>2, AveragedPositive DEF EstimateOK
  <2>4. QED
    BY <2>2, <2>3 DEF EstimateOK
<1>3. ASSUME NEW time \in RoundTrips, SampleSmall(time) PROVE EstimateOK'
  <2>1. time \in Nat /\ time > 0
    BY RoundTripsAssumption
  <2>2. rtt' = Averaged(time) /\ fast' = Sampled(time) /\ UNCHANGED <<bdp, window, driven>>
    BY <1>3 DEF SampleSmall
  <2>3. rtt' \in Fraction /\ fast' \in Fraction
    BY <2>1, <2>2, AveragedPositive, SampledFraction DEF EstimateOK, CountsOK
  <2>4. QED
    BY <2>2, <2>3 DEF EstimateOK
<1>4. ASSUME NEW time \in RoundTrips, NEW accepted \in BOOLEAN, SampleRaises(time, accepted)
      PROVE  EstimateOK'
  <2>1. time \in Nat /\ time > 0
    BY RoundTripsAssumption
  <2>2. /\ rtt' = Averaged(time) /\ fast' = Sampled(time) /\ bdp' = Estimate(bytes)
        /\ window' = IF accepted THEN bdp' ELSE window
        /\ driven' = accepted
    BY <1>4 DEF SampleRaises, GiveWindow
  <2>3. rtt' \in Fraction /\ fast' \in Fraction
    BY <2>1, <2>2, AveragedPositive, SampledFraction DEF EstimateOK, CountsOK
  <2>4. bdp' \in 0 .. WindowLimit /\ bdp' % 2 = 0
    BY <2>2, EstimateGrows DEF EstimateOK, CountsOK
  <2>5. CASE accepted
    BY <2>2, <2>3, <2>4, <2>5 DEF EstimateOK
  <2>6. CASE ~accepted
    BY <2>2, <2>3, <2>4, <2>6 DEF EstimateOK
  <2>7. QED
    BY <2>5, <2>6
<1>5. QED
  BY <1>1, <1>2, <1>3, <1>4
     DEF BandwidthNext, bandwidthVars, estimate, DataRead, SendPing, PingReturns, SampleAtLimit

LEMMA BandwidthStepType ==
    ASSUME BandwidthTypeOK, [BandwidthNext]_bandwidthVars
    PROVE  BandwidthTypeOK'
<1>1. PingsOK /\ CountsOK /\ EstimateOK
  BY TypeParts
<1>2. PingsOK' /\ CountsOK' /\ EstimateOK'
  BY <1>1, StepKeepsPings, StepKeepsCounts, StepKeepsEstimate
<1>3. QED
  BY <1>2 DEF BandwidthTypeOK, PingsOK, CountsOK, EstimateOK

\* The estimate and the window given to h2 are even, within the limit and the
\* same as long as the connection is driven, for every limit (bw.rs:144-175).
THEOREM BandwidthTypeCorrect == BandwidthSpec => []BandwidthTypeOK
<1>1. BandwidthInit => BandwidthTypeOK
  BY BandwidthInitType
<1>2. BandwidthTypeOK /\ [BandwidthNext]_bandwidthVars => BandwidthTypeOK'
  BY BandwidthStepType
<1>3. QED
  BY <1>1, <1>2, PTL DEF BandwidthSpec
-----------------------------------------------------------------------------
(***************************************************************************)
(* The window.                                                             *)
(***************************************************************************)
LEMMA StepKeepsWindow ==
    ASSUME BandwidthTypeOK, [BandwidthNext]_bandwidthVars
    PROVE  [window # 0 => window' >= window]_bandwidthVars
<1>1. window \in Nat
  BY LimitAssumption DEF BandwidthTypeOK
<1>2. ASSUME NEW time \in RoundTrips, NEW accepted \in BOOLEAN, SampleRaises(time, accepted)
      PROVE  window' >= window
  <2>1. driven /\ Enough(bytes) /\ bdp' = Estimate(bytes)
        /\ window' = IF accepted THEN bdp' ELSE window
    BY <1>2 DEF SampleRaises, Pong, GiveWindow
  <2>2. window = bdp
    BY <2>1 DEF BandwidthTypeOK
  <2>3. Estimate(bytes) >= bdp
    BY <2>1, EstimateGrows DEF BandwidthTypeOK
  <2>4. QED
    BY <1>1, <2>1, <2>2, <2>3
<1>3. ASSUME BandwidthNext,
             ~\E time \in RoundTrips, accepted \in BOOLEAN : SampleRaises(time, accepted)
      PROVE  window' = window
  BY <1>3 DEF BandwidthNext, DataRead, SendPing, PingReturns, SampleAtLimit, SampleSlower,
              SampleSmall
<1>4. QED
  BY <1>1, <1>2, <1>3

\* No sample makes the window smaller than the last estimate, whatever the limit,
\* the reads, the round trips and the order of pings (bw.rs:144-175).
THEOREM WindowsGrow == BandwidthSpec => WindowNeverShrinks
<1>1. BandwidthTypeOK /\ [BandwidthNext]_bandwidthVars
        => [window # 0 => window' >= window]_bandwidthVars
  BY StepKeepsWindow
<1>2. QED
  BY <1>1, BandwidthTypeCorrect, PTL DEF BandwidthSpec, WindowNeverShrinks
-----------------------------------------------------------------------------
(***************************************************************************)
(* Runtime, for any threads, any of them inside a tokio runtime, and any   *)
(* number of calls and switches.  The invariant says which places in the   *)
(* code hold which mutex, and what make_default() has left in HANDLE where *)
(* it goes on to RUNTIME.                                                  *)
(***************************************************************************)
\* make_default() with CURRENT_RUNTIME held.
InSwitch == {"take", "drop", "point", "put"}

\* A mutex is held by the thread whose place says so, and by no other.
LockInv ==
    \A t \in Threads :
        /\ owner["CURRENT_RUNTIME"] = t <=> at[t] \in InSwitch
        /\ owner["HANDLE"] = t <=> at[t] = "put"
        /\ owner["RUNTIME"] = t <=> t \in driving

\* Before its first use nobody is past CURRENT_RUNTIME.
UnsetInv ==
    current = "unset" =>
        /\ runtime = NoRuntime
        /\ \A t \in Threads : at[t] \in {"idle", "askSpawn", "askBlock", "switch", "dead"}

\* What set_singletons() puts into RUNTIME is what HANDLE points to.
PointInv ==
    \A t \in Threads : at[t] = "put" =>
        IF wanted[t] = "TokioShared" THEN handle = 0 ELSE handle \in Nat

\* Who is in make_default(), and who blocks inside a tokio runtime of the program.
CauseInv ==
    /\ switches = 0 => \A t \in Threads : at[t] \notin Switching
    /\ ~nested => \A t \in Threads : at[t] \in {"askBlock", "block"} => t \notin InTokio

RuntimeInv == RuntimeTypeOK /\ LockInv /\ UnsetInv /\ PointInv /\ SingletonsAgree /\ CauseInv

\* The steps of one thread.
ThreadStep(t) ==
    \/ Spawn(t) \/ Block(t)
    \/ \E kind \in Kind : MakeDefault(t, kind)
    \/ Proceeds(t)
    \/ DrivenPanics(t)

\* Those in which it panics.
UnwindsSomehow(t) ==
    SpawnPanics(t) \/ BlockPanics(t) \/ SharePanics(t) \/ PoisonPanics(t) \/ DrivenPanics(t)

USE DEF mutexes, singletons, counters
-----------------------------------------------------------------------------
LEMMA RuntimeInvInit == RuntimeInit => RuntimeInv
<1> SUFFICES ASSUME RuntimeInit PROVE RuntimeInv
  OBVIOUS
<1> USE ThreadsAssumption DEF RuntimeInit
<1>1. RuntimeTypeOK
  BY DEF RuntimeTypeOK, Kind, Place, NoRuntime
<1>2. LockInv
  BY DEF LockInv, InSwitch, Mutex
<1>3. UnsetInv /\ PointInv /\ SingletonsAgree
  BY DEF UnsetInv, PointInv, SingletonsAgree
<1>4. CauseInv
  BY DEF CauseInv, Switching
<1>5. QED
  BY <1>1, <1>2, <1>3, <1>4 DEF RuntimeInv

\* A thread that panics is dead and holds nothing.
LEMMA UnwindType ==
    ASSUME RuntimeTypeOK, NEW t \in Threads, NEW more \in SUBSET Mutex, Unwinds(t, more),
           crashed' \in SUBSET Threads
    PROVE  RuntimeTypeOK'
BY DEF RuntimeTypeOK, Unwinds, Goes, Place

LEMMA StepType ==
    ASSUME RuntimeTypeOK, NEW t \in Threads, ThreadStep(t)
    PROVE  RuntimeTypeOK'
<1> USE DEF RuntimeTypeOK, Goes, Place, Switching
<1>1. CASE Spawn(t)
  BY <1>1 DEF Spawn, Call
<1>2. CASE Block(t)
  BY <1>2 DEF Block, Call
<1>3. ASSUME NEW kind \in Kind, MakeDefault(t, kind) PROVE RuntimeTypeOK'
  BY <1>3 DEF MakeDefault, Call
<1>4. CASE Detect(t)
  BY <1>4 DEF Detect, Kind
<1>5. CASE SpawnReads(t) \/ BlockReads(t)
  BY <1>5 DEF SpawnReads, BlockReads, ReadsCurrent
<1>6. CASE Spawned(t)
  BY <1>6 DEF Spawned
<1>7. CASE Drive(t)
  BY <1>7 DEF Drive, Mutex
<1>8. CASE Driven(t)
  BY <1>8 DEF Driven, Mutex
<1>9. CASE SwitchStarts(t)
  BY <1>9 DEF SwitchStarts, Mutex
<1>10. CASE TakesRuntime(t)
  BY <1>10 DEF TakesRuntime
<1>11. CASE DropsHandle(t)
  BY <1>11 DEF DropsHandle
<1>12. CASE Points(t)
  BY <1>12 DEF Points, Mutex
<1>13. CASE Puts(t)
  BY <1>13 DEF Puts, Mutex
<1>14. CASE UnwindsSomehow(t)
  <2>1. PICK more \in SUBSET Mutex : Unwinds(t, more)
    BY <1>14 DEF UnwindsSomehow, SpawnPanics, BlockPanics, SharePanics, PoisonPanics, Panics,
                 DrivenPanics, Mutex
  <2>2. crashed' \in SUBSET Threads
    BY <1>14 DEF UnwindsSomehow, SpawnPanics, BlockPanics, SharePanics, PoisonPanics, Panics,
                 DrivenPanics
  <2>3. QED
    BY <2>1, <2>2, UnwindType
<1>15. QED
  BY <1>1, <1>2, <1>3, <1>4, <1>5, <1>6, <1>7, <1>8, <1>9, <1>10, <1>11, <1>12, <1>13, <1>14
     DEF ThreadStep, Proceeds, UnwindsSomehow

LEMMA UnwindLocks ==
    ASSUME RuntimeTypeOK, LockInv, NEW t \in Threads, NEW more \in SUBSET Mutex,
           Unwinds(t, more)
    PROVE  LockInv'
BY ThreadsAssumption DEF RuntimeTypeOK, LockInv, InSwitch, Unwinds, Goes, Mutex

LEMMA StepLocks ==
    ASSUME RuntimeTypeOK, LockInv, NEW t \in Threads, ThreadStep(t)
    PROVE  LockInv'
<1> USE ThreadsAssumption DEF RuntimeTypeOK, LockInv, InSwitch, Goes, Locks, Mutex
<1>1. CASE Spawn(t)
  BY <1>1 DEF Spawn, Call
<1>2. CASE Block(t)
  BY <1>2 DEF Block, Call
<1>3. ASSUME NEW kind \in Kind, MakeDefault(t, kind) PROVE LockInv'
  BY <1>3 DEF MakeDefault, Call
<1>4. CASE Detect(t)
  BY <1>4 DEF Detect
<1>5. CASE SpawnReads(t) \/ BlockReads(t)
  BY <1>5 DEF SpawnReads, BlockReads, ReadsCurrent
<1>6. CASE Spawned(t)
  BY <1>6 DEF Spawned
<1>7. CASE Drive(t)
  BY <1>7 DEF Drive
<1>8. CASE Driven(t)
  BY <1>8 DEF Driven
<1>9. CASE SwitchStarts(t)
  BY <1>9 DEF SwitchStarts
<1>10. CASE TakesRuntime(t)
  BY <1>10 DEF TakesRuntime
<1>11. CASE DropsHandle(t)
  BY <1>11 DEF DropsHandle
<1>12. CASE Points(t)
  BY <1>12 DEF Points
<1>13. CASE Puts(t)
  BY <1>13 DEF Puts
<1>14. CASE UnwindsSomehow(t)
  <2>1. PICK more \in SUBSET Mutex : Unwinds(t, more)
    BY <1>14 DEF UnwindsSomehow, SpawnPanics, BlockPanics, SharePanics, PoisonPanics, Panics,
                 DrivenPanics, Mutex
  <2>2. QED
    BY <2>1, UnwindLocks
<1>15. QED
  BY <1>1, <1>2, <1>3, <1>4, <1>5, <1>6, <1>7, <1>8, <1>9, <1>10, <1>11, <1>12, <1>13, <1>14
     DEF ThreadStep, Proceeds, UnwindsSomehow

LEMMA UnwindUnset ==
    ASSUME RuntimeTypeOK, UnsetInv, NEW t \in Threads, NEW more \in SUBSET Mutex,
           Unwinds(t, more)
    PROVE  UnsetInv'
BY DEF RuntimeTypeOK, UnsetInv, Unwinds, Goes

LEMMA StepUnset ==
    ASSUME RuntimeTypeOK, UnsetInv, NEW t \in Threads, ThreadStep(t)
    PROVE  UnsetInv'
<1> USE DEF RuntimeTypeOK, UnsetInv, Goes, Kind
<1>1. CASE Spawn(t)
  BY <1>1 DEF Spawn, Call
<1>2. CASE Block(t)
  BY <1>2 DEF Block, Call
<1>3. ASSUME NEW kind \in Kind, MakeDefault(t, kind) PROVE UnsetInv'
  BY <1>3 DEF MakeDefault, Call
<1>4. CASE Detect(t)
  BY <1>4 DEF Detect
<1>5. CASE SpawnReads(t) \/ BlockReads(t)
  BY <1>5 DEF SpawnReads, BlockReads, ReadsCurrent
<1>6. CASE Spawned(t)
  BY <1>6 DEF Spawned
<1>7. CASE Drive(t)
  BY <1>7 DEF Drive
<1>8. CASE Driven(t)
  BY <1>8 DEF Driven
<1>9. CASE SwitchStarts(t)
  BY <1>9 DEF SwitchStarts
<1>10. CASE TakesRuntime(t)
  BY <1>10 DEF TakesRuntime
<1>11. CASE DropsHandle(t)
  BY <1>11 DEF DropsHandle
<1>12. CASE Points(t)
  BY <1>12 DEF Points
<1>13. CASE Puts(t)
  BY <1>13 DEF Puts
<1>14. CASE UnwindsSomehow(t)
  <2>1. PICK more \in SUBSET Mutex : Unwinds(t, more)
    BY <1>14 DEF UnwindsSomehow, SpawnPanics, BlockPanics, SharePanics, PoisonPanics, Panics,
                 DrivenPanics, Mutex
  <2>2. QED
    BY <2>1, UnwindUnset
<1>15. QED
  BY <1>1, <1>2, <1>3, <1>4, <1>5, <1>6, <1>7, <1>8, <1>9, <1>10, <1>11, <1>12, <1>13, <1>14
     DEF ThreadStep, Proceeds, UnwindsSomehow

LEMMA UnwindPoint ==
    ASSUME RuntimeTypeOK, PointInv, NEW t \in Threads, NEW more \in SUBSET Mutex,
           Unwinds(t, more)
    PROVE  PointInv'
BY DEF RuntimeTypeOK, PointInv, Unwinds, Goes

LEMMA StepPoint ==
    ASSUME RuntimeTypeOK, LockInv, UnsetInv, PointInv, NEW t \in Threads, ThreadStep(t)
    PROVE  PointInv'
<1> USE DEF RuntimeTypeOK, LockInv, UnsetInv, PointInv, InSwitch, Goes, NoRuntime
<1>1. CASE Spawn(t)
  BY <1>1 DEF Spawn, Call
<1>2. CASE Block(t)
  BY <1>2 DEF Block, Call
<1>3. ASSUME NEW kind \in Kind, MakeDefault(t, kind) PROVE PointInv'
  BY <1>3 DEF MakeDefault, Call
<1>4. CASE Detect(t)
  BY <1>4 DEF Detect
<1>5. CASE SpawnReads(t) \/ BlockReads(t)
  BY <1>5 DEF SpawnReads, BlockReads, ReadsCurrent
<1>6. CASE Spawned(t)
  BY <1>6 DEF Spawned
<1>7. CASE Drive(t)
  BY <1>7 DEF Drive
<1>8. CASE Driven(t)
  BY <1>8 DEF Driven
<1>9. CASE SwitchStarts(t)
  BY <1>9 DEF SwitchStarts
<1>10. CASE TakesRuntime(t)
  BY <1>10 DEF TakesRuntime
<1>11. CASE DropsHandle(t)
  BY <1>11 DEF DropsHandle
<1>12. CASE Points(t)
  BY <1>12 DEF Points
<1>13. CASE Puts(t)
  BY <1>13 DEF Puts
<1>14. CASE UnwindsSomehow(t)
  <2>1. PICK more \in SUBSET Mutex : Unwinds(t, more)
    BY <1>14 DEF UnwindsSomehow, SpawnPanics, BlockPanics, SharePanics, PoisonPanics, Panics,
                 DrivenPanics, Mutex
  <2>2. QED
    BY <2>1, UnwindPoint
<1>15. QED
  BY <1>1, <1>2, <1>3, <1>4, <1>5, <1>6, <1>7, <1>8, <1>9, <1>10, <1>11, <1>12, <1>13, <1>14
     DEF ThreadStep, Proceeds, UnwindsSomehow

\* The mutexes a panic leaves poisoned stay so; CURRENT_RUNTIME is among them
\* when it was held.
LEMMA UnwindAgree ==
    ASSUME RuntimeTypeOK, SingletonsAgree, NEW t \in Threads, NEW more \in SUBSET Mutex,
           Unwinds(t, more)
    PROVE  SingletonsAgree'
BY ThreadsAssumption DEF RuntimeTypeOK, SingletonsAgree, Locks, Unwinds, Mutex

LEMMA StepAgree ==
    ASSUME RuntimeTypeOK, LockInv, UnsetInv, PointInv, SingletonsAgree, NEW t \in Threads, ThreadStep(t)
    PROVE  SingletonsAgree'
<1> USE ThreadsAssumption DEF RuntimeTypeOK, LockInv, UnsetInv, PointInv, SingletonsAgree, InSwitch,
        Locks, NoRuntime, Mutex
<1>1. CASE Spawn(t)
  BY <1>1 DEF Spawn, Call
<1>2. CASE Block(t)
  BY <1>2 DEF Block, Call
<1>3. ASSUME NEW kind \in Kind, MakeDefault(t, kind) PROVE SingletonsAgree'
  BY <1>3 DEF MakeDefault, Call
<1>4. CASE Detect(t)
  BY <1>4 DEF Detect
<1>5. CASE SpawnReads(t) \/ BlockReads(t)
  BY <1>5 DEF SpawnReads, BlockReads, ReadsCurrent
<1>6. CASE Spawned(t)
  BY <1>6 DEF Spawned
<1>7. CASE Drive(t)
  BY <1>7 DEF Drive
<1>8. CASE Driven(t)
  BY <1>8 DEF Driven
<1>9. CASE SwitchStarts(t)
  BY <1>9 DEF SwitchStarts
<1>10. CASE TakesRuntime(t)
  BY <1>10 DEF TakesRuntime
<1>11. CASE DropsHandle(t)
  BY <1>11 DEF DropsHandle
<1>12. CASE Points(t)
  BY <1>12 DEF Points
<1>13. CASE Puts(t)
  BY <1>13 DEF Puts
<1>14. CASE UnwindsSomehow(t)
  <2>1. PICK more \in SUBSET Mutex : Unwinds(t, more)
    BY <1>14 DEF UnwindsSomehow, SpawnPanics, BlockPanics, SharePanics, PoisonPanics, Panics,
                 DrivenPanics, Mutex
  <2>2. QED
    BY <2>1, UnwindAgree
<1>15. QED
  BY <1>1, <1>2, <1>3, <1>4, <1>5, <1>6, <1>7, <1>8, <1>9, <1>10, <1>11, <1>12, <1>13, <1>14
     DEF ThreadStep, Proceeds, UnwindsSomehow

LEMMA UnwindCause ==
    ASSUME RuntimeTypeOK, CauseInv, NEW t \in Threads, NEW more \in SUBSET Mutex,
           Unwinds(t, more)
    PROVE  CauseInv'
BY DEF RuntimeTypeOK, CauseInv, Switching, Unwinds, Goes

LEMMA StepCause ==
    ASSUME RuntimeTypeOK, CauseInv, NEW t \in Threads, ThreadStep(t)
    PROVE  CauseInv'
<1> USE DEF RuntimeTypeOK, CauseInv, Switching, Goes, InContext
<1>1. CASE Spawn(t)
  BY <1>1 DEF Spawn, Call
<1>2. CASE Block(t)
  BY <1>2 DEF Block, Call
<1>3. ASSUME NEW kind \in Kind, MakeDefault(t, kind) PROVE CauseInv'
  BY <1>3 DEF MakeDefault, Call
<1>4. CASE Detect(t)
  BY <1>4 DEF Detect
<1>5. CASE SpawnReads(t) \/ BlockReads(t)
  BY <1>5 DEF SpawnReads, BlockReads, ReadsCurrent
<1>6. CASE Spawned(t)
  BY <1>6 DEF Spawned
<1>7. CASE Drive(t)
  BY <1>7 DEF Drive
<1>8. CASE Driven(t)
  BY <1>8 DEF Driven
<1>9. CASE SwitchStarts(t)
  BY <1>9 DEF SwitchStarts
<1>10. CASE TakesRuntime(t)
  BY <1>10 DEF TakesRuntime
<1>11. CASE DropsHandle(t)
  BY <1>11 DEF DropsHandle
<1>12. CASE Points(t)
  BY <1>12 DEF Points
<1>13. CASE Puts(t)
  BY <1>13 DEF Puts
<1>14. CASE UnwindsSomehow(t)
  <2>1. PICK more \in SUBSET Mutex : Unwinds(t, more)
    BY <1>14 DEF UnwindsSomehow, SpawnPanics, BlockPanics, SharePanics, PoisonPanics, Panics,
                 DrivenPanics, Mutex
  <2>2. QED
    BY <2>1, UnwindCause
<1>15. QED
  BY <1>1, <1>2, <1>3, <1>4, <1>5, <1>6, <1>7, <1>8, <1>9, <1>10, <1>11, <1>12, <1>13, <1>14
     DEF ThreadStep, Proceeds, UnwindsSomehow

LEMMA RuntimeInvStep == RuntimeInv /\ [RuntimeNext]_runtimeVars => RuntimeInv'
<1> SUFFICES ASSUME RuntimeInv, [RuntimeNext]_runtimeVars PROVE RuntimeInv'
  OBVIOUS
<1> USE DEF RuntimeInv
<1>1. CASE UNCHANGED runtimeVars
  BY <1>1 DEF runtimeVars, RuntimeTypeOK, LockInv, UnsetInv, PointInv, SingletonsAgree, Locks,
              CauseInv
<1>2. ASSUME NEW t \in Threads, ThreadStep(t) PROVE RuntimeInv'
  BY <1>2, StepType, StepLocks, StepUnset, StepPoint, StepAgree, StepCause
<1>3. QED
  BY <1>1, <1>2 DEF RuntimeNext, ThreadStep

THEOREM RuntimeCorrect == RuntimeSpec => []RuntimeInv
<1>1. QED
  BY RuntimeInvInit, RuntimeInvStep, PTL DEF RuntimeSpec

\* Types, for any threads and bounds (async_impl.rs:121-146).
THEOREM RuntimeTypeCorrect == RuntimeSpec => []RuntimeTypeOK
<1>1. RuntimeInv => RuntimeTypeOK
  BY DEF RuntimeInv
<1>2. QED
  BY <1>1, RuntimeCorrect, PTL

\* Whoever reads CURRENT_RUNTIME finds RUNTIME and HANDLE as it says, for any
\* number of threads that spawn, block, switch and panic (async_impl.rs:149-256).
THEOREM SingletonsCorrect == RuntimeSpec => []SingletonsAgree
<1>1. RuntimeInv => SingletonsAgree
  BY DEF RuntimeInv
<1>2. QED
  BY <1>1, RuntimeCorrect, PTL
-----------------------------------------------------------------------------
(***************************************************************************)
(* Panics.                                                                 *)
(***************************************************************************)

\* While nobody has switched nobody holds CURRENT_RUNTIME.
LEMMA CurrentFree ==
    ASSUME RuntimeInv, switches = 0
    PROVE  owner["CURRENT_RUNTIME"] = NoThread
BY DEF RuntimeInv, RuntimeTypeOK, LockInv, CauseInv, InSwitch, Switching, Mutex

\* So a thread that has read it finds a runtime.
LEMMA RuntimeThere ==
    ASSUME RuntimeInv, FailuresHaveCause, switches = 0, ~nested, current # "TokioShared",
           NEW t \in Threads, at[t] \in {"spawn", "block"}
    PROVE  runtime \in Nat /\ handle = runtime
<1>1. current # "unset"
  BY DEF RuntimeInv, UnsetInv
<1>2. Locks("CURRENT_RUNTIME")
  BY CurrentFree DEF Locks, FailuresHaveCause
<1>3. QED
  BY <1>1, <1>2 DEF RuntimeInv, SingletonsAgree

\* hreq panics only where it finds RUNTIME poisoned; it poisons nothing more then.
LEMMA PanicHasCause ==
    ASSUME RuntimeInv, FailuresHaveCause, switches = 0, ~nested, current # "TokioShared",
           NEW t \in Threads,
           SpawnPanics(t) \/ BlockPanics(t) \/ SharePanics(t) \/ PoisonPanics(t)
    PROVE  /\ crashed # {} /\ crashed' = crashed
           /\ poisoned' = poisoned /\ driving' = driving
<1>1. RuntimeTypeOK /\ at[t] \notin Switching
  BY DEF RuntimeInv, CauseInv
<1>2. ~SharePanics(t)
  BY <1>1 DEF SharePanics, Switching
<1>3. ~SpawnPanics(t)
  BY RuntimeThere DEF SpawnPanics, NoRuntime
<1>4. at[t] = "block" => runtime \in Nat /\ t \notin InTokio
  BY RuntimeThere DEF RuntimeInv, CauseInv
<1>5. ~BlockPanics(t)
  BY <1>4 DEF BlockPanics, NoRuntime
<1>6. PoisonPanics(t)
  BY <1>2, <1>3, <1>5
<1>7. crashed # {} /\ driving = {}
  BY <1>6 DEF PoisonPanics, FailuresHaveCause
<1>8. \A m \in Mutex : owner[m] # t
  BY <1>1, <1>7 DEF RuntimeInv, LockInv, InSwitch, Switching, Mutex
<1>9. QED
  BY <1>6, <1>7, <1>8 DEF PoisonPanics, Panics, Unwinds

\* A future that panics poisons RUNTIME, which only its thread held.
LEMMA CrashPoisons ==
    ASSUME RuntimeInv, FailuresHaveCause, switches = 0, ~nested, current # "TokioShared",
           NEW t \in Threads, DrivenPanics(t)
    PROVE  crashed' # {} /\ poisoned' = {"RUNTIME"} /\ driving' = {}
<1>1. t \in driving /\ at[t] = "idle"
  BY DEF DrivenPanics
<1>2. RuntimeTypeOK /\ LockInv
  BY DEF RuntimeInv
<1>3. {m \in Mutex : owner[m] = t} = {"RUNTIME"}
  BY <1>1, <1>2 DEF LockInv, InSwitch, Mutex
<1>4. driving = {t}
  BY <1>1, <1>2 DEF LockInv, RuntimeTypeOK
<1>5. poisoned = {} \/ poisoned = {"RUNTIME"}
  BY DEF FailuresHaveCause
<1>6. QED
  BY <1>3, <1>4, <1>5 DEF DrivenPanics, Unwinds

LEMMA StepFails ==
    ASSUME RuntimeInv, FailuresHaveCause, NEW t \in Threads, ThreadStep(t)
    PROVE  FailuresHaveCause'
<1> SUFFICES ASSUME switches' = 0, ~nested', current' # "TokioShared"
             PROVE  /\ poisoned' = IF crashed' = {} THEN {} ELSE {"RUNTIME"}
                    /\ crashed' # {} => driving' = {}
                    /\ (\E u \in Threads : at'[u] = "dead") => crashed' # {}
  BY DEF FailuresHaveCause
<1>t. RuntimeTypeOK /\ RuntimeTypeOK'
  BY StepType DEF RuntimeInv
<1>1. CASE SpawnPanics(t) \/ BlockPanics(t) \/ SharePanics(t) \/ PoisonPanics(t)
  <2>1. switches = 0 /\ ~nested /\ current # "TokioShared"
    BY <1>1 DEF SpawnPanics, BlockPanics, SharePanics, PoisonPanics, Panics, Unwinds
  <2>2. QED
    BY <1>1, <2>1, PanicHasCause DEF FailuresHaveCause
<1>2. CASE DrivenPanics(t)
  <2>1. switches = 0 /\ ~nested /\ current # "TokioShared"
    BY <1>2 DEF DrivenPanics, Unwinds
  <2>2. QED
    BY <1>2, <2>1, CrashPoisons
<1>3. CASE ~UnwindsSomehow(t)
  <2>1. CASE Detect(t)
    <3>1. switches = 0 /\ ~nested /\ current # "TokioShared"
      BY <2>1 DEF Detect
    <3>2. QED
      BY <2>1, <3>1 DEF Detect, FailuresHaveCause
  <2>2. CASE Puts(t)
    <3>1. switches = 0
      BY <2>2 DEF Puts
    <3>2. QED
      BY <2>2, <3>1 DEF Puts, RuntimeInv, CauseInv, Switching
  <2>3. ASSUME NEW kind \in Kind, MakeDefault(t, kind) PROVE FALSE
    BY <2>3, <1>t DEF MakeDefault, RuntimeTypeOK
  <2>4. CASE Spawn(t) \/ Block(t)
    <3>1. switches = 0 /\ ~nested /\ current # "TokioShared"
      <4>1. switches' = switches /\ current' = current
        BY <2>4 DEF Spawn, Block, Call
      <4>2. nested' = nested \/ nested' = (nested \/ InContext(t))
        BY <2>4 DEF Spawn, Block
      <4>3. ~nested
        BY <4>2, Zenon
      <4>4. QED
        BY <4>1, <4>3
    <3>2. UNCHANGED <<poisoned, crashed, driving>>
      BY <2>4 DEF Spawn, Block, Call
    <3>3. Goes(t, "askSpawn") \/ Goes(t, "askBlock")
      BY <2>4 DEF Spawn, Block, Call
    <3>4. \A u \in Threads : at'[u] = "dead" => at[u] = "dead"
      BY <1>t, <3>3 DEF Goes, RuntimeTypeOK
    <3>5. QED
      BY <3>1, <3>2, <3>4 DEF FailuresHaveCause
  <2>5. CASE \/ SpawnReads(t) \/ BlockReads(t) \/ Spawned(t) \/ Drive(t) \/ Driven(t)
             \/ SwitchStarts(t) \/ TakesRuntime(t) \/ DropsHandle(t) \/ Points(t)
    <3> DEFINE Quiet == UNCHANGED <<current, poisoned, counters>>
               Moves == at' = at \/ \E place \in Place \ {"dead"} : Goes(t, place)
    <3>1. Quiet
      BY <2>5 DEF SpawnReads, BlockReads, ReadsCurrent, Spawned, Drive, Driven, SwitchStarts,
                  TakesRuntime, DropsHandle, Points
    <3>2. ASSUME SpawnReads(t) \/ BlockReads(t) PROVE Moves
      BY <3>2 DEF SpawnReads, BlockReads, ReadsCurrent, Place
    <3>3. ASSUME Spawned(t) \/ Drive(t) PROVE Moves
      BY <3>3 DEF Spawned, Drive, Place
    <3>4. ASSUME Driven(t) PROVE Moves
      BY <3>4 DEF Driven
    <3>5. ASSUME SwitchStarts(t) \/ TakesRuntime(t) \/ DropsHandle(t) \/ Points(t) PROVE Moves
      BY <3>5 DEF SwitchStarts, TakesRuntime, DropsHandle, Points, Place, Switching
    <3>6. Moves
      BY <2>5, <3>2, <3>3, <3>4, <3>5
    <3>7. \A u \in Threads : at'[u] = "dead" => at[u] = "dead"
      BY <1>t, <3>6 DEF Goes, RuntimeTypeOK
    <3>8. switches = 0 /\ ~nested /\ current # "TokioShared" /\ crashed' = crashed
      BY <3>1
    <3>9. crashed # {} => driving' = {}
      <4>1. crashed # {} => ~Locks("RUNTIME") /\ driving = {}
        BY <3>8 DEF FailuresHaveCause, Locks
      <4>2. CASE Drive(t)
        BY <4>1, <4>2 DEF Drive
      <4>3. CASE ~Drive(t)
        <5>1. driving' \subseteq driving
          BY <2>5, <4>3 DEF SpawnReads, BlockReads, ReadsCurrent, Spawned, Driven,
                            SwitchStarts, TakesRuntime, DropsHandle, Points
        <5>2. QED
          BY <4>1, <5>1
      <4>4. QED
        BY <4>2, <4>3
    <3>10. QED
      BY <3>1, <3>7, <3>8, <3>9 DEF FailuresHaveCause
  <2>6. QED
    BY <1>3, <2>1, <2>2, <2>3, <2>4, <2>5 DEF ThreadStep, Proceeds, UnwindsSomehow
<1>4. QED
  BY <1>1, <1>2, <1>3 DEF UnwindsSomehow

\* Without a switch, and with nobody blocking inside a tokio context, a panic of
\* a future that is blocked on is the only thing that makes a call fail or a mutex
\* poisoned, and after it nobody drives the runtime, for any number of threads
\* and whatever they do at once (async_impl.rs:274-290).
THEOREM FailuresExplained == RuntimeSpec => []FailuresHaveCause
<1>1. RuntimeInit => FailuresHaveCause
  BY DEF RuntimeInit, FailuresHaveCause
<1>2. RuntimeInv /\ FailuresHaveCause /\ [RuntimeNext]_runtimeVars => FailuresHaveCause'
  <2>1. RuntimeInv /\ FailuresHaveCause /\ UNCHANGED runtimeVars => FailuresHaveCause'
    BY DEF FailuresHaveCause, runtimeVars
  <2>2. QED
    BY <2>1, StepFails DEF RuntimeNext, ThreadStep
<1>3. QED
  BY <1>1, <1>2, RuntimeCorrect, PTL DEF RuntimeSpec
-----------------------------------------------------------------------------
(***************************************************************************)
(* Deadlock.                                                               *)
(***************************************************************************)

\* Who waits for what, and who holds it.
LEMMA WaitFacts ==
    ASSUME RuntimeInv, NEW t \in Threads, NEW u \in Threads, owner[Wants(at[t])] = u,
           Wants(at[t]) \in Mutex
    PROVE  /\ Wants(at[t]) = "CURRENT_RUNTIME" => at[u] \in InSwitch
           /\ Wants(at[t]) = "HANDLE" => at[u] = "put"
           /\ Wants(at[t]) = "RUNTIME" => u \in driving
           /\ Wants(at[t]) \in {"CURRENT_RUNTIME", "HANDLE", "RUNTIME"}
BY DEF RuntimeInv, LockInv, Mutex

LEMMA NoCircleOtherwise == RuntimeInv => DeadlockNeedsSwitch
<1> SUFFICES ASSUME RuntimeInv, NEW S \in SUBSET Threads, Deadlocked(S)
             PROVE  /\ S \cap driving # {}
                    /\ \E t \in S : at[t] \in Switching \/ (at[t] = "block" /\ t \in driving)
  BY DEF DeadlockNeedsSwitch
<1>1. \A t \in S : Wants(at[t]) \in Mutex /\ owner[Wants(at[t])] \in S
  BY DEF Deadlocked
<1>2. PICK t \in S : TRUE
  BY DEF Deadlocked
\* From t, who waits for CURRENT_RUNTIME at most, to a thread that drives.
<1>3. ASSUME NEW u \in S, at[u] = "put" \/ at[u] = "take" \/ at[u] = "block"
      PROVE  S \cap driving # {}
  <2>1. Wants(at[u]) = "RUNTIME"
    BY <1>3 DEF Wants
  <2>2. owner[Wants(at[u])] \in S
    BY <1>1
  <2>3. owner[Wants(at[u])] \in driving
    BY <1>1, <2>1, <2>2, WaitFacts
  <2>4. QED
    BY <2>2, <2>3
<1>4. ASSUME NEW u \in S, Wants(at[u]) = "HANDLE" PROVE S \cap driving # {}
  <2>1. owner[Wants(at[u])] \in S /\ at[owner[Wants(at[u])]] = "put"
    BY <1>1, <1>4, WaitFacts
  <2>2. QED
    BY <1>3, <2>1
<1>5. ASSUME NEW u \in S, Wants(at[u]) = "CURRENT_RUNTIME"
      PROVE  \E v \in S : at[v] \in InSwitch
  BY <1>1, <1>5, WaitFacts
<1>6. ASSUME NEW v \in S, at[v] \in InSwitch PROVE S \cap driving # {}
  <2>1. at[v] \in {"drop", "point"} => Wants(at[v]) = "HANDLE"
    BY DEF Wants
  <2>2. QED
    BY <1>3, <1>4, <1>6, <2>1 DEF InSwitch
<1>7. S \cap driving # {}
  <2>1. Wants(at[t]) \in {"CURRENT_RUNTIME", "HANDLE", "RUNTIME"}
    BY <1>1 DEF Mutex
  <2>2. Wants(at[t]) = "RUNTIME" => at[t] \in {"block", "take", "put"}
    BY DEF Wants
  <2>3. QED
    BY <1>3, <1>4, <1>5, <1>6, <2>1, <2>2
<1>8. PICK d \in S : d \in driving
  BY <1>7
\* The thread that drives waits too: for the switch, or for itself or its like.
<1>9. \E v \in S : at[v] \in Switching \/ (at[v] = "block" /\ v \in driving)
  <2>1. Wants(at[d]) \in {"CURRENT_RUNTIME", "HANDLE", "RUNTIME"}
    BY <1>1 DEF Mutex
  <2>2. CASE Wants(at[d]) = "RUNTIME"
    BY <1>8, <2>2 DEF Wants, Switching
  <2>3. CASE Wants(at[d]) = "HANDLE"
    BY <1>1, <2>3, WaitFacts DEF Switching
  <2>4. CASE Wants(at[d]) = "CURRENT_RUNTIME"
    BY <1>5, <2>4 DEF InSwitch, Switching
  <2>5. QED
    BY <2>1, <2>2, <2>3, <2>4
<1>10. QED
  BY <1>7, <1>9

\* Threads wait for each other only around a block_on(), and because of a switch
\* or of a block_on() inside it, for any number of threads (async_impl.rs:150-155,
\* 223, 284).
THEOREM DeadlockCauses == RuntimeSpec => []DeadlockNeedsSwitch
<1>1. QED
  BY NoCircleOtherwise, RuntimeCorrect, PTL
-----------------------------------------------------------------------------
(***************************************************************************)
(* LossyText, for any bytes.  The invariant says that all is as it should  *)
(* be before the place the loop is at, and untouched after it; no whole    *)
(* character lies across that place.                                       *)
(***************************************************************************)
\* What is known of any data.
IsBytes(data) ==
    /\ Len(data) \in Nat /\ DOMAIN data = 1 .. Len(data)
    /\ \A i \in 1 .. Len(data) : data[i] \in Byte

\* Up to start all is replaced that should be, after it nothing is yet, and no
\* character that is whole begins before it and ends after.
ReplacedBefore ==
    \A i \in 1 .. start - 1 : buf[i] = IF InWhole(input, i) THEN input[i] ELSE "?"

SameAfter == \A i \in start .. Len(input) : buf[i] = input[i]

NoneAcross ==
    \A k \in 1 .. start - 1 : WholeAt(input, k) => k + BytesOf(input[k]) <= start

Replaced == \A i \in 1 .. Len(input) : buf[i] = IF InWhole(input, i) THEN input[i] ELSE "?"

LossyInv ==
    /\ IsBytes(input)
    /\ buf = [i \in 1 .. Len(input) |-> buf[i]] /\ Len(buf) = Len(input) /\ IsBytes(buf)
    /\ step \in {"loop", "done", "panic"}
    /\ start \in 1 .. Len(input) + 1 /\ rounds \in Nat
    /\ ~EndsInside =>
          /\ step # "panic" /\ rounds <= start - 1
          /\ ReplacedBefore /\ SameAfter /\ NoneAcross
          /\ step = "done" => Replaced

\* A character that is whole, with the data that continue it.
LEMMA WholeHas ==
    ASSUME NEW data, IsBytes(data), NEW k \in 1 .. Len(data), WholeAt(data, k)
    PROVE  /\ BytesOf(data[k]) \in 1 .. 3 /\ k + BytesOf(data[k]) <= Len(data) + 1
           /\ data[k] \notin {"c", "x"}
           /\ \A i \in k + 1 .. k + BytesOf(data[k]) - 1 : data[i] = "c"
<1>1. PICK n \in 1 .. 3 : n = BytesOf(data[k])
  BY DEF BytesOf
<1>2. PICK len \in Nat : len = Len(data)
  BY DEF IsBytes
<1>3. /\ data[k] \notin {"c", "x"}
      /\ \A i \in k + 1 .. k + n - 1 : i <= len /\ data[i] = "c"
  BY <1>1, <1>2 DEF WholeAt
<1>4. k + n <= len + 1
  <2>1. CASE n = 1
    BY <1>2, <2>1
  <2>2. CASE n > 1
    <3>1. k + n - 1 \in k + 1 .. k + n - 1
      BY <1>1, <1>2, <2>2
    <3>2. QED
      BY <1>1, <1>2, <1>3, <3>1
  <2>3. QED
    BY <1>1, <2>1, <2>2
<1>5. QED
  BY <1>1, <1>2, <1>3, <1>4

\* Where the data are the same, the characters are.
LEMMA WholeSame ==
    ASSUME LossyInv, SameAfter, NEW k \in start .. Len(input)
    PROVE  /\ BytesOf(buf[k]) = BytesOf(input[k])
           /\ WholeAt(buf, k) <=> WholeAt(input, k)
<1>1. PICK n \in 1 .. 3 : n = BytesOf(input[k])
  BY DEF BytesOf
<1>2. PICK len \in Nat : len = Len(input) /\ len = Len(buf)
  BY DEF LossyInv, IsBytes
<1>3. buf[k] = input[k]
  BY DEF SameAfter
<1>4. start \in Nat
  BY DEF LossyInv
<1>5. \A i \in k + 1 .. k + n - 1 : i <= len => buf[i] = input[i]
  BY <1>2, <1>4 DEF SameAfter
<1>6. WholeAt(input, k) <=> /\ input[k] \notin {"c", "x"}
                            /\ \A i \in k + 1 .. k + n - 1 : i <= len /\ input[i] = "c"
  BY <1>1, <1>2 DEF WholeAt
<1>7. WholeAt(buf, k) <=> /\ input[k] \notin {"c", "x"}
                          /\ \A i \in k + 1 .. k + n - 1 : i <= len /\ buf[i] = "c"
  BY <1>1, <1>2, <1>3 DEF WholeAt
<1>8. QED
  BY <1>1, <1>3, <1>5, <1>6, <1>7

\* There is a place of the first error.
LEMMA ErrorPlaceIs ==
    ASSUME LossyInv
    PROVE  /\ ErrorPlace \in start .. Len(buf) + 1
           /\ ErrorPlace > Len(buf) \/ ~InCharacter(ErrorPlace)
           /\ \A i \in start .. ErrorPlace - 1 : InCharacter(i)
<1>1. PICK len \in Nat : len = Len(buf) /\ start \in 1 .. len + 1
  BY DEF LossyInv, IsBytes
<1>2. PICK T : T = {k \in start .. len + 1 : k > len \/ ~InCharacter(k)}
  OBVIOUS
<1>3. T \in SUBSET Nat /\ len + 1 \in T
  BY <1>1, <1>2
<1>4. PICK x \in T : \A y \in T : x <= y
  BY <1>3, Least
<1>5. /\ x \in start .. len + 1
      /\ x > len \/ ~InCharacter(x)
      /\ \A i \in start .. x - 1 : InCharacter(i)
  <2>1. ASSUME NEW i \in start .. x - 1, ~InCharacter(i) PROVE FALSE
    <3>1. i \in T
      BY <1>1, <1>2, <1>4, <2>1
    <3>2. QED
      BY <1>1, <1>4, <2>1, <3>1
  <2>2. QED
    BY <1>2, <1>4, <2>1
<1>6. ErrorPlace = CHOOSE k \in start .. len + 1 :
        /\ k > len \/ ~InCharacter(k)
        /\ \A i \in start .. k - 1 : InCharacter(i)
  BY <1>1 DEF ErrorPlace
<1>7. QED
  BY <1>1, <1>5, <1>6

\* Before it all are in characters that are whole; it is in none, and so none
\* goes across it.
LEMMA PlaceSplits ==
    ASSUME LossyInv, SameAfter, NoneAcross, NEW place, place = ErrorPlace
    PROVE  /\ place \in start .. Len(input) + 1
           /\ \A i \in start .. place - 1 : InWhole(input, i)
           /\ place <= Len(input) => ~InWhole(input, place) /\ ~WholeAt(buf, place)
           /\ \A k \in 1 .. place - 1 : WholeAt(input, k) => k + BytesOf(input[k]) <= place
<1>1. PICK len \in Nat : len = Len(input) /\ len = Len(buf) /\ start \in 1 .. len + 1
  BY DEF LossyInv, IsBytes
<1>2. /\ place \in start .. len + 1 /\ (place > len \/ ~InCharacter(place))
      /\ \A i \in start .. place - 1 : InCharacter(i)
  BY <1>1, ErrorPlaceIs
<1>3. \A k \in start .. len : /\ BytesOf(buf[k]) = BytesOf(input[k])
                              /\ WholeAt(buf, k) <=> WholeAt(input, k)
  BY <1>1, WholeSame
<1>4. \A k \in 1 .. len : BytesOf(input[k]) \in 1 .. 3
  BY DEF BytesOf
<1>5. ASSUME NEW i \in start .. place - 1 PROVE InWhole(input, i)
  <2>1. PICK k \in start .. i : WholeAt(buf, k) /\ i < k + BytesOf(buf[k])
    BY <1>2, <1>5 DEF InCharacter
  <2>2. k \in start .. len /\ k \in 1 .. i
    BY <1>1, <1>2, <1>5, <2>1
  <2>3. QED
    BY <1>3, <2>1, <2>2 DEF InWhole
<1>6. ASSUME place <= len, NEW k \in 1 .. place, WholeAt(input, k), place < k + BytesOf(input[k])
      PROVE  FALSE
  <2>1. CASE k < start
    <3>1. k + BytesOf(input[k]) <= start
      BY <1>1, <1>2, <1>6, <2>1 DEF NoneAcross
    <3>2. PICK n \in 1 .. 3 : n = BytesOf(input[k])
      BY <1>1, <1>4, <1>6, <1>2
    <3>3. QED
      BY <1>1, <1>2, <1>6, <3>1, <3>2
  <2>2. CASE k >= start
    <3>1. k \in start .. len /\ k \in start .. place
      BY <1>1, <1>2, <1>6, <2>2
    <3>2. InCharacter(place)
      BY <1>3, <1>6, <3>1 DEF InCharacter
    <3>3. QED
      BY <1>1, <1>2, <1>6, <3>2
  <2>3. QED
    BY <1>1, <1>2, <1>6, <2>1, <2>2
<1>7. place <= len => ~InWhole(input, place)
  BY <1>6 DEF InWhole
<1>8. ASSUME place <= len, WholeAt(buf, place) PROVE FALSE
  <2>1. place \in start .. len /\ place \in 1 .. place
    BY <1>1, <1>2, <1>8
  <2>2. PICK n \in 1 .. 3 : n = BytesOf(input[place])
    BY <1>1, <1>4, <2>1
  <2>3. place < place + n
    BY <2>1, <1>1
  <2>4. QED
    BY <1>3, <1>6, <1>8, <2>1, <2>2, <2>3
<1>9. ASSUME NEW k \in 1 .. place - 1, WholeAt(input, k), ~(k + BytesOf(input[k]) <= place)
      PROVE  FALSE
  <2>1. PICK n \in 1 .. 3 : n = BytesOf(input[k]) /\ k \in 1 .. len
    BY <1>1, <1>2, <1>4, <1>9
  <2>2. place <= len
    <3>1. k + n <= len + 1
      BY <1>1, <1>9, <2>1, WholeHas DEF LossyInv
    <3>2. QED
      BY <1>1, <1>2, <1>9, <2>1, <3>1
  <2>3. k \in 1 .. place /\ place < k + n
    BY <1>1, <1>2, <1>9, <2>1
  <2>4. QED
    BY <1>6, <1>9, <2>1, <2>2, <2>3
<1>10. QED
  BY <1>1, <1>2, <1>5, <1>7, <1>8, <1>9

\* An error has no length when the buffer ends inside a character; one that has
\* is in the buffer, and what is after its first byte continues a character.
LEMMA ErrorLenIs ==
    ASSUME LossyInv, NEW place \in start .. Len(input), ~WholeAt(buf, place)
    PROVE  \/ /\ ErrorLen(place) = 0 /\ buf[place] \notin {"c", "x"}
              /\ Len(buf) \in Belonging(buf, place)
           \/ /\ ErrorLen(place) \in 1 .. 2 /\ place + ErrorLen(place) <= Len(input) + 1
              /\ \A i \in place + 1 .. place + ErrorLen(place) - 1 : buf[i] = "c"
<1>1. PICK len \in Nat : len = Len(input) /\ len = Len(buf) /\ start \in 1 .. len + 1
  BY DEF LossyInv, IsBytes
<1>2. place \in 1 .. len /\ buf[place] \in Byte
  <2>1. place \in 1 .. len
    BY <1>1
  <2>2. IsBytes(buf)
    BY DEF LossyInv
  <2>3. QED
    BY <1>1, <2>1, <2>2 DEF IsBytes
<1>3. CASE buf[place] \in {"c", "x"}
  <2>1. ErrorLen(place) = 1
    BY <1>3 DEF ErrorLen
  <2>2. QED
    BY <1>1, <1>2, <2>1
<1>4. CASE buf[place] \notin {"c", "x"} /\ len \in Belonging(buf, place)
  BY <1>1, <1>4 DEF ErrorLen
<1>5. CASE buf[place] \notin {"c", "x"} /\ len \notin Belonging(buf, place)
  <2>1. buf[place] \in {"2", "3"}
    <3>1. ASSUME buf[place] \in {"a", "?"} PROVE WholeAt(buf, place)
      <4>1. BytesOf(buf[place]) = 1
        BY <3>1 DEF BytesOf
      <4>2. place + 1 .. place + 1 - 1 = {}
        BY <1>2
      <4>3. QED
        BY <1>5, <4>1, <4>2 DEF WholeAt
    <3>2. QED
      BY <1>2, <1>5, <3>1 DEF Byte
  <2>2. PICK b \in {2, 3} : b = BytesOf(buf[place])
    BY <1>2, <2>1 DEF BytesOf
  <2>3. PICK held : held = Belonging(buf, place)
    OBVIOUS
  <2>4. held = {i \in place .. len : i < place + b /\ \A j \in place + 1 .. i : buf[j] = "c"}
    BY <1>1, <2>2, <2>3 DEF Belonging
  <2>6. len \notin held
    BY <1>1, <1>5, <2>3
  <2>7. place \in held
    BY <1>2, <2>2, <2>4
  <2>8. place < len
    BY <1>2, <2>6, <2>7
  <2>9. PICK n \in 1 .. 2 : held = place .. place + n - 1 /\ (n = 2 => buf[place + 1] = "c")
    <3>1. CASE buf[place + 1] # "c"
      <4>1. held = {place}
        BY <1>2, <2>2, <2>4, <2>8, <3>1
      <4>2. place .. place + 1 - 1 = {place}
        BY <1>2
      <4>3. QED
        BY <4>1, <4>2
    <3>2. CASE buf[place + 1] = "c"
      <4>1. b = 3
        <5>1. ASSUME b = 2 PROVE WholeAt(buf, place)
          <6>1. place + 1 .. place + b - 1 = {place + 1}
            BY <1>2, <5>1
          <6>2. place + 1 <= Len(buf)
            BY <1>1, <1>2, <2>8
          <6>3. QED
            BY <1>5, <2>2, <3>2, <6>1, <6>2 DEF WholeAt
        <5>2. QED
          BY <2>2, <5>1
      <4>2. place + 2 \notin held
        <5>1. ASSUME place + 2 \in held PROVE WholeAt(buf, place)
          <6>1. \A i \in place + 1 .. place + b - 1 : i <= Len(buf) /\ buf[i] = "c"
            BY <1>1, <1>2, <2>4, <4>1, <5>1
          <6>2. QED
            BY <1>5, <2>2, <6>1 DEF WholeAt
        <5>2. QED
          BY <5>1
      <4>3. held = {place, place + 1}
        <5>1. place + 1 \in held
          BY <1>2, <2>4, <2>8, <3>2, <4>1
        <5>2. \A i \in held : i = place \/ i = place + 1 \/ i = place + 2
          BY <1>2, <2>4, <4>1
        <5>3. QED
          BY <2>7, <4>2, <5>1, <5>2
      <4>4. place .. place + 2 - 1 = {place, place + 1}
        BY <1>2
      <4>5. QED
        BY <3>2, <4>3, <4>4
    <3>3. QED
      BY <3>1, <3>2
  <2>10. \A m \in 1 .. 3 : held = place .. place + m - 1 => m = n
    <3>1. ASSUME NEW m \in 1 .. 3, held = place .. place + m - 1 PROVE m = n
      <4>1. place + m - 1 \in held /\ place + n - 1 \in held
        BY <1>2, <2>9, <3>1
      <4>2. QED
        BY <1>2, <2>9, <3>1, <4>1
    <3>2. QED
      BY <3>1
  <2>11. ErrorLen(place) = n
    <3>1. ErrorLen(place) = CHOOSE m \in 1 .. 3 : held = place .. place + m - 1
      BY <1>1, <1>5, <2>3, <2>6 DEF ErrorLen
    <3>2. QED
      BY <2>9, <2>10, <3>1
  <2>12. place + n <= len + 1
    <3>1. place + n - 1 \in held
      BY <1>2, <2>9
    <3>2. QED
      BY <1>2, <2>4, <3>1
  <2>13. QED
    BY <1>1, <1>2, <2>9, <2>11, <2>12
<1>6. QED
  BY <1>3, <1>4, <1>5

\* Unless the body ends inside a character, an error has a length.
LEMMA ErrorHasLen ==
    ASSUME LossyInv, SameAfter, ~EndsInside, NEW place \in start .. Len(input),
           ~WholeAt(buf, place), ErrorLen(place) = 0
    PROVE  FALSE
<1>1. PICK len \in Nat : len = Len(input) /\ len = Len(buf) /\ start \in 1 .. len + 1
  BY DEF LossyInv, IsBytes
<1>2. place \in 1 .. len /\ buf[place] = input[place] /\ buf[place] \in Byte
  <2>1. place \in 1 .. len
    BY <1>1
  <2>2. IsBytes(buf)
    BY DEF LossyInv
  <2>3. QED
    BY <1>1, <2>1, <2>2 DEF IsBytes, SameAfter
<1>3. PICK held : held = Belonging(buf, place)
  OBVIOUS
<1>4. buf[place] \notin {"c", "x"} /\ len \in held
  BY <1>1, <1>3, ErrorLenIs
<1>5. buf[place] \in {"2", "3"}
  <2>1. ASSUME buf[place] \in {"a", "?"} PROVE WholeAt(buf, place)
    <3>1. BytesOf(buf[place]) = 1
      BY <2>1 DEF BytesOf
    <3>2. place + 1 .. place + 1 - 1 = {}
      BY <1>2
    <3>3. QED
      BY <1>4, <3>1, <3>2 DEF WholeAt
  <2>2. QED
    BY <1>2, <1>4, <2>1 DEF Byte
<1>6. PICK b \in {2, 3} : b = BytesOf(buf[place]) /\ b = BytesOf(input[place])
  BY <1>2, <1>5 DEF BytesOf
<1>7. len < place + b /\ \A j \in place + 1 .. len : buf[j] = "c"
  BY <1>1, <1>3, <1>4, <1>6 DEF Belonging
<1>8. len \in Belonging(input, place)
  <2>1. \A j \in place + 1 .. len : buf[j] = input[j]
    BY <1>1 DEF SameAfter
  <2>2. QED
    BY <1>1, <1>6, <1>7, <2>1 DEF Belonging
<1>9. ~WholeAt(input, place)
  BY <1>1, WholeSame
<1>10. QED
  BY <1>1, <1>2, <1>5, <1>8, <1>9 DEF EndsInside, LossyInv, IsBytes

\* Bytes that are bad are in no character that is whole, and none goes across them.
LEMMA BadNotWhole ==
    ASSUME LossyInv, SameAfter, NoneAcross, ~EndsInside, NEW place, place = ErrorPlace,
           place <= Len(input)
    PROVE  /\ \A i \in BadBytes(place) : ~InWhole(input, i)
           /\ \A k \in 1 .. place + ErrorLen(place) - 1 :
                 WholeAt(input, k) => k + BytesOf(input[k]) <= place + ErrorLen(place)
<1>1. PICK len \in Nat : len = Len(input) /\ start \in 1 .. len + 1
  BY DEF LossyInv, IsBytes
<1>2. /\ place \in start .. len
      /\ ~InWhole(input, place) /\ ~WholeAt(buf, place)
      /\ \A k \in 1 .. place - 1 : WholeAt(input, k) => k + BytesOf(input[k]) <= place
  BY <1>1, PlaceSplits
<1>3. PICK n \in 1 .. 2 : /\ n = ErrorLen(place) /\ place + n <= len + 1
                         /\ \A i \in place + 1 .. place + n - 1 : buf[i] = "c"
  <2>1. ErrorLen(place) # 0
    BY <1>1, <1>2, ErrorHasLen
  <2>2. QED
    BY <1>1, <1>2, <2>1, ErrorLenIs
<1>4. \A k \in place .. place + n - 1 : ~WholeAt(input, k)
  <2>1. ~WholeAt(input, place)
    BY <1>1, <1>2, WholeSame
  <2>2. \A k \in place + 1 .. place + n - 1 : input[k] = "c"
    BY <1>1, <1>2, <1>3 DEF SameAfter
  <2>3. QED
    BY <1>1, <1>2, <2>1, <2>2 DEF WholeAt
<1>5. \A k \in 1 .. place + n - 1 : WholeAt(input, k) => k + BytesOf(input[k]) <= place
  BY <1>1, <1>2, <1>3, <1>4
<1>6. \A k \in 1 .. len : BytesOf(input[k]) \in 1 .. 3
  BY DEF BytesOf
<1>7. ASSUME NEW i \in place .. place + n - 1, InWhole(input, i) PROVE FALSE
  <2>1. PICK k \in 1 .. i : WholeAt(input, k) /\ i < k + BytesOf(input[k])
    BY <1>7 DEF InWhole
  <2>2. k + BytesOf(input[k]) <= place /\ k \in 1 .. len
    BY <1>1, <1>2, <1>3, <1>5, <1>7, <2>1
  <2>3. QED
    BY <1>1, <1>2, <1>6, <1>7, <2>1, <2>2
<1>8. \A k \in 1 .. place + n - 1 : WholeAt(input, k) => k + BytesOf(input[k]) <= place + n
  <2>1. ASSUME NEW k \in 1 .. place + n - 1, WholeAt(input, k)
        PROVE  k + BytesOf(input[k]) <= place + n
    <3>1. k + BytesOf(input[k]) <= place /\ k \in 1 .. len
      BY <1>1, <1>2, <1>3, <1>5, <2>1
    <3>2. QED
      BY <1>1, <1>2, <1>3, <1>6, <3>1
  <2>2. QED
    BY <2>1
<1>9. QED
  BY <1>3, <1>7, <1>8 DEF BadBytes

LEMMA LossyStart == LossyInit => LossyInv
<1> SUFFICES ASSUME LossyInit PROVE LossyInv
  OBVIOUS
<1>1. PICK n \in Nat : input \in [1 .. n -> Byte \ {"?"}]
  BY LossyAssumption DEF LossyInit
<1>2. input \in Seq(Byte) /\ Len(input) = n /\ DOMAIN input = 1 .. n
  BY <1>1
<1>3. IsBytes(input) /\ buf = [i \in 1 .. Len(input) |-> buf[i]]
  BY <1>1, <1>2 DEF IsBytes, LossyInit
<1>4. buf = input /\ start = 1 /\ rounds = 0 /\ step = "loop"
  BY DEF LossyInit
<1>5. ReplacedBefore /\ SameAfter /\ NoneAcross
  BY <1>4 DEF ReplacedBefore, SameAfter, NoneAcross
<1>6. start \in 1 .. Len(input) + 1
  BY <1>2, <1>4
<1>7. QED
  BY <1>3, <1>4, <1>5, <1>6 DEF LossyInv

\* All that is left is UTF-8.
LEMMA ValidInv == ASSUME LossyInv, TextIsValid PROVE LossyInv'
<1>1. /\ ErrorPlace > Len(buf) /\ step' = "done" /\ UNCHANGED <<input, buf, start, rounds>>
  BY DEF TextIsValid
<1>2. PICK len \in Nat : len = Len(input) /\ len = Len(buf) /\ start \in 1 .. len + 1
  BY DEF LossyInv, IsBytes
<1>3. ASSUME ~EndsInside PROVE Replaced
  <2>1. ReplacedBefore /\ SameAfter /\ NoneAcross
    BY <1>3 DEF LossyInv
  <2>2. PICK place \in start .. len + 1 : place = ErrorPlace
    BY <1>2, ErrorPlaceIs
  <2>3. place = len + 1 /\ \A i \in start .. place - 1 : InWhole(input, i)
    BY <1>1, <1>2, <2>1, <2>2, PlaceSplits
  <2>4. ASSUME NEW i \in 1 .. len PROVE buf[i] = IF InWhole(input, i) THEN input[i] ELSE "?"
    <3>1. CASE i < start
      BY <1>2, <2>1, <3>1 DEF ReplacedBefore
    <3>2. CASE i >= start
      BY <1>2, <2>1, <2>3, <3>2 DEF SameAfter
    <3>3. QED
      BY <1>2, <3>1, <3>2
  <2>5. QED
    BY <1>2, <2>4 DEF Replaced
<1>4. (EndsInside <=> EndsInside') /\ (Replaced <=> Replaced') /\ (ReplacedBefore <=> ReplacedBefore')
      /\ (SameAfter <=> SameAfter') /\ (NoneAcross <=> NoneAcross') /\ IsBytes(buf)' = IsBytes(buf)
      /\ IsBytes(input)' = IsBytes(input)
  BY <1>1 DEF EndsInside, Replaced, ReplacedBefore, SameAfter, NoneAcross, IsBytes
<1>5. QED
  BY <1>1, <1>3, <1>4 DEF LossyInv

\* A buffer with other data.
LEMMA NewBytes ==
    ASSUME LossyInv, NEW f, f \in [1 .. Len(input) -> Byte]
    PROVE  /\ f = [i \in 1 .. Len(input) |-> f[i]] /\ Len(f) = Len(input)
           /\ IsBytes(f)
<1>1. PICK len \in Nat : len = Len(input)
  BY DEF LossyInv, IsBytes
<1>2. f \in Seq(Byte) /\ Len(f) = len /\ DOMAIN f = 1 .. len
  BY <1>1
<1>3. QED
  BY <1>1, <1>2 DEF IsBytes

LEMMA ReplaceInv == ASSUME LossyInv, ReplaceBytes PROVE LossyInv'
<1>1. PICK place, n :
        /\ place = ErrorPlace /\ n = ErrorLen(place) /\ place <= Len(buf) /\ n > 0
        /\ buf' = [i \in DOMAIN buf |-> IF i \in BadBytes(place) THEN "?" ELSE buf[i]]
        /\ start' = place + n /\ rounds' = rounds + 1 /\ UNCHANGED <<input, step>>
        /\ step = "loop"
  BY DEF ReplaceBytes
<1>2. PICK len \in Nat : /\ len = Len(input) /\ len = Len(buf) /\ start \in 1 .. len + 1
                        /\ DOMAIN buf = 1 .. len
  BY DEF LossyInv, IsBytes
<1>3. buf' \in [1 .. len -> Byte]
  BY <1>1, <1>2 DEF LossyInv, IsBytes, Byte
<1>4. buf' = [i \in 1 .. len |-> buf'[i]] /\ Len(buf') = len /\ IsBytes(buf')
  BY <1>2, <1>3, NewBytes
<1>5. place \in start .. len /\ ~WholeAt(buf, place)
  <2>1. place \in start .. len + 1 /\ ~InCharacter(place)
    BY <1>1, <1>2, ErrorPlaceIs
  <2>2. PICK b \in 1 .. 3 : b = BytesOf(buf[place])
    BY DEF BytesOf
  <2>3. place < place + b
    BY <1>2, <2>1
  <2>4. QED
    BY <1>1, <1>2, <2>1, <2>2, <2>3 DEF InCharacter
<1>6. n \in 1 .. 2 /\ place + n <= len + 1
  BY <1>1, <1>2, <1>5, ErrorLenIs
<1>7. ASSUME ~EndsInside
      PROVE  step' # "panic" /\ rounds' <= start' - 1 /\ ReplacedBefore' /\ SameAfter' /\ NoneAcross'
  <2>1. ReplacedBefore /\ SameAfter /\ NoneAcross /\ rounds <= start - 1
    BY <1>7 DEF LossyInv
  <2>2. /\ \A i \in start .. place - 1 : InWhole(input, i)
        /\ \A i \in BadBytes(place) : ~InWhole(input, i)
        /\ \A k \in 1 .. place + n - 1 : WholeAt(input, k) => k + BytesOf(input[k]) <= place + n
    BY <1>1, <1>2, <1>7, <2>1, PlaceSplits, BadNotWhole
  <2>3. BadBytes(place) = place .. place + n - 1
    BY <1>1 DEF BadBytes
  <2>4. \A i \in 1 .. len : buf'[i] = IF i \in place .. place + n - 1 THEN "?" ELSE buf[i]
    BY <1>1, <1>2, <2>3
  <2>5. ASSUME NEW i \in 1 .. place + n - 1
        PROVE  buf'[i] = IF InWhole(input, i) THEN input[i] ELSE "?"
    <3>1. i \in 1 .. len
      BY <1>2, <1>5, <1>6
    <3>2. CASE i < start
      BY <1>2, <1>5, <2>1, <2>4, <3>1, <3>2 DEF ReplacedBefore
    <3>3. CASE i \in start .. place - 1
      BY <1>2, <1>5, <2>1, <2>2, <2>4, <3>1, <3>3 DEF SameAfter
    <3>4. CASE i >= place
      BY <1>2, <1>5, <2>2, <2>3, <2>4, <3>1, <3>4
    <3>5. QED
      BY <1>2, <1>5, <3>2, <3>3, <3>4
  <2>6. ReplacedBefore'
    <3>1. start' = place + n /\ input' = input
      BY <1>1
    <3>2. \A i \in 1 .. start' - 1 : buf'[i] = IF InWhole(input', i) THEN input'[i] ELSE "?"
      BY <1>2, <1>5, <1>6, <2>5, <3>1
    <3>3. QED
      BY <3>2 DEF ReplacedBefore
  <2>7. SameAfter'
    <3>1. start' = place + n /\ input' = input
      BY <1>1
    <3>2. ASSUME NEW i \in place + n .. len PROVE buf'[i] = input[i]
      <4>1. i \in 1 .. len /\ i \in start .. len /\ i \notin place .. place + n - 1
        BY <1>2, <1>5, <1>6, <3>2
      <4>2. buf[i] = input[i]
        BY <1>2, <2>1, <4>1 DEF SameAfter
      <4>3. QED
        BY <2>4, <4>1, <4>2
    <3>3. QED
      BY <1>2, <3>1, <3>2 DEF SameAfter
  <2>8. NoneAcross'
    <3>1. start' = place + n /\ input' = input
      BY <1>1
    <3>2. \A k \in 1 .. start' - 1 : WholeAt(input', k) => k + BytesOf(input'[k]) <= start'
      BY <1>2, <1>5, <1>6, <2>2, <3>1
    <3>3. QED
      BY <3>2 DEF NoneAcross
  <2>9. rounds' <= start' - 1
    BY <1>1, <1>2, <1>5, <1>6, <2>1 DEF LossyInv
  <2>10. QED
    BY <1>1, <2>6, <2>7, <2>8, <2>9
<1>8. EndsInside' <=> EndsInside
  BY <1>1 DEF EndsInside
<1>9. start' \in 1 .. len + 1 /\ rounds' \in Nat
  BY <1>1, <1>2, <1>5, <1>6 DEF LossyInv
<1>10. IsBytes(input)' /\ IsBytes(buf)'
  BY <1>1, <1>4 DEF IsBytes, LossyInv
<1>11. QED
  BY <1>1, <1>2, <1>4, <1>7, <1>8, <1>9, <1>10 DEF LossyInv

LEMMA AtEndInv == ASSUME LossyInv, ReplaceAtEnd PROVE LossyInv'
<1>1. PICK place :
        /\ place = ErrorPlace /\ ErrorLen(place) = 0 /\ place <= Len(buf)
        /\ start' = place /\ rounds' = rounds + 1 /\ input' = input
        /\ IF place = 1 THEN step' = "panic" /\ UNCHANGED buf
           ELSE buf' = [buf EXCEPT ![place - 1] = "?"] /\ UNCHANGED step
  BY DEF ReplaceAtEnd
<1>2. PICK len \in Nat : /\ len = Len(input) /\ len = Len(buf) /\ start \in 1 .. len + 1
                        /\ DOMAIN buf = 1 .. len
  BY DEF LossyInv, IsBytes
<1>3. place \in start .. len /\ ~InCharacter(place)
  BY <1>1, <1>2, ErrorPlaceIs
<1>4. EndsInside
  <2>1. ~WholeAt(buf, place)
    <3>1. PICK b \in 1 .. 3 : b = BytesOf(buf[place])
      BY DEF BytesOf
    <3>2. place < place + b
      BY <1>2, <1>3
    <3>3. QED
      BY <1>2, <1>3, <3>1, <3>2 DEF InCharacter
  <2>2. QED
    BY <1>1, <1>2, <1>3, <2>1, ErrorHasLen DEF LossyInv
<1>5. buf' \in [1 .. len -> Byte]
  <2>1. buf \in [1 .. len -> Byte]
    BY <1>2 DEF LossyInv, IsBytes
  <2>2. QED
    BY <1>1, <2>1 DEF Byte
<1>6. buf' = [i \in 1 .. len |-> buf'[i]] /\ Len(buf') = len /\ IsBytes(buf')
  BY <1>2, <1>5, NewBytes
<1>7. EndsInside'
  BY <1>1, <1>4 DEF EndsInside
<1>8. start' \in 1 .. len + 1 /\ rounds' \in Nat /\ step' \in {"loop", "done", "panic"}
  BY <1>1, <1>2, <1>3 DEF LossyInv
<1>9. IsBytes(input)' /\ IsBytes(buf)'
  BY <1>1, <1>6 DEF IsBytes, LossyInv
<1>10. QED
  BY <1>1, <1>2, <1>6, <1>7, <1>8, <1>9 DEF LossyInv

LEMMA LossyStutters == ASSUME LossyInv, UNCHANGED lossyVars PROVE LossyInv'
<1>1. UNCHANGED <<EndsInside, Replaced, ReplacedBefore, SameAfter, NoneAcross>>
      /\ IsBytes(buf)' = IsBytes(buf) /\ IsBytes(input)' = IsBytes(input)
  BY DEF lossyVars, EndsInside, Replaced, ReplacedBefore, SameAfter, NoneAcross, IsBytes
<1>2. QED
  BY <1>1 DEF lossyVars, LossyInv

\* Unless the body ends inside a character, the loop ends, each byte of a whole
\* character stays and each other byte is a question mark.
THEOREM InvalidAreReplaced == LossySpec => []InvalidReplaced
<1>1. LossyInv => InvalidReplaced
  <2>1. ASSUME LossyInv, ~EndsInside PROVE rounds <= Len(input)
    BY <2>1 DEF LossyInv, IsBytes
  <2>2. ASSUME LossyInv, Replaced
        PROVE  buf = [i \in DOMAIN input |-> IF InWhole(input, i) THEN input[i] ELSE "?"]
    BY <2>2 DEF LossyInv, IsBytes, Replaced
  <2>3. QED
    BY <2>1, <2>2 DEF LossyInv, InvalidReplaced
<1>2. LossyInv /\ [LossyNext]_lossyVars => LossyInv'
  BY ValidInv, ReplaceInv, AtEndInv, LossyStutters DEF LossyNext
<1>3. QED
  BY <1>1, <1>2, LossyStart, PTL DEF LossySpec

-----------------------------------------------------------------------------
(***************************************************************************)
(* A behaviour of PartsSpec is one of each part, which stutters where      *)
(* another part moves.                                                     *)
(***************************************************************************)
LEMMA PartsSteps ==
    ASSUME [PartsNext]_partsVars
    PROVE  /\ [BandwidthNext]_bandwidthVars /\ [RuntimeNext]_runtimeVars
           /\ [RoutingNext]_routingVars /\ [StaticNext]_staticVars
           /\ [MessageNext]_messageVars /\ [LossyNext]_lossyVars
BY DEF PartsNext, OthersStay, partsVars

LEMMA PartsAreParts ==
    PartsSpec => /\ BandwidthSpec /\ RuntimeSpec /\ RoutingSpec
                 /\ StaticSpec /\ MessageSpec /\ LossySpec
<1>1. PartsInit => /\ BandwidthInit /\ RuntimeInit /\ RoutingInit
                   /\ StaticInit /\ MessageInit /\ LossyInit
  BY DEF PartsInit
<1>2. [PartsNext]_partsVars => /\ [BandwidthNext]_bandwidthVars /\ [RuntimeNext]_runtimeVars
                               /\ [RoutingNext]_routingVars /\ [StaticNext]_staticVars
                               /\ [MessageNext]_messageVars /\ [LossyNext]_lossyVars
  BY PartsSteps
<1>3. QED
  BY <1>1, <1>2, PTL DEF PartsSpec, BandwidthSpec, RuntimeSpec, RoutingSpec, StaticSpec,
                         MessageSpec, LossySpec

\* The types of all parts: what MCParts checks is what each part is proved to
\* keep, for every value of the constants.
THEOREM PartsTypes == PartsSpec => []PartsTypeOK
<1>1. QED
  BY PartsAreParts, BandwidthTypeCorrect, RuntimeTypeCorrect, RoutingTypes, StaticTypes,
     MessageTypes, PTL DEF PartsTypeOK
=============================================================================
