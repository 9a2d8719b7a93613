----------------------------- MODULE Bandwidth -----------------------------
(***************************************************************************)
(* The bandwidth monitor of an HTTP/2 connection (bw.rs).  The readers of  *)
(* the connection's bodies count what they read; the task that drives the  *)
(* connection polls the monitor before it polls the connection, and sets   *)
(* the windows the monitor estimates (client/mod.rs, server/conn.rs).      *)
(*                                                                         *)
(* The f64 of the code are fractions here: a round trip is rtt.n / rtt.d,  *)
(* a bandwidth is fast.n / fast.d, and the constant factor 1.5 of the      *)
(* bandwidth is left out, which no comparison sees.  A round trip takes    *)
(* some time, so the code never divides by zero.  The h2 library is        *)
(* outside: it sends a ping or fails to, brings the pong or an error, and  *)
(* takes a new window or refuses it.                                       *)
(***************************************************************************)
EXTENDS Integers

CONSTANTS
    WindowLimit,     \* BDP_LIMIT
    RoundTrips,      \* times a ping may take
    DataSizes,       \* bytes a reader may read at once
    MaxBytes,        \* bound: bytes read of the connection
    MaxSamples       \* bound: pongs that come

ASSUME LimitAssumption == WindowLimit \in Nat \ {0} /\ WindowLimit % 2 = 0
ASSUME RoundTripsAssumption == RoundTrips \subseteq Nat \ {0}
ASSUME DataAssumption == DataSizes \subseteq Nat /\ MaxBytes \in Nat /\ MaxSamples \in Nat

VARIABLES
    pingSent,   \* Inner.ping_sent is some
    wire,       \* h2: the ping is nowhere, "out", answered ("pong") or failed ("broken")
    bytes,      \* Inner.bytes
    bdp,        \* Bdp.bdp
    rtt,        \* Bdp.rtt
    fast,       \* Bdp.largest_bandwidth
    window,     \* the window last given to h2, 0 before
    driven,     \* the connection's task runs
    counted,    \* history: all bytes read
    samples     \* history: pongs so far

bandwidthVars == <<pingSent, wire, bytes, bdp, rtt, fast, window, driven, counted,
                   samples>>
estimate == <<bdp, rtt, fast>>
-----------------------------------------------------------------------------
Fraction == [n : Nat, d : Nat \ {0}]

\* a <= b
AtMost(a, b) == a.n * b.d <= b.n * a.d

Lesser(a, b) == IF a <= b THEN a ELSE b

\* The moving average: rtt + (time - rtt) / 8, but the first time as it is.
Averaged(time) ==
    IF rtt.n = 0 THEN [n |-> time, d |-> 1]
                 ELSE [n |-> 7 * rtt.n + time * rtt.d, d |-> 8 * rtt.d]

BandwidthInit ==
    /\ pingSent = FALSE /\ wire = "none" /\ bytes = 0
    /\ bdp = 0 /\ rtt = [n |-> 0, d |-> 1] /\ fast = [n |-> 0, d |-> 1]
    /\ window = 0 /\ driven = TRUE
    /\ counted = 0 /\ samples = 0

\* append_read_bytes(): some body of the connection was read.
DataRead(n) ==
    /\ counted + n <= MaxBytes
    /\ bytes' = bytes + n
    /\ counted' = counted + n
    /\ UNCHANGED <<pingSent, wire, estimate, window, driven, samples>>

\* poll_window_update() without a ping outstanding: send one, or fail to.
SendPing(sent) ==
    /\ driven
    /\ ~pingSent
    /\ pingSent' = sent
    /\ wire' = IF sent THEN "out" ELSE wire
    /\ UNCHANGED <<bytes, estimate, window, driven, counted, samples>>

\* The peer answers, or the pong is an error: then the ping stays outstanding
\* (poll_window_update() returns early, every time), and nothing is sampled.
PingReturns(how) ==
    /\ wire = "out"
    /\ wire' = how
    /\ UNCHANGED <<pingSent, bytes, estimate, window, driven, counted, samples>>

\* As if every sample that is faster were taken.
EnoughAlways(sample) == TRUE

\* bytes >= self.bdp as usize * 2 / 3
Enough(sample) == sample >= (bdp * 2) \div 3

\* (bytes * 2).min(BDP_LIMIT)
Estimate(sample) == Lesser(sample * 2, WindowLimit)

\* The pong is taken: the bytes counted since the pong before it are the sample,
\* those read before the ping was sent included.
TakeSample ==
    /\ pingSent' = FALSE
    /\ wire' = "none"
    /\ bytes' = 0
    /\ samples' = samples + 1

\* What h2 does with a new window: set it, or end the connection's task.
GiveWindow(accepted) ==
    /\ window' = IF accepted THEN bdp' ELSE window
    /\ driven' = accepted

Pong == driven /\ pingSent /\ wire = "pong" /\ samples < MaxSamples

Sampled(time) == [n |-> bytes * Averaged(time).d, d |-> Averaged(time).n]

\* Bdp::update() at its limit: nothing is measured any more.
SampleAtLimit ==
    /\ Pong
    /\ bdp = WindowLimit
    /\ TakeSample
    /\ UNCHANGED <<estimate, window, driven, counted>>

\* The bandwidth did not increase.
SampleSlower(time) ==
    /\ Pong
    /\ bdp # WindowLimit
    /\ AtMost(Sampled(time), fast)
    /\ TakeSample
    /\ rtt' = Averaged(time)
    /\ UNCHANGED <<bdp, fast, window, driven, counted>>

\* It did, but with fewer bytes than the window would let through.
SampleSmall(time) ==
    /\ Pong
    /\ bdp # WindowLimit
    /\ ~AtMost(Sampled(time), fast)
    /\ ~Enough(bytes)
    /\ TakeSample
    /\ rtt' = Averaged(time)
    /\ fast' = Sampled(time)
    /\ UNCHANGED <<bdp, window, driven, counted>>

\* A new estimate, which the connection's task gives to h2.
SampleRaises(time, accepted) ==
    /\ Pong
    /\ bdp # WindowLimit
    /\ ~AtMost(Sampled(time), fast)
    /\ Enough(bytes)
    /\ TakeSample
    /\ rtt' = Averaged(time)
    /\ fast' = Sampled(time)
    /\ bdp' = Estimate(bytes)
    /\ GiveWindow(accepted)
    /\ UNCHANGED counted

BandwidthNext ==
    \/ \E n \in DataSizes : DataRead(n)
    \/ \E sent \in BOOLEAN : SendPing(sent)
    \/ \E how \in {"pong", "broken"} : PingReturns(how)
    \/ SampleAtLimit
    \/ \E time \in RoundTrips :
          \/ SampleSlower(time)
          \/ SampleSmall(time)
          \/ \E accepted \in BOOLEAN : SampleRaises(time, accepted)

BandwidthSpec == BandwidthInit /\ [][BandwidthNext]_bandwidthVars
-----------------------------------------------------------------------------
\* Types; the estimate is even and within the limit, and the window given to
\* h2 is the estimate unless h2 refused it and the connection ended.
BandwidthTypeOK ==
    /\ pingSent \in BOOLEAN /\ driven \in BOOLEAN
    /\ wire \in {"none", "out", "pong", "broken"}
    /\ rtt \in Fraction /\ fast \in Fraction
    /\ bytes \in Nat /\ counted \in Nat /\ samples \in Nat
    /\ bdp \in 0 .. WindowLimit /\ bdp % 2 = 0
    /\ window \in 0 .. WindowLimit
    /\ driven => window = bdp

\* Once estimated, a window never shrinks: a sample raises the estimate only
\* when it is at least two thirds of it, and then to twice the sample
\* (bw.rs:167-174).  The first estimate may still be below the window that the
\* connection started with.
WindowNeverShrinks == [][window # 0 => window' >= window]_bandwidthVars
=============================================================================
