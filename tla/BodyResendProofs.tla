-------------------------- MODULE BodyResendProofs --------------------------
(***************************************************************************)
(* Safety of BodyResend for a body, a buffer, reads and counts of          *)
(* redirects and retries of any size.  The invariant says where in the     *)
(* body the buffer, the body that is handed around and the wire stand.     *)
(***************************************************************************)
EXTENDS BodyResend, SequenceTheorems, TLAPS

\* The buffer holds the start of the body, and a body that follows it goes on
\* where the buffer ends.
HolderInv ==
    /\ vec = Run(0, Len(vec))
    /\ ~retains => vec = <<>>
    /\ ~body.orig => body.read = Length
    /\ ~returned.orig => returned.read = Length
    /\ body.orig /\ retains => body.read = Len(vec)
    /\ returned.orig /\ retains => returned.read = Len(vec)
    /\ pc \in {"start", "sending"} /\ body.orig => ~returned.orig

\* The last byte sent is the one before the next to be sent.
WireInv ==
    /\ SentInOrder
    /\ pc = "start" => wire = <<>>
    /\ pc = "sending" /\ wire # <<>> /\ useBuf => wire[Len(wire)] = readIdx
    /\ pc = "sending" /\ wire # <<>> /\ ~useBuf /\ body.orig => wire[Len(wire)] = body.read

ClearInv ==
    cleared => wire = <<>> /\ vec = <<>> /\ ~body.orig /\ ~returned.orig

\* Without a retry and before a 301 or 302 nothing of the body is lost.
StartWhole ==
    /\ readIdx = 0
    /\ body.orig \/ Length = 0
    /\ redirects = 0 => body.read = 0 /\ vec = <<>>

SendingWhole ==
    /\ body.orig \/ Length = 0
    /\ kept /\ useBuf => wire = Run(0, readIdx)
    /\ kept /\ useBuf /\ ~retains => body.read = 0
    /\ kept /\ ~useBuf => wire = Run(0, body.read)

EndWhole ==
    /\ returned.orig \/ Length = 0
    /\ kept /\ ~early => wire = Run(0, Length)

WholeInv ==
    retries = 0 /\ ~cleared =>
        /\ pc = "start" => StartWhole
        /\ pc = "sending" => SendingWhole
        /\ pc \in {"ending", "awaiting"} => EndWhole

IInv == TypeOK /\ HolderInv /\ WireInv /\ ClearInv /\ WholeInv
-----------------------------------------------------------------------------
(***************************************************************************)
(* Runs of bytes.                                                          *)
(***************************************************************************)
LEMMA RunFacts ==
    ASSUME NEW a \in Nat, NEW b \in Nat, a <= b, b <= Length
    PROVE  /\ Run(a, b) \in Seq(Bytes)
           /\ Len(Run(a, b)) = b - a
           /\ \A i \in 1 .. b - a : Run(a, b)[i] = a + i
<1>1. b - a \in Nat /\ \A i \in 1 .. b - a : a + i \in Bytes
  BY LengthAssumption DEF Bytes
<1>2. Run(a, b) \in [1 .. b - a -> Bytes]
  BY <1>1 DEF Run
<1>3. QED
  BY <1>1, <1>2 DEF Run

\* The same with the number of bytes.
LEMMA RunOf ==
    ASSUME NEW a \in Nat, NEW n \in Nat, a + n <= Length
    PROVE  /\ Run(a, a + n) \in Seq(Bytes)
           /\ Len(Run(a, a + n)) = n
           /\ \A i \in 1 .. n : Run(a, a + n)[i] = a + i
<1>1. a + n \in Nat /\ a <= a + n /\ (a + n) - a = n
  OBVIOUS
<1>2. /\ Run(a, a + n) \in Seq(Bytes)
      /\ Len(Run(a, a + n)) = (a + n) - a
      /\ \A i \in 1 .. (a + n) - a : Run(a, a + n)[i] = a + i
  BY <1>1, RunFacts
<1>3. QED
  BY <1>1, <1>2

\* A sequence is the run that it looks like.
LEMMA RunIs ==
    ASSUME NEW a \in Nat, NEW n \in Nat, a + n <= Length, NEW s \in Seq(Bytes),
           Len(s) = n, \A i \in 1 .. n : s[i] = a + i
    PROVE  s = Run(a, a + n)
BY RunOf, SeqEqual

\* What follows s when it is sent is a run: the elements of the whole.
LEMMA ConcatRun ==
    ASSUME NEW s \in Seq(Bytes), NEW e \in Nat, NEW n \in Nat, e + n <= Length
    PROVE  LET t == s \o Run(e, e + n)
           IN  /\ t \in Seq(Bytes) /\ Len(t) = Len(s) + n
               /\ \A i \in 1 .. Len(s) : t[i] = s[i]
               /\ \A i \in 1 .. n : t[Len(s) + i] = e + i
<1> DEFINE r == Run(e, e + n)
<1>1. r \in Seq(Bytes) /\ Len(r) = n /\ \A i \in 1 .. n : r[i] = e + i
  BY RunOf
<1> HIDE DEF r
<1>2. /\ s \o r \in Seq(Bytes) /\ Len(s \o r) = Len(s) + n
      /\ \A i \in 1 .. Len(s) : (s \o r)[i] = s[i]
      /\ \A i \in 1 .. n : (s \o r)[Len(s) + i] = r[i]
  <2>1. s \o r \in Seq(Bytes) /\ Len(s \o r) = Len(s) + n
    BY <1>1, ConcatProperties
  <2>2. \A i \in 1 .. Len(s) + Len(r) : (s \o r)[i] =
              IF i <= Len(s) THEN s[i] ELSE r[i - Len(s)]
    BY <1>1, ConcatProperties
  <2>3. ASSUME NEW i \in 1 .. n PROVE (s \o r)[Len(s) + i] = r[i]
    <3>1. Len(s) + i \in 1 .. Len(s) + Len(r) /\ ~(Len(s) + i <= Len(s))
          /\ (Len(s) + i) - Len(s) = i
      BY <1>1
    <3>2. QED
      BY <2>2, <3>1
  <2>4. QED
    BY <1>1, <2>1, <2>2, <2>3
<1>3. QED
  BY <1>1, <1>2 DEF r

\* The runs from the start of the body.
LEMMA PrefixFacts ==
    ASSUME NEW k \in Nat, k <= Length
    PROVE  /\ Run(0, k) \in Seq(Bytes) /\ Len(Run(0, k)) = k
           /\ \A i \in 1 .. k : Run(0, k)[i] = i
           /\ \A s \in Seq(Bytes) :
                 Len(s) = k /\ (\A i \in 1 .. k : s[i] = i) => s = Run(0, k)
<1>1. /\ Run(0, k) \in Seq(Bytes)
      /\ Len(Run(0, k)) = k - 0
      /\ \A i \in 1 .. k - 0 : Run(0, k)[i] = 0 + i
  <2>1. 0 \in Nat /\ 0 <= k
    OBVIOUS
  <2>2. QED
    BY <2>1, RunFacts, Zenon
<1>2. k - 0 = k /\ \A i \in 1 .. k : 0 + i = i
  OBVIOUS
<1>3. Run(0, k) \in Seq(Bytes) /\ Len(Run(0, k)) = k /\ \A i \in 1 .. k : Run(0, k)[i] = i
  BY <1>1, <1>2
<1>4. ASSUME NEW s \in Seq(Bytes), Len(s) = k, \A i \in 1 .. k : s[i] = i
      PROVE  s = Run(0, k)
  BY <1>3, <1>4, SeqEqual
<1>5. QED
  BY <1>3, <1>4

LEMMA RunConcat ==
    ASSUME NEW e \in Nat, NEW n \in Nat, e + n <= Length
    PROVE  Run(0, e) \o Run(e, e + n) = Run(0, e + n)
<1> DEFINE s == Run(0, e)
           t == s \o Run(e, e + n)
<1>1. e <= Length /\ e + n \in Nat
  BY LengthAssumption
<1>2. s \in Seq(Bytes) /\ Len(s) = e /\ \A i \in 1 .. e : s[i] = i
  BY <1>1, PrefixFacts
<1> HIDE DEF s
<1>3. /\ t \in Seq(Bytes) /\ Len(t) = Len(s) + n
      /\ \A i \in 1 .. Len(s) : t[i] = s[i]
      /\ \A i \in 1 .. n : t[Len(s) + i] = e + i
  BY <1>2, ConcatRun
<1> HIDE DEF t
<1>4. ASSUME NEW i \in 1 .. e + n PROVE t[i] = i
  <2>1. CASE i <= e
    BY <1>2, <1>3, <2>1
  <2>2. CASE i > e
    <3>1. i - e \in 1 .. n /\ Len(s) + (i - e) = i
      BY <1>2, <2>2
    <3>2. t[i] = e + (i - e)
      BY <1>3, <3>1
    <3>3. QED
      BY <3>2
  <2>3. QED
    BY <2>1, <2>2
<1>5. Len(t) = e + n
  BY <1>2, <1>3
<1>6. t = Run(0, e + n)
  BY <1>1, <1>3, <1>4, <1>5, PrefixFacts
<1>7. QED
  BY <1>6 DEF s, t

LEMMA RunSub ==
    ASSUME NEW k \in Nat, NEW r \in Nat, NEW n \in Nat \ {0}, r + n <= k, k <= Length
    PROVE  SubSeq(Run(0, k), r + 1, r + n) = Run(r, r + n)
<1> DEFINE u == Run(0, k)
           s == SubSeq(u, r + 1, r + n)
<1>1. u \in Seq(Bytes) /\ Len(u) = k /\ \A i \in 1 .. k : u[i] = i
  BY PrefixFacts
<1> HIDE DEF u
<1>2. \A i \in r + 1 .. r + n : u[i] \in Bytes
  BY <1>1
<1>3. /\ s \in Seq(Bytes)
      /\ Len(s) = IF r + 1 <= r + n THEN (r + n) - (r + 1) + 1 ELSE 0
      /\ \A i \in 1 .. (r + n) - (r + 1) + 1 : s[i] = u[(r + 1) + i - 1]
  BY <1>2, SubSeqProperties
<1> HIDE DEF s
<1>4. Len(s) = n /\ \A i \in 1 .. n : s[i] = u[(r + 1) + i - 1]
  BY <1>3
<1>5. ASSUME NEW i \in 1 .. n PROVE s[i] = r + i
  <2>1. (r + 1) + i - 1 = r + i /\ r + i \in 1 .. k
    OBVIOUS
  <2>2. QED
    BY <1>1, <1>4, <2>1
<1>6. s = Run(r, r + n)
  <2>1. n \in Nat /\ r + n <= Length
    BY LengthAssumption
  <2>2. QED
    BY <1>3, <1>4, <1>5, <2>1, RunIs
<1>7. QED
  BY <1>6 DEF s, u

InOrder(s) == \A i \in 1 .. Len(s) - 1 : s[i + 1] = s[i] + 1
EndsAt(s, e) == s # <<>> => s[Len(s)] = e

\* What is sent after s, when it begins where s ends.
LEMMA SendFacts ==
    ASSUME NEW s \in Seq(Bytes), NEW e \in Nat, NEW n \in Nat \ {0}, e + n <= Length,
           InOrder(s), EndsAt(s, e),
           NEW t, t = s \o Run(e, e + n)
    PROVE  t \in Seq(Bytes) /\ t # <<>> /\ t[Len(t)] = e + n /\ InOrder(t)
<1>1. /\ t \in Seq(Bytes) /\ Len(t) = Len(s) + n
      /\ \A i \in 1 .. Len(s) : t[i] = s[i]
      /\ \A i \in 1 .. n : t[Len(s) + i] = e + i
  <2>1. LET u == s \o Run(e, e + n)
        IN  /\ u \in Seq(Bytes) /\ Len(u) = Len(s) + n
            /\ \A i \in 1 .. Len(s) : u[i] = s[i]
            /\ \A i \in 1 .. n : u[Len(s) + i] = e + i
    <3>1. n \in Nat
      OBVIOUS
    <3>2. QED
      BY <3>1, ConcatRun
  <2>2. QED
    BY <2>1
<1>2. t # <<>> /\ t[Len(t)] = e + n
  <2>1. n \in 1 .. n /\ Len(t) = Len(s) + n /\ Len(s) \in Nat
    BY <1>1
  <2>2. t[Len(s) + n] = e + n /\ Len(t) # 0
    BY <1>1, <2>1
  <2>3. QED
    BY <1>1, <2>1, <2>2
<1>3. ASSUME NEW i \in 1 .. Len(t) - 1 PROVE t[i + 1] = t[i] + 1
  <2>1. CASE i < Len(s)
    BY <1>1, <2>1 DEF InOrder
  <2>2. CASE i = Len(s)
    <3>1. s # <<>> /\ t[i] = e
      BY <1>1, <2>2 DEF EndsAt
    <3>2. 1 \in 1 .. n /\ t[Len(s) + 1] = e + 1
      BY <1>1
    <3>3. QED
      BY <2>2, <3>1, <3>2
  <2>3. CASE i > Len(s)
    <3>1. i - Len(s) \in 1 .. n /\ Len(s) + (i - Len(s)) = i
      BY <1>1, <2>3
    <3>2. i + 1 - Len(s) \in 1 .. n /\ Len(s) + (i + 1 - Len(s)) = i + 1
      BY <1>1, <2>3
    <3>3. t[i] = e + (i - Len(s)) /\ t[i + 1] = e + (i + 1 - Len(s))
      BY <1>1, <3>1, <3>2
    <3>4. QED
      BY <3>3
  <2>4. QED
    BY <2>1, <2>2, <2>3
<1>4. QED
  BY <1>1, <1>2, <1>3 DEF InOrder
-----------------------------------------------------------------------------
(***************************************************************************)
(* The effect of a read on the buffer and the body.                        *)
(***************************************************************************)
LEMMA TypeFacts ==
    ASSUME TypeOK
    PROVE  /\ body.orig \in BOOLEAN /\ body.read \in 0 .. Length /\ Left \in Nat
           /\ returned.orig \in BOOLEAN /\ returned.read \in 0 .. Length
           /\ Len(vec) \in Nat /\ readIdx \in Nat /\ BufferLeft \in Nat
           /\ EmptyBody \in Body /\ ~EmptyBody.orig /\ EmptyBody.read = Length
BY LengthAssumption DEF TypeOK, Body, Left, BufferLeft, EmptyBody

LEMMA EmptyRun == <<>> \in Seq(Bytes) /\ Len(<<>>) = 0 /\ Run(0, 0) = <<>>
<1>1. <<>> \in Seq(Bytes) /\ Len(<<>>) = 0
  OBVIOUS
<1>2. QED
  BY <1>1, PrefixFacts, LengthAssumption

LEMMA TakeNewFacts ==
    ASSUME IInv, NEW n \in 1 .. Chunk, TakeNew(n)
    PROVE  /\ n \in Nat \ {0} /\ body.orig /\ body.read \in Nat /\ body.read + n <= Length
           /\ body' = [orig |-> TRUE, read |-> body.read + n]
           /\ body' \in Body /\ body'.orig /\ body'.read = body.read + n
           /\ cap' = cap /\ vec' \in Seq(Bytes) /\ Len(vec') <= cap'
           /\ retains' \in BOOLEAN /\ readIdx' \in 0 .. Len(vec')
           /\ vec' = Run(0, Len(vec'))
           /\ ~retains' => vec' = <<>>
           /\ retains' => retains /\ Len(vec') = body.read + n
           /\ ~useBuf'
<1>1. /\ n \in Nat \ {0} /\ n <= Left /\ body \in Body
      /\ body.read \in 0 .. Length /\ Left \in Nat
  BY LengthAssumption, TypeFacts DEF TakeNew, IInv, TypeOK
<1>2. body.orig /\ body.read + n <= Length /\ body.read \in Nat /\ n \in Nat
  <2>1. Left = Length - body.read
    BY DEF Left
  <2>2. QED
    BY <1>1, <2>1, LengthAssumption DEF IInv, HolderInv
<1>3. body.orig = TRUE
  BY <1>1, <1>2 DEF Body
<1>4. body' = [orig |-> TRUE, read |-> body.read + n] /\ body.read + n \in 0 .. Length
  <2>1. PICK e \in 0 .. Length : body = [orig |-> TRUE, read |-> e] /\ e = body.read
    BY <1>1, <1>3 DEF Body
  <2>2. body' = [body EXCEPT !.read = e + n]
    BY <2>1 DEF TakeNew
  <2>3. body' = [orig |-> TRUE, read |-> e + n]
    BY <2>1, <2>2
  <2>4. QED
    BY <1>2, <2>1, <2>3, LengthAssumption
<1>5. body' \in Body /\ body'.orig /\ body'.read = body.read + n
  BY <1>4 DEF Body
<1> DEFINE r == Run(body.read, body.read + n)
<1>6. r \in Seq(Bytes) /\ Len(r) = n
  BY <1>1, <1>2, RunOf
<1>7. BufAppend(r)
  BY DEF TakeNew
<1>8. /\ vec \in Seq(Bytes) /\ Len(vec) \in Nat /\ cap \in Nat /\ readIdx \in 0 .. Len(vec)
      /\ retains \in BOOLEAN /\ vec = Run(0, Len(vec)) /\ (retains => Len(vec) = body.read)
  BY <1>2, TypeFacts DEF IInv, TypeOK, HolderInv
<1>8a. ~useBuf'
  BY DEF TakeNew
<1>9. CASE retains /\ n <= cap - Len(vec)
  <2>1. /\ retains' /\ vec' = vec \o r /\ readIdx' = readIdx /\ cap' = cap
        /\ retains' \in BOOLEAN
    BY <1>6, <1>7, <1>9 DEF BufAppend
  <2>2. vec' = Run(0, body.read + n)
    <3>1. vec = Run(0, body.read)
      BY <1>8, <1>9
    <3>2. QED
      BY <1>1, <1>2, <2>1, <3>1, RunConcat
  <2>3. vec' \in Seq(Bytes) /\ Len(vec') = body.read + n
    BY <1>1, <1>2, <2>2, PrefixFacts
  <2>4. Len(vec') <= cap' /\ readIdx' \in 0 .. Len(vec') /\ vec' = Run(0, Len(vec'))
    BY <1>1, <1>8, <1>9, <2>1, <2>2, <2>3
  <2>5. QED
    BY <1>1, <1>2, <1>4, <1>5, <1>9, <1>8a, <2>1, <2>3, <2>4
<1>10. CASE ~(retains /\ n <= cap - Len(vec))
  <2>1. ~retains' /\ vec' = <<>> /\ readIdx' = 0 /\ cap' = cap /\ retains' \in BOOLEAN
    BY <1>6, <1>7, <1>10 DEF BufAppend
  <2>2. /\ vec' \in Seq(Bytes) /\ Len(vec') = 0 /\ readIdx' \in 0 .. Len(vec')
        /\ Len(vec') <= cap' /\ vec' = Run(0, Len(vec'))
    BY <1>8, <2>1, EmptyRun
  <2>3. QED
    BY <1>1, <1>2, <1>4, <1>5, <1>8a, <2>1, <2>2
<1>11. QED
  BY <1>9, <1>10

LEMMA TakeBufferedFacts ==
    ASSUME IInv, NEW n \in 1 .. Chunk, TakeBuffered(n)
    PROVE  /\ n \in Nat \ {0} /\ readIdx + n <= Len(vec) /\ Len(vec) \in Nat
           /\ Len(vec) <= Length /\ readIdx' = readIdx + n
           /\ SubSeq(vec, readIdx + 1, readIdx + n) = Run(readIdx, readIdx + n)
<1>1. n \in Nat \ {0} /\ n <= BufferLeft /\ readIdx' = readIdx + n
  BY LengthAssumption DEF TakeBuffered
<1>2. readIdx \in Nat /\ Len(vec) \in Nat /\ vec \in Seq(Bytes) /\ vec = Run(0, Len(vec))
  BY TypeFacts DEF IInv, TypeOK, HolderInv
<1>3. readIdx + n <= Len(vec)
  BY <1>1, <1>2 DEF BufferLeft
<1>4. Len(vec) <= Length
  <2>1. CASE Len(vec) = 0
    BY <2>1, LengthAssumption
  <2>2. CASE Len(vec) # 0
    <3>1. Len(vec) \in 1 .. Len(vec)
      BY <1>2, <2>2
    <3>2. vec[Len(vec)] \in Bytes
      BY <1>2, <3>1
    <3>3. Run(0, Len(vec))[Len(vec)] = Len(vec)
      BY <1>2, <3>1 DEF Run
    <3>4. QED
      BY <1>2, <3>2, <3>3 DEF Bytes
  <2>3. QED
    BY <2>1, <2>2
<1>5. SubSeq(vec, readIdx + 1, readIdx + n) = Run(readIdx, readIdx + n)
  <2>1. SubSeq(Run(0, Len(vec)), readIdx + 1, readIdx + n) = Run(readIdx, readIdx + n)
    BY <1>1, <1>2, <1>3, <1>4, RunSub
  <2>2. QED
    BY <1>2, <2>1
<1>6. QED
  BY <1>1, <1>2, <1>3, <1>4, <1>5
-----------------------------------------------------------------------------
(***************************************************************************)
(* Each action preserves the invariant.                                    *)
(***************************************************************************)
LEMMA InitInv == Init => IInv
<1> SUFFICES ASSUME Init PROVE IInv
  OBVIOUS
<1>1. body \in Body /\ body.orig /\ body.read = 0 /\ returned = EmptyBody
  BY LengthAssumption DEF Init, Body
<1>2. EmptyBody \in Body /\ ~EmptyBody.orig /\ EmptyBody.read = Length
  BY LengthAssumption DEF EmptyBody, Body
<1>3. TypeOK
  <2>1. /\ sized \in BOOLEAN /\ retains \in BOOLEAN /\ useBuf \in BOOLEAN
        /\ early \in BOOLEAN /\ cleared \in BOOLEAN /\ kept \in BOOLEAN
    <3>1. (cap > 0) \in BOOLEAN
      OBVIOUS
    <3>2. QED
      BY <3>1, Zenon DEF Init
  <2>2. cap \in Nat /\ vec \in Seq(Bytes) /\ Len(vec) <= cap /\ readIdx \in 0 .. Len(vec)
    BY EmptyRun, CapacityAssumption DEF Init
  <2>3. wire \in Seq(Bytes) /\ pc \in PC
    BY EmptyRun DEF Init, PC
  <2>4. redirects \in 0 .. MaxRedirects /\ retries \in 0 .. MaxRetries
    BY BoundAssumption DEF Init
  <2>5. QED
    BY <1>1, <1>2, <2>1, <2>2, <2>3, <2>4 DEF TypeOK
<1>4. HolderInv
  BY <1>1, <1>2, EmptyRun DEF Init, HolderInv
<1>5. WireInv /\ ClearInv
  BY EmptyRun DEF Init, WireInv, SentInOrder, ClearInv
<1>6. WholeInv
  BY <1>1 DEF Init, WholeInv, StartWhole
<1>7. QED
  BY <1>3, <1>4, <1>5, <1>6 DEF IInv

LEMMA BeginStep == IInv /\ Begin => IInv'
<1> SUFFICES ASSUME IInv, Begin PROVE IInv'
  OBVIOUS
<1>1. /\ UNCHANGED <<sized, body, cap, retains, vec, readIdx, returned, wire>>
      /\ UNCHANGED <<redirects, retries, cleared>>
      /\ pc = "start" /\ pc' \in {"awaiting", "sending"} /\ useBuf' /\ ~early'
      /\ useBuf' \in BOOLEAN /\ early' \in BOOLEAN /\ kept' = (retains \/ redirects = 0)
      /\ wire = <<>>
  BY DEF Begin, bufVars, countVars, IInv, WireInv
<1>2. TypeOK'
  BY <1>1 DEF IInv, TypeOK, PC
<1>3. HolderInv'
  BY <1>1 DEF IInv, HolderInv
<1>4. WireInv' /\ ClearInv'
  BY <1>1 DEF IInv, WireInv, SentInOrder, ClearInv
<1>5. WholeInv'
  <2> SUFFICES ASSUME retries = 0, ~cleared
               PROVE  /\ pc' = "sending" => SendingWhole'
                      /\ pc' = "awaiting" => EndWhole'
    BY <1>1 DEF WholeInv
  <2>1. StartWhole
    BY <1>1 DEF IInv, WholeInv
  <2>2. SendingWhole'
    BY <1>1, <2>1, EmptyRun DEF StartWhole, SendingWhole
  <2>3. ASSUME pc' = "awaiting" PROVE EndWhole'
    <3>1. DefinitelyNoBody
      BY <1>1, <2>3 DEF Begin
    <3>2. Length = 0
      BY <2>1, <3>1 DEF DefinitelyNoBody, StartWhole
    <3>3. QED
      BY <1>1, <3>2, EmptyRun DEF EndWhole
  <2>4. QED
    BY <2>2, <2>3
<1>6. QED
  BY <1>2, <1>3, <1>4, <1>5 DEF IInv

\* The loop is left in order or for an early response.
LEMMA EndLoopStep == IInv /\ (BodyEnds \/ EarlyResponse) => IInv'
<1> SUFFICES ASSUME IInv, BodyEnds \/ EarlyResponse PROVE IInv'
  OBVIOUS
<1>1. /\ UNCHANGED <<sized, body, cap, retains, vec, readIdx, useBuf, wire, kept>>
      /\ UNCHANGED <<redirects, retries, cleared>>
      /\ pc = "sending" /\ pc' = "ending" /\ returned' = body /\ early' \in BOOLEAN
  BY DEF BodyEnds, EarlyResponse, EndLoop, bufVars, countVars
<1>2. TypeOK'
  BY <1>1 DEF IInv, TypeOK, PC
<1>3. HolderInv'
  BY <1>1 DEF IInv, HolderInv
<1>4. WireInv' /\ ClearInv'
  BY <1>1 DEF IInv, WireInv, SentInOrder, ClearInv
<1>5. WholeInv'
  <2> SUFFICES ASSUME retries = 0, ~cleared PROVE EndWhole'
    BY <1>1 DEF WholeInv
  <2>1. SendingWhole
    BY <1>1 DEF IInv, WholeInv
  <2>2. ASSUME kept, ~early' PROVE wire = Run(0, Length)
    <3>1. BodyEnds
      BY <2>2 DEF EarlyResponse, EndLoop
    <3>2. body.read = Length
      BY <3>1, TypeFacts, LengthAssumption DEF BodyEnds, Left, IInv
    <3>3. CASE ~useBuf
      BY <2>1, <2>2, <3>2, <3>3 DEF SendingWhole
    <3>4. CASE useBuf
      <4>1. wire = Run(0, readIdx) /\ readIdx = Len(vec)
        BY <2>1, <2>2, <3>1, <3>4, TypeFacts DEF SendingWhole, BodyEnds, BufferLeft, IInv
      <4>2. CASE body.orig /\ retains
        BY <3>2, <4>1, <4>2 DEF IInv, HolderInv
      <4>3. CASE ~retains
        <5>1. Len(vec) = 0 /\ body.read = 0
          BY <2>1, <2>2, <3>4, <4>3, EmptyRun DEF SendingWhole, IInv, HolderInv
        <5>2. QED
          BY <3>2, <4>1, <5>1
      <4>4. CASE ~body.orig
        <5>1. Length = 0
          BY <2>1, <4>4 DEF SendingWhole
        <5>2. wire \in Seq(Bytes) /\ Bytes = {}
          BY <5>1 DEF IInv, TypeOK, Bytes
        <5>3. wire = <<>>
          BY <5>2
        <5>4. QED
          BY <5>1, <5>3, EmptyRun
      <4>5. QED
        BY <4>2, <4>3, <4>4
    <3>5. QED
      BY <3>3, <3>4
  <2>3. QED
    BY <1>1, <2>1, <2>2 DEF EndWhole, SendingWhole
<1>6. QED
  BY <1>2, <1>3, <1>4, <1>5 DEF IInv

\* Steps that only move where the call awaits.
LEMMA MoveStep == IInv /\ (EndSent \/ Fail \/ Finish) => IInv'
<1> SUFFICES ASSUME IInv, EndSent \/ Fail \/ Finish PROVE IInv'
  OBVIOUS
<1>1. /\ UNCHANGED <<sized, body, cap, retains, vec, readIdx, returned, useBuf, early, wire>>
      /\ UNCHANGED <<redirects, retries, cleared, kept>>
      /\ \/ pc = "ending" /\ pc' = "awaiting"
         \/ pc' \in {"failed", "done"}
  BY DEF EndSent, Fail, Finish, bufVars, countVars
<1>2. TypeOK'
  BY <1>1 DEF IInv, TypeOK, PC
<1>3. HolderInv'
  BY <1>1 DEF IInv, HolderInv
<1>4. WireInv' /\ ClearInv'
  BY <1>1 DEF IInv, WireInv, SentInOrder, ClearInv
<1>5. WholeInv'
  BY <1>1 DEF IInv, WholeInv, EndWhole
<1>6. QED
  BY <1>2, <1>3, <1>4, <1>5 DEF IInv

LEMMA SendBufferedStep ==
    ASSUME IInv, NEW n \in 1 .. Chunk, SendBuffered(n)
    PROVE  IInv'
<1>1. /\ UNCHANGED <<sized, body, cap, retains, vec, returned, useBuf, early, pc, kept>>
      /\ UNCHANGED <<redirects, retries, cleared>>
      /\ pc = "sending" /\ useBuf /\ TakeBuffered(n)
  BY DEF SendBuffered, TakeBuffered, countVars
<1>2. /\ n \in Nat \ {0} /\ n \in Nat /\ readIdx \in Nat /\ readIdx + n \in 0 .. Len(vec)
      /\ readIdx' = readIdx + n /\ readIdx + n <= Length
      /\ wire' = wire \o Run(readIdx, readIdx + n)
  <2>1. readIdx \in Nat
    BY TypeFacts DEF IInv
  <2>2. /\ n \in Nat \ {0} /\ readIdx + n <= Len(vec) /\ Len(vec) \in Nat
        /\ Len(vec) <= Length /\ readIdx' = readIdx + n
        /\ SubSeq(vec, readIdx + 1, readIdx + n) = Run(readIdx, readIdx + n)
    BY <1>1, TakeBufferedFacts
  <2>3. n \in Nat /\ readIdx + n \in 0 .. Len(vec) /\ readIdx + n <= Length
    BY <2>1, <2>2, LengthAssumption
  <2>4. wire' = wire \o Run(readIdx, readIdx + n)
    BY <2>2 DEF SendBuffered
  <2>5. QED
    BY <2>1, <2>2, <2>3, <2>4
<1>3. wire \in Seq(Bytes) /\ InOrder(wire) /\ EndsAt(wire, readIdx)
  BY <1>1 DEF IInv, TypeOK, WireInv, SentInOrder, InOrder, EndsAt
<1>4. wire' \in Seq(Bytes) /\ wire'[Len(wire')] = readIdx' /\ InOrder(wire')
  <2>1. wire' \in Seq(Bytes) /\ wire'[Len(wire')] = readIdx + n /\ InOrder(wire')
    BY <1>2, <1>3, SendFacts
  <2>2. QED
    BY <1>2, <2>1
<1>5. TypeOK'
  BY <1>1, <1>2, <1>4 DEF IInv, TypeOK
<1>6. HolderInv'
  BY <1>1 DEF IInv, HolderInv
<1>7. WireInv'
  BY <1>1, <1>4 DEF WireInv, SentInOrder, InOrder
<1>8. ~cleared
  BY <1>2, EmptyRun DEF IInv, ClearInv
<1>9. WholeInv'
  <2> SUFFICES ASSUME retries = 0 PROVE SendingWhole'
    BY <1>1 DEF WholeInv
  <2>1. SendingWhole
    BY <1>1, <1>8 DEF IInv, WholeInv
  <2>2. Run(0, readIdx) \o Run(readIdx, readIdx + n) = Run(0, readIdx + n)
    BY <1>2, RunConcat
  <2>3. QED
    BY <1>1, <1>2, <2>1, <2>2 DEF SendingWhole
<1>10. QED
  BY <1>1, <1>5, <1>6, <1>7, <1>8, <1>9 DEF IInv, ClearInv

LEMMA SendNewStep ==
    ASSUME IInv, NEW n \in 1 .. Chunk, SendNew(n)
    PROVE  IInv'
<1>1. /\ UNCHANGED <<sized, returned, early, pc, redirects, retries, cleared, kept>>
      /\ pc = "sending" /\ TakeNew(n) /\ (useBuf => readIdx = Len(vec))
      /\ wire' = wire \o Run(body.read, body.read + n)
  BY TypeFacts DEF SendNew, TakeNew, countVars, BufferLeft, IInv
<1>2. /\ n \in Nat \ {0} /\ n \in Nat /\ body.orig /\ body.read \in Nat
      /\ body.read + n <= Length
      /\ body' \in Body /\ body'.orig /\ body'.read = body.read + n /\ ~useBuf'
  BY <1>1, TakeNewFacts
<1>3. /\ cap' = cap /\ vec' \in Seq(Bytes) /\ Len(vec') <= cap'
      /\ retains' \in BOOLEAN /\ readIdx' \in 0 .. Len(vec')
      /\ vec' = Run(0, Len(vec'))
      /\ ~retains' => vec' = <<>>
      /\ retains' => retains /\ Len(vec') = body.read + n
  BY <1>1, TakeNewFacts
<1>4. EndsAt(wire, body.read)
  <2>1. CASE ~useBuf
    BY <1>1, <1>2, <2>1 DEF IInv, EndsAt, WireInv
  <2>2. CASE useBuf /\ retains
    BY <1>1, <1>2, <2>2 DEF IInv, EndsAt, WireInv, HolderInv
  <2>3. CASE useBuf /\ ~retains
    <3>1. readIdx = 0
      BY <1>1, <2>3, EmptyRun DEF IInv, HolderInv
    <3>2. wire # <<>> => wire[Len(wire)] \in Bytes
      BY DEF IInv, TypeOK
    <3>3. wire # <<>> => wire[Len(wire)] = 0
      BY <1>1, <2>3, <3>1 DEF IInv, WireInv
    <3>4. QED
      BY <3>2, <3>3 DEF Bytes, EndsAt
  <2>4. QED
    BY <2>1, <2>2, <2>3
<1>5. wire \in Seq(Bytes) /\ InOrder(wire)
  BY DEF IInv, TypeOK, WireInv, SentInOrder, InOrder
<1>6. wire' \in Seq(Bytes) /\ wire'[Len(wire')] = body'.read /\ InOrder(wire')
  <2>1. wire' \in Seq(Bytes) /\ wire'[Len(wire')] = body.read + n /\ InOrder(wire')
    <3>1. PICK e \in Nat : e = body.read
      BY <1>2
    <3>2. /\ n \in Nat \ {0} /\ e + n <= Length
          /\ wire' = wire \o Run(e, e + n) /\ EndsAt(wire, e)
      BY <1>1, <1>2, <1>4, <3>1
    <3>3. wire' \in Seq(Bytes) /\ wire'[Len(wire')] = e + n /\ InOrder(wire')
      BY <1>5, <3>2, SendFacts
    <3>4. QED
      BY <3>1, <3>3
  <2>2. QED
    BY <1>2, <2>1
<1>7. TypeOK'
  <2>1. useBuf' \in BOOLEAN
    BY <1>1 DEF TakeNew
  <2>2. QED
    BY <1>1, <1>2, <1>3, <1>6, <2>1 DEF IInv, TypeOK
<1>8. HolderInv'
  BY <1>1, <1>2, <1>3 DEF IInv, HolderInv
<1>9. WireInv'
  BY <1>1, <1>2, <1>6 DEF WireInv, SentInOrder, InOrder
<1>10. ~cleared
  BY <1>2 DEF IInv, ClearInv
<1>11. WholeInv'
  <2> SUFFICES ASSUME retries = 0 PROVE SendingWhole'
    BY <1>1 DEF WholeInv
  <2>1. SendingWhole
    BY <1>1, <1>10 DEF IInv, WholeInv
  <2>2. Run(0, body.read) \o Run(body.read, body.read + n) = Run(0, body.read + n)
    BY <1>2, RunConcat
  <2>3. kept => wire = Run(0, body.read)
    <3>1. CASE ~useBuf
      BY <2>1, <3>1 DEF SendingWhole
    <3>2. CASE useBuf /\ retains
      BY <1>1, <1>2, <2>1, <3>2 DEF SendingWhole, IInv, HolderInv
    <3>3. CASE useBuf /\ ~retains
      BY <1>1, <2>1, <3>3, EmptyRun DEF SendingWhole, IInv, HolderInv
    <3>4. QED
      BY <3>1, <3>2, <3>3
  <2>4. QED
    BY <1>1, <1>2, <2>2, <2>3 DEF SendingWhole
<1>12. QED
  BY <1>1, <1>7, <1>8, <1>9, <1>10, <1>11 DEF IInv, ClearInv

LEMMA ShipFailsStep ==
    ASSUME IInv, NEW n \in 1 .. Chunk, ShipFails(n)
    PROVE  IInv'
<1>1. /\ UNCHANGED <<sized, returned, early, wire, redirects, retries, cleared, kept>>
      /\ pc = "sending" /\ pc' = "failed"
  BY DEF ShipFails, TakeBuffered, TakeNew, countVars
<1>2. CASE TakeBuffered(n)
  <2>1. UNCHANGED <<body, cap, retains, vec, useBuf>>
    BY <1>2 DEF TakeBuffered
  <2>2. readIdx' \in 0 .. Len(vec)
    BY <1>2, TakeBufferedFacts, TypeFacts DEF IInv
  <2>3. TypeOK'
    BY <1>1, <2>1, <2>2 DEF IInv, TypeOK, PC
  <2>4. HolderInv' /\ WireInv' /\ ClearInv' /\ WholeInv'
    BY <1>1, <2>1 DEF IInv, HolderInv, WireInv, SentInOrder, ClearInv, WholeInv
  <2>5. QED
    BY <2>3, <2>4 DEF IInv
<1>3. CASE TakeNew(n)
  <2>1. /\ body' \in Body /\ body'.orig /\ body'.read = body.read + n /\ body.orig
        /\ cap' = cap /\ vec' \in Seq(Bytes) /\ Len(vec') <= cap'
        /\ retains' \in BOOLEAN /\ readIdx' \in 0 .. Len(vec')
        /\ vec' = Run(0, Len(vec'))
        /\ ~retains' => vec' = <<>>
        /\ retains' => retains /\ Len(vec') = body.read + n
    BY <1>3, TakeNewFacts
  <2>2. useBuf' \in BOOLEAN
    BY <1>3 DEF TakeNew
  <2>3. TypeOK'
    BY <1>1, <2>1, <2>2 DEF IInv, TypeOK, PC
  <2>4. HolderInv'
    BY <1>1, <2>1 DEF IInv, HolderInv
  <2>5. WireInv' /\ ClearInv' /\ WholeInv'
    BY <1>1, <2>1 DEF IInv, WireInv, SentInOrder, ClearInv, WholeInv
  <2>6. QED
    BY <2>3, <2>4, <2>5 DEF IInv
<1>4. QED
  BY <1>2, <1>3 DEF ShipFails

LEMMA FollowKeepingStep == IInv /\ FollowKeepingBody => IInv'
<1> SUFFICES ASSUME IInv, FollowKeepingBody PROVE IInv'
  OBVIOUS
<1>1. /\ UNCHANGED <<sized, cap, retains, vec, useBuf, early, retries, kept, cleared>>
      /\ pc = "awaiting" /\ pc' = "start" /\ wire' = <<>> /\ readIdx' = 0
      /\ body' = returned /\ returned' = EmptyBody
      /\ redirects' \in 0 .. MaxRedirects /\ redirects' # 0
  BY BoundAssumption DEF FollowKeepingBody, Follow, ResetKeep, IInv, TypeOK
<1>2. EmptyBody \in Body /\ ~EmptyBody.orig /\ EmptyBody.read = Length /\ Len(vec) \in Nat
  BY TypeFacts DEF IInv
<1>3. TypeOK'
  BY <1>1, <1>2, EmptyRun DEF IInv, TypeOK, PC
<1>4. HolderInv'
  BY <1>1, <1>2 DEF IInv, HolderInv
<1>5. WireInv' /\ ClearInv'
  BY <1>1, <1>2, EmptyRun DEF IInv, WireInv, SentInOrder, ClearInv
<1>6. WholeInv'
  BY <1>1 DEF IInv, WholeInv, EndWhole, StartWhole
<1>7. QED
  BY <1>3, <1>4, <1>5, <1>6 DEF IInv

LEMMA FollowDroppingStep == IInv /\ FollowDroppingBody => IInv'
<1> SUFFICES ASSUME IInv, FollowDroppingBody PROVE IInv'
  OBVIOUS
<1>1. /\ UNCHANGED <<sized, cap, retains, useBuf, early, retries, kept>>
      /\ pc = "awaiting" /\ pc' = "start" /\ wire' = <<>> /\ readIdx' = 0 /\ vec' = <<>>
      /\ body' = EmptyBody /\ returned' = EmptyBody /\ cleared' = TRUE
      /\ redirects' \in 0 .. MaxRedirects
  BY BoundAssumption DEF FollowDroppingBody, Follow, ResetClear, IInv, TypeOK
<1>2. EmptyBody \in Body /\ ~EmptyBody.orig /\ EmptyBody.read = Length
  BY TypeFacts DEF IInv
<1>3. TypeOK'
  BY <1>1, <1>2, EmptyRun DEF IInv, TypeOK, PC
<1>4. HolderInv' /\ WireInv' /\ ClearInv' /\ WholeInv'
  BY <1>1, <1>2, EmptyRun DEF HolderInv, WireInv, SentInOrder, ClearInv, WholeInv
<1>5. QED
  BY <1>3, <1>4 DEF IInv

LEMMA RetryStep == IInv /\ Retry => IInv'
<1> SUFFICES ASSUME IInv, Retry PROVE IInv'
  OBVIOUS
<1>1. /\ UNCHANGED <<sized, cap, retains, vec, readIdx, returned, useBuf, early>>
      /\ UNCHANGED <<redirects, cleared, kept>>
      /\ pc' = "start" /\ wire' = <<>> /\ body' = EmptyBody
      /\ retries' \in 0 .. MaxRetries /\ retries' # 0
  BY BoundAssumption DEF Retry, bufVars, IInv, TypeOK
<1>2. EmptyBody \in Body /\ ~EmptyBody.orig /\ EmptyBody.read = Length
  BY TypeFacts DEF IInv
<1>3. TypeOK'
  BY <1>1, <1>2, EmptyRun DEF IInv, TypeOK, PC
<1>4. HolderInv' /\ WireInv' /\ ClearInv' /\ WholeInv'
  BY <1>1, <1>2, EmptyRun DEF IInv, HolderInv, WireInv, SentInOrder, ClearInv, WholeInv
<1>5. QED
  BY <1>3, <1>4 DEF IInv
-----------------------------------------------------------------------------
LEMMA NextInv == IInv /\ [Next]_vars => IInv'
<1> SUFFICES ASSUME IInv, [Next]_vars PROVE IInv'
  OBVIOUS
<1>1. CASE UNCHANGED vars
  BY <1>1 DEF vars, bufVars, countVars, IInv, TypeOK, HolderInv, WireInv, SentInOrder,
              ClearInv, WholeInv, StartWhole, SendingWhole, EndWhole
<1>2. CASE Next
  BY <1>2, BeginStep, EndLoopStep, MoveStep, SendBufferedStep, SendNewStep, ShipFailsStep,
     FollowKeepingStep, FollowDroppingStep, RetryStep DEF Next
<1>3. QED
  BY <1>1, <1>2

LEMMA Invariant == Spec => []IInv
BY InitInv, NextInv, PTL DEF Spec

\* The buffer stays within its capacity, its read_idx within the buffer.
THEOREM TypeCorrect == Spec => []TypeOK
<1>1. IInv => TypeOK
  BY DEF IInv
<1>2. QED
  BY <1>1, Invariant, PTL

\* What a request sends of the body is one piece of it, in order.
THEOREM BodyIsSentInOrder == Spec => []SentInOrder
<1>1. IInv => SentInOrder
  BY DEF IInv, WireInv
<1>2. QED
  BY <1>1, Invariant, PTL

\* A body of any length is resent whole while the buffer retains what was read.
THEOREM BodyIsResentWhole == Spec => []ResendsWhole
<1>1. IInv => ResendsWhole
  BY DEF IInv, WholeInv, EndWhole, ResendsWhole
<1>2. QED
  BY <1>1, Invariant, PTL

\* A redirect that drops the body drops it for good.
THEOREM NothingIsSentAfterClear == Spec => []NothingAfterClear
<1>1. IInv => NothingAfterClear
  BY DEF IInv, ClearInv, NothingAfterClear
<1>2. QED
  BY <1>1, Invariant, PTL
=============================================================================
