------------------------- MODULE BodyReadingProofs -------------------------
(***************************************************************************)
(* Safety of BodyReading for any body, buffer sizes, characters and reads. *)
(* The growth of the buffer and the types need little; what a read gives   *)
(* rests on two places in the body, the end of what was taken from the     *)
(* buffer and the end of the buffer, and on what the characters of two     *)
(* parts of the body are.                                                  *)
(***************************************************************************)
EXTENDS BodyReading, SequenceTheorems, FiniteSetTheorems, WellFoundedInduction, TLAPS

\* The sequences and counts that both arguments need.
KindInv ==
    /\ total \in Nat /\ given \in 0 .. total
    /\ buffer \in Seq(Int) /\ leftover \in Seq(Int)
    /\ framed \in BOOLEAN /\ expand \in BOOLEAN /\ empty \in BOOLEAN
    /\ ~framed => leftover = <<>>

\* The capacity; while prebuffering it goes through the sizes, and is not
\* doubled once more when it is MAX_PREBUFFER.
GrowInv ==
    /\ cap \in Nat \ {0} /\ Len(buffer) <= cap
    /\ prebufferTo \in {0, Prebuffer}
    /\ prebufferTo > 0 =>
         /\ cap \in Sizes
         /\ cap = Prebuffer /\ expand => loop = "in" /\ Len(buffer) = Prebuffer

USE DEF sourceVars, growVars, readerVars, codecVars, callVars
-----------------------------------------------------------------------------
(***************************************************************************)
(* Ranges of bytes.                                                        *)
(***************************************************************************)
LEMMA BytesFacts ==
    ASSUME NEW a \in Nat, NEW b \in Nat, a <= b
    PROVE  /\ Bytes(a, b) \in Seq(Int)
           /\ Len(Bytes(a, b)) = b - a
           /\ \A i \in 1 .. b - a : Bytes(a, b)[i] = a + i
<1>1. b - a \in Nat /\ \A i \in 1 .. b - a : a + i \in Int
  OBVIOUS
<1>2. Bytes(a, b) \in [1 .. b - a -> Int]
  BY <1>1 DEF Bytes
<1>3. QED
  BY <1>1, <1>2 DEF Bytes

\* A sequence is the range that it looks like.
LEMMA BytesIs ==
    ASSUME NEW a \in Nat, NEW b \in Nat, a <= b, NEW s \in Seq(Int),
           Len(s) = b - a, \A i \in 1 .. b - a : s[i] = a + i
    PROVE  s = Bytes(a, b)
<1> DEFINE t == Bytes(a, b)
<1>1. t \in Seq(Int) /\ Len(t) = b - a /\ \A i \in 1 .. b - a : t[i] = a + i
  BY BytesFacts
<1> HIDE DEF t
<1>2. Len(s) = Len(t) /\ \A i \in 1 .. Len(s) : s[i] = t[i]
  BY <1>1
<1>3. s = t
  BY <1>1, <1>2, SeqEqual
<1>4. QED
  BY <1>3 DEF t

\* The same with the number of bytes.
LEMMA BytesOf ==
    ASSUME NEW a \in Nat, NEW n \in Nat
    PROVE  Bytes(a, a + n) \in Seq(Int) /\ Len(Bytes(a, a + n)) = n
<1>1. a + n \in Nat /\ a <= a + n /\ (a + n) - a = n
  OBVIOUS
<1>2. QED
  BY <1>1, BytesFacts

LEMMA BytesEmpty == ASSUME NEW a \in Nat PROVE Bytes(a, a) = <<>>
<1>1. Bytes(a, a) \in Seq(Int) /\ Len(Bytes(a, a)) = a - a
  BY BytesFacts
<1>2. QED
  BY <1>1, EmptySeq

LEMMA BytesNone ==
    ASSUME NEW a \in Nat, NEW b \in Nat, a <= b
    PROVE  Bytes(a, b) = <<>> <=> a = b
<1>1. Bytes(a, b) = <<>> => b - a = 0
  BY BytesFacts
<1>2. QED
  BY <1>1, BytesEmpty

LEMMA BytesConcat ==
    ASSUME NEW a \in Nat, NEW b \in Nat, NEW c \in Nat, a <= b, b <= c
    PROVE  Bytes(a, b) \o Bytes(b, c) = Bytes(a, c)
<1> DEFINE r == Bytes(a, b)
           s == Bytes(b, c)
           t == r \o s
<1>1. r \in Seq(Int) /\ Len(r) = b - a /\ \A i \in 1 .. b - a : r[i] = a + i
  BY BytesFacts
<1>2. s \in Seq(Int) /\ Len(s) = c - b /\ \A i \in 1 .. c - b : s[i] = b + i
  BY BytesFacts
<1> HIDE DEF r, s
<1>3. /\ t \in Seq(Int) /\ Len(t) = Len(r) + Len(s)
      /\ \A i \in 1 .. Len(r) + Len(s) : t[i] = IF i <= Len(r) THEN r[i] ELSE s[i - Len(r)]
  BY <1>1, <1>2, ConcatProperties
<1> HIDE DEF t
<1>4. ASSUME NEW i \in 1 .. c - a PROVE t[i] = a + i
  <2>1. CASE i <= b - a
    BY <1>1, <1>2, <1>3, <2>1
  <2>2. CASE i > b - a
    <3>1. i - (b - a) \in 1 .. c - b /\ b + (i - (b - a)) = a + i
      BY <2>2
    <3>2. t[i] = s[i - (b - a)]
      BY <1>1, <1>2, <1>3, <2>2
    <3>3. QED
      BY <1>2, <3>1, <3>2
  <2>3. QED
    BY <2>1, <2>2
<1>5. t = Bytes(a, c)
  BY <1>1, <1>2, <1>3, <1>4, BytesIs
<1>6. QED
  BY <1>5 DEF r, s, t

\* A part of a range is a range.
SubIs(a, b, i, j) == SubSeq(Bytes(a, b), i + 1, j) = Bytes(a + i, a + j)

LEMMA BytesSub ==
    ASSUME NEW a \in Nat, NEW b \in Nat, a <= b,
           NEW i \in Nat, NEW j \in Nat, i <= j, j <= b - a
    PROVE  SubIs(a, b, i, j)
<1> DEFINE u == Bytes(a, b)
           s == SubSeq(u, i + 1, j)
<1>1. u \in Seq(Int) /\ Len(u) = b - a /\ \A k \in 1 .. b - a : u[k] = a + k
  BY BytesFacts
<1> HIDE DEF u
<1>2. \A k \in i + 1 .. j : u[k] \in Int
  BY <1>1
<1>3. /\ s \in Seq(Int)
      /\ Len(s) = IF i + 1 <= j THEN j - (i + 1) + 1 ELSE 0
      /\ \A k \in 1 .. j - (i + 1) + 1 : s[k] = u[(i + 1) + k - 1]
  BY <1>1, <1>2, SubSeqProperties
<1> HIDE DEF s
<1>4. Len(s) = j - i /\ \A k \in 1 .. j - i : s[k] = u[i + k]
  BY <1>3
<1>5. ASSUME NEW k \in 1 .. j - i PROVE s[k] = (a + i) + k
  <2>1. i + k \in 1 .. b - a
    OBVIOUS
  <2>2. QED
    BY <1>1, <1>4, <2>1
<1>6. s = Bytes(a + i, a + j)
  <2>1. a + i \in Nat /\ a + j \in Nat /\ a + i <= a + j /\ (a + j) - (a + i) = j - i
    OBVIOUS
  <2>2. QED
    BY <1>3, <1>4, <1>5, <2>1, BytesIs
<1>7. QED
  BY <1>6 DEF s, u, SubIs
-----------------------------------------------------------------------------
\* Any numbers have a least one: induction on the numbers below.
LEMMA Least ==
    ASSUME NEW T \in SUBSET Nat, T # {}
    PROVE  \E x \in T : \A y \in T : x <= y
<1>1. PICK U : U = {1 .. x : x \in T}
  OBVIOUS
<1>2. U \subseteq FiniteSubsetsOf(Nat) /\ U # {}
  <2>1. \A x \in T : 1 .. x \in FiniteSubsetsOf(Nat)
    BY FS_Interval DEF FiniteSubsetsOf
  <2>2. QED
    BY <1>1, <2>1
<1>3. PICK R : R = StrictSubsetOrdering(Nat)
  OBVIOUS
<1>4. PICK W : W = FiniteSubsetsOf(Nat)
  OBVIOUS
<1>5. PICK u \in U : \A v \in U : ~(<<v, u>> \in R)
  BY <1>2, <1>3, <1>4, FS_StrictSubsetOrderingWellFounded, WFMin
<1>6. PICK x \in T : u = 1 .. x
  BY <1>1
<1>7. ASSUME NEW y \in T, ~(x <= y) PROVE FALSE
  <2>1. 1 .. y \in U
    BY <1>1
  <2>2. 1 .. y \subseteq 1 .. x /\ x \in 1 .. x /\ x \notin 1 .. y
    BY <1>7
  <2>3. <<1 .. y, 1 .. x>> \in R
    BY <1>3, <2>2 DEF StrictSubsetOrdering
  <2>4. QED
    BY <1>5, <1>6, <2>1, <2>3
<1>8. QED
  BY <1>6, <1>7
-----------------------------------------------------------------------------
(***************************************************************************)
(* Characters: those of some bytes that are in a set.                      *)
(***************************************************************************)
\* The places of a sequence that has n elements where it has one of a set.
Places(set, s, n) == {i \in 1 .. n : s[i] \in set}
UpTo(A, i) == {j \in A : j <= i}

LEMMA PlacesAreFinite ==
    ASSUME NEW n \in Nat, NEW A \in SUBSET (1 .. n)
    PROVE  IsFiniteSet(A) /\ Cardinality(A) \in Nat
<1>1. IsFiniteSet(1 .. n)
  BY FS_Interval
<1>2. QED
  BY <1>1, FS_Subset, FS_CardinalityType

LEMMA UpToIsFinite ==
    ASSUME NEW n \in Nat, NEW A \in SUBSET (1 .. n), NEW i
    PROVE  IsFiniteSet(UpTo(A, i)) /\ Cardinality(UpTo(A, i)) \in Nat
<1>1. UpTo(A, i) \in SUBSET (1 .. n)
  BY DEF UpTo
<1>2. QED
  BY <1>1, PlacesAreFinite

\* One of these places is counted more than those before it.
LEMMA UpToNext ==
    ASSUME NEW n \in Nat, NEW A \in SUBSET (1 .. n), NEW i \in 0 .. n
    PROVE  /\ i \in A => Cardinality(UpTo(A, i)) = Cardinality(UpTo(A, i - 1)) + 1
           /\ i \notin A => Cardinality(UpTo(A, i)) = Cardinality(UpTo(A, i - 1))
<1>0. \A j \in A : j \in Int /\ (j <= i <=> j <= i - 1 \/ j = i) /\ ~(i <= i - 1)
  OBVIOUS
<1>1. CASE i \in A
  <2>1. UpTo(A, i) = UpTo(A, i - 1) \cup {i} /\ i \notin UpTo(A, i - 1)
    BY <1>0, <1>1 DEF UpTo
  <2>2. IsFiniteSet(UpTo(A, i - 1))
    BY UpToIsFinite
  <2>3. QED
    BY <1>1, <2>1, <2>2, FS_AddElement
<1>2. CASE i \notin A
  <2>1. UpTo(A, i) = UpTo(A, i - 1)
    BY <1>0, <1>2 DEF UpTo
  <2>2. QED
    BY <1>2, <2>1
<1>3. QED
  BY <1>1, <1>2

LEMMA NthIsThere ==
    ASSUME NEW n \in Nat, NEW A \in SUBSET (1 .. n), NEW k \in 1 .. Cardinality(A)
    PROVE  \E i \in A : Cardinality(UpTo(A, i)) = k
<1>1. PICK T : T = {m \in 0 .. n : Cardinality(UpTo(A, m)) >= k}
  OBVIOUS
<1>2. n \in T
  <2>1. UpTo(A, n) = A
    <3>1. \A j \in A : j <= n
      OBVIOUS
    <3>2. QED
      BY <3>1 DEF UpTo
  <2>2. Cardinality(A) \in Nat
    BY PlacesAreFinite
  <2>3. QED
    BY <1>1, <2>1, <2>2
<1>3. PICK i \in T : \A m \in T : i <= m
  <2>1. T \in SUBSET Nat /\ T # {}
    BY <1>1, <1>2
  <2>2. QED
    BY <2>1, Least
<1>4. i \in 0 .. n /\ Cardinality(UpTo(A, i)) >= k /\ Cardinality(UpTo(A, i)) \in Nat
      /\ Cardinality(UpTo(A, i - 1)) \in Nat
  <2>1. i \in 0 .. n /\ i - 1 \in Int
    BY <1>1, <1>3
  <2>2. Cardinality(UpTo(A, i)) \in Nat /\ Cardinality(UpTo(A, i - 1)) \in Nat
    BY <2>1, UpToIsFinite
  <2>3. QED
    BY <1>1, <1>3, <2>1, <2>2
<1>5. i # 0
  <2>1. UpTo(A, 0) = {}
    <3>1. \A j \in A : ~(j <= 0)
      OBVIOUS
    <3>2. QED
      BY <3>1 DEF UpTo
  <2>2. QED
    BY <1>4, <2>1, FS_EmptySet
<1>6. ~(Cardinality(UpTo(A, i - 1)) >= k)
  <2>1. i - 1 \in 0 .. n /\ i - 1 \notin T
    BY <1>3, <1>4, <1>5
  <2>2. QED
    BY <1>1, <2>1
<1>7. i \in A /\ Cardinality(UpTo(A, i)) = k
  BY <1>4, <1>6, UpToNext
<1>8. QED
  BY <1>7

LEMMA NthIsOne ==
    ASSUME NEW n \in Nat, NEW A \in SUBSET (1 .. n), NEW i \in A, NEW j \in A, i < j
    PROVE  Cardinality(UpTo(A, i)) < Cardinality(UpTo(A, j))
<1>1. i \in Int /\ j \in 0 .. n /\ j - 1 \in Int
  OBVIOUS
<1>2. Cardinality(UpTo(A, j)) = Cardinality(UpTo(A, j - 1)) + 1
  BY <1>1, UpToNext
<1>3. UpTo(A, i) \subseteq UpTo(A, j - 1)
  <2>1. \A l \in A : l <= i => l <= j - 1
    BY <1>1
  <2>2. QED
    BY <2>1 DEF UpTo
<1>4. IsFiniteSet(UpTo(A, j - 1)) /\ Cardinality(UpTo(A, j - 1)) \in Nat
      /\ Cardinality(UpTo(A, i)) \in Nat
  BY <1>1, UpToIsFinite
<1>5. Cardinality(UpTo(A, i)) <= Cardinality(UpTo(A, j - 1))
  BY <1>3, <1>4, FS_Subset
<1>6. QED
  BY <1>2, <1>4, <1>5

Nth(A, k) == CHOOSE i \in A : Cardinality({j \in A : j <= i}) = k

LEMMA NthIs ==
    ASSUME NEW n \in Nat, NEW A \in SUBSET (1 .. n), NEW k \in 1 .. Cardinality(A)
    PROVE  /\ Nth(A, k) \in A
           /\ \A i \in A : Cardinality(UpTo(A, i)) = k => Nth(A, k) = i
<1>1. PICK x : x = Nth(A, k)
  OBVIOUS
<1>2. x \in A /\ Cardinality(UpTo(A, x)) = k
  <2>1. \E i \in A : Cardinality({j \in A : j <= i}) = k
    BY NthIsThere DEF UpTo
  <2>2. QED
    BY <1>1, <2>1 DEF Nth, UpTo
<1>3. ASSUME NEW i \in A, Cardinality(UpTo(A, i)) = k PROVE x = i
  <2>1. x < i => Cardinality(UpTo(A, x)) < Cardinality(UpTo(A, i))
    BY <1>2, NthIsOne
  <2>2. i < x => Cardinality(UpTo(A, i)) < Cardinality(UpTo(A, x))
    BY <1>2, NthIsOne
  <2>3. x \in Int /\ i \in Int /\ k \in Int
    BY <1>2
  <2>4. QED
    BY <1>2, <1>3, <2>1, <2>2, <2>3
<1>4. QED
  BY <1>1, <1>2, <1>3

\* What Among is, with these names.
LEMMA AmongIs ==
    ASSUME NEW T, NEW s \in Seq(T), NEW set, NEW n \in Nat, n = Len(s), NEW A, A = Places(set, s, n)
    PROVE  /\ A \in SUBSET (1 .. n) /\ Cardinality(A) \in Nat
           /\ Among(set, s) \in Seq(T) /\ Len(Among(set, s)) = Cardinality(A)
           /\ \A k \in 1 .. Cardinality(A) : Among(set, s)[k] = s[Nth(A, k)]
<1>1. A \in SUBSET (1 .. n)
  BY DEF Places
<1>2. Cardinality(A) \in Nat
  BY <1>1, PlacesAreFinite
<1>3. Among(set, s) = [k \in 1 .. Cardinality(A) |-> s[Nth(A, k)]]
  <2>1. DOMAIN s = 1 .. n
    OBVIOUS
  <2>2. A = {i \in DOMAIN s : s[i] \in set}
    BY <2>1 DEF Places
  <2>3. QED
    BY <2>2 DEF Among, Nth
<1>4. \A k \in 1 .. Cardinality(A) : s[Nth(A, k)] \in T
  <2>1. \A k \in 1 .. Cardinality(A) : Nth(A, k) \in 1 .. n
    BY <1>1, NthIs
  <2>2. QED
    BY <2>1
<1>5. QED
  BY <1>1, <1>2, <1>3, <1>4

LEMMA AmongNone == ASSUME NEW set PROVE Among(set, <<>>) = <<>>
<1>1. PICK T : T = Int
  OBVIOUS
<1>2. PICK s : s = <<>>
  OBVIOUS
<1>3. PICK n : n = 0
  OBVIOUS
<1>4. s \in Seq(T) /\ n \in Nat /\ n = Len(s)
  BY <1>2, <1>3, EmptySeq
<1>5. PICK A : A = Places(set, s, n)
  OBVIOUS
<1>6. A = {}
  BY <1>3, <1>5 DEF Places
<1>7. Among(set, s) \in Seq(T) /\ Len(Among(set, s)) = Cardinality(A)
  BY <1>4, <1>5, AmongIs
<1>8. QED
  BY <1>2, <1>6, <1>7, FS_EmptySet, EmptySeq

\* One byte more.
WithOne(set, s, e) == Among(set, s) \o (IF e \in set THEN <<e>> ELSE <<>>)

LEMMA AmongAppend ==
    ASSUME NEW T, NEW s \in Seq(T), NEW e \in T, NEW set
    PROVE  Among(set, Append(s, e)) = WithOne(set, s, e)
<1>1. PICK n \in Nat : n = Len(s)
  OBVIOUS
<1>2. PICK t : t = Append(s, e)
  OBVIOUS
<1>3. PICK m \in Nat : m = n + 1
  OBVIOUS
<1>4. /\ t \in Seq(T) /\ m = Len(t) /\ t[m] = e
      /\ \A i \in 1 .. n : t[i] = s[i]
  BY <1>1, <1>2, <1>3
<1>5. PICK A : A = Places(set, s, n)
  OBVIOUS
<1>6. PICK B : B = Places(set, t, m)
  OBVIOUS
<1>7. PICK f : f = Among(set, s)
  OBVIOUS
<1>8. PICK g : g = Among(set, t)
  OBVIOUS
<1>9. PICK a : a = Cardinality(A)
  OBVIOUS
<1>10. /\ A \in SUBSET (1 .. n) /\ a \in Nat
       /\ f \in Seq(T) /\ Len(f) = a
       /\ \A k \in 1 .. a : f[k] = s[Nth(A, k)]
  BY <1>1, <1>5, <1>7, <1>9, AmongIs
<1>11. /\ B \in SUBSET (1 .. m) /\ Cardinality(B) \in Nat
       /\ g \in Seq(T) /\ Len(g) = Cardinality(B)
       /\ \A k \in 1 .. Cardinality(B) : g[k] = t[Nth(B, k)]
  BY <1>4, <1>6, <1>8, AmongIs
<1>12. B = IF e \in set THEN A \cup {m} ELSE A
  <2>1. \A i \in 1 .. m : i \in 1 .. n \/ i = m
    BY <1>3
  <2>2. 1 .. n \subseteq 1 .. m /\ m \in 1 .. m /\ m \notin 1 .. n
    BY <1>3
  <2>3. QED
    BY <1>4, <1>5, <1>6, <2>1, <2>2 DEF Places
<1>13. \A i \in A : UpTo(B, i) = UpTo(A, i) /\ i \in B /\ i \in 1 .. n
  <2>1. \A i \in A : ~(m <= i)
    BY <1>3, <1>10
  <2>2. QED
    BY <1>10, <1>12, <2>1 DEF UpTo
<1>14. a <= Cardinality(B) /\ (e \in set => Cardinality(B) = a + 1) /\ (e \notin set => B = A)
  <2>1. m \notin A
    BY <1>3, <1>10
  <2>1a. IsFiniteSet(A)
    BY <1>10, PlacesAreFinite
  <2>2. Cardinality(A \cup {m}) = a + 1
    BY <1>9, <2>1, <2>1a, FS_AddElement
  <2>3. QED
    BY <1>9, <1>10, <1>12, <2>2
<1>15. ASSUME NEW k \in 1 .. a PROVE g[k] = f[k]
  <2>1. PICK i \in A : i = Nth(A, k) /\ Cardinality(UpTo(A, i)) = k
    <3>1. \E i \in A : Cardinality(UpTo(A, i)) = k
      BY <1>9, <1>10, NthIsThere
    <3>2. \A i \in A : Cardinality(UpTo(A, i)) = k => Nth(A, k) = i
      BY <1>9, <1>10, NthIs
    <3>3. QED
      BY <3>1, <3>2
  <2>2. k \in 1 .. Cardinality(B)
    BY <1>10, <1>11, <1>14
  <2>3. Nth(B, k) = i
    <3>1. i \in B /\ Cardinality(UpTo(B, i)) = k
      BY <1>13, <2>1
    <3>2. QED
      BY <1>11, <2>2, <3>1, NthIs
  <2>4. i \in 1 .. n
    BY <1>13
  <2>5. QED
    BY <1>4, <1>10, <1>11, <2>1, <2>2, <2>3, <2>4
<1>16. CASE e \notin set
  <2>1. g = f
    BY <1>9, <1>10, <1>11, <1>14, <1>15, <1>16, SeqEqual
  <2>2. f \o <<>> = f
    BY <1>10, ConcatEmptySeq
  <2>3. QED
    BY <1>2, <1>7, <1>8, <1>16, <2>1, <2>2 DEF WithOne
<1>17. CASE e \in set
  <2>1. Nth(B, a + 1) = m
    <3>1. m \in B /\ UpTo(B, m) = B
      BY <1>11, <1>12, <1>17 DEF UpTo
    <3>2. a + 1 \in 1 .. Cardinality(B) /\ Cardinality(UpTo(B, m)) = a + 1
      BY <1>10, <1>14, <1>17, <3>1
    <3>3. QED
      BY <1>11, <3>1, <3>2, NthIs
  <2>2. g[a + 1] = e /\ Len(g) = a + 1
    <3>1. a + 1 \in 1 .. Cardinality(B)
      BY <1>10, <1>14, <1>17
    <3>2. QED
      BY <1>4, <1>11, <1>14, <1>17, <2>1, <3>1
  <2>3. PICK h : h = f \o <<e>>
    OBVIOUS
  <2>4. h \in Seq(T) /\ Len(h) = a + 1 /\ h[a + 1] = e /\ \A k \in 1 .. a : h[k] = f[k]
    BY <1>10, <2>3
  <2>5. \A k \in 1 .. a + 1 : g[k] = h[k]
    <3>1. \A k \in 1 .. a + 1 : k \in 1 .. a \/ k = a + 1
      BY <1>10
    <3>2. QED
      BY <1>15, <2>2, <2>4, <3>1
  <2>6. g = h
    BY <1>11, <2>2, <2>4, <2>5, SeqEqual
  <2>7. QED
    BY <1>2, <1>7, <1>8, <1>17, <2>3, <2>6 DEF WithOne
<1>18. QED
  BY <1>16, <1>17

LEMMA AmongType ==
    ASSUME NEW T, NEW s \in Seq(T), NEW set
    PROVE  Among(set, s) \in Seq(T)
<1>1. PICK n \in Nat : n = Len(s)
  OBVIOUS
<1>2. PICK A : A = Places(set, s, n)
  OBVIOUS
<1>3. QED
  BY <1>1, <1>2, AmongIs

\* Two sets that agree on the bytes.
LEMMA AmongSame ==
    ASSUME NEW s \in Seq(Int), NEW one, NEW other,
           \A i \in 1 .. Len(s) : s[i] \in one <=> s[i] \in other
    PROVE  Among(one, s) = Among(other, s)
<1>1. PICK n \in Nat : n = Len(s)
  OBVIOUS
<1>2. PICK A : A = Places(one, s, n)
  OBVIOUS
<1>3. A = Places(other, s, n)
  BY <1>1, <1>2 DEF Places
<1>4. PICK f : f = Among(one, s)
  OBVIOUS
<1>5. PICK g : g = Among(other, s)
  OBVIOUS
<1>6. /\ f \in Seq(Int) /\ Len(f) = Cardinality(A)
      /\ \A k \in 1 .. Cardinality(A) : f[k] = s[Nth(A, k)]
  BY <1>1, <1>2, <1>4, AmongIs
<1>7. /\ g \in Seq(Int) /\ Len(g) = Cardinality(A)
      /\ \A k \in 1 .. Cardinality(A) : g[k] = s[Nth(A, k)]
  BY <1>1, <1>3, <1>5, AmongIs
<1>8. QED
  BY <1>4, <1>5, <1>6, <1>7, SeqEqual

\* What a byte adds to the characters.
One(set, e) == IF e \in set THEN <<e>> ELSE <<>>

LEMMA AmongMore ==
    ASSUME NEW a \in Nat, NEW b \in Nat, NEW c \in Nat, c = b + 1, a <= b, NEW set
    PROVE  Among(set, Bytes(a, c)) = Among(set, Bytes(a, b)) \o One(set, c)
<1>1. PICK s : s = Bytes(a, b)
  OBVIOUS
<1>2. PICK n \in Nat : n = b - a
  OBVIOUS
<1>3. s \in Seq(Int) /\ Len(s) = n /\ \A i \in 1 .. n : s[i] = a + i
  BY <1>1, <1>2, BytesFacts
<1>4. PICK t : t = Append(s, c)
  OBVIOUS
<1>5. PICK m \in Nat : m = n + 1
  BY <1>2
<1>6. /\ t \in Seq(Int) /\ Len(t) = m /\ t[m] = c
      /\ \A i \in 1 .. n : t[i] = s[i]
  BY <1>3, <1>4, <1>5
<1>7. t = Bytes(a, c)
  <2>1. \A i \in 1 .. m : i \in 1 .. n \/ i = m
    BY <1>2, <1>5
  <2>2. m = c - a /\ a + m = c
    BY <1>2, <1>5
  <2>3. \A i \in 1 .. c - a : t[i] = a + i
    BY <1>3, <1>6, <2>1, <2>2
  <2>4. QED
    BY <1>6, <2>2, <2>3, BytesIs
<1>8. Among(set, t) = WithOne(set, s, c)
  BY <1>3, <1>4, AmongAppend
<1>9. QED
  BY <1>1, <1>7, <1>8 DEF WithOne, One

LEMMA IntsAssociate ==
    ASSUME NEW f \in Seq(Int), NEW g \in Seq(Int), NEW h \in Seq(Int)
    PROVE  (f \o g) \o h = f \o (g \o h)
BY ConcatAssociative

LEMMA AmongOfNone == ASSUME NEW a \in Nat, NEW set PROVE Among(set, Bytes(a, a)) = <<>>
BY BytesEmpty, AmongNone

LEMMA AmongBytesType ==
    ASSUME NEW a \in Nat, NEW b \in Nat, a <= b, NEW set
    PROVE  Among(set, Bytes(a, b)) \in Seq(Int)
BY BytesFacts, AmongType

\* The characters of two parts of the body are those of both together.
LEMMA AmongConcat ==
    ASSUME NEW a \in Nat, NEW b \in Nat, NEW end \in Nat, a <= b, b <= end, NEW set
    PROVE  Among(set, Bytes(a, b)) \o Among(set, Bytes(b, end)) = Among(set, Bytes(a, end))
<1>1. PICK f : f = Among(set, Bytes(a, b))
  OBVIOUS
<1>2. f \in Seq(Int)
  BY <1>1, AmongBytesType
<1>3. PICK T : T = {c \in Nat : b <= c /\ f \o Among(set, Bytes(b, c)) # Among(set, Bytes(a, c))}
  OBVIOUS
<1>4. SUFFICES ASSUME T # {} PROVE FALSE
  BY <1>1, <1>3
<1>5. PICK c \in T : \A d \in T : c <= d
  <2>1. T \in SUBSET Nat
    BY <1>3
  <2>2. QED
    BY <1>4, <2>1, Least
<1>6. c \in Nat /\ b <= c /\ f \o Among(set, Bytes(b, c)) # Among(set, Bytes(a, c))
  BY <1>3
<1>7. c # b
  <2>1. f \o <<>> = f
    BY <1>2, ConcatEmptySeq
  <2>2. QED
    BY <1>1, <1>6, <2>1, AmongOfNone
<1>8. PICK d \in Nat : c \in Nat /\ c = d + 1 /\ b <= d /\ a <= d
  <2>1. c - 1 \in Nat /\ c = (c - 1) + 1 /\ b <= c - 1
    BY <1>6, <1>7
  <2>2. QED
    BY <2>1
<1>9. f \o Among(set, Bytes(b, d)) = Among(set, Bytes(a, d))
  <2>1. d \notin T
    BY <1>5, <1>8
  <2>2. QED
    BY <1>3, <1>8, <2>1
<1>10. PICK g : g = Among(set, Bytes(b, d))
  OBVIOUS
<1>11. PICK one : one = One(set, c)
  OBVIOUS
<1>12. g \in Seq(Int) /\ one \in Seq(Int)
  <2>1. g \in Seq(Int)
    BY <1>8, <1>10, AmongBytesType
  <2>2. one \in Seq(Int)
    BY <1>6, <1>11 DEF One
  <2>3. QED
    BY <2>1, <2>2
<1>13. Among(set, Bytes(b, c)) = g \o one
  <2>1. Among(set, Bytes(b, c)) = Among(set, Bytes(b, d)) \o One(set, c)
    BY <1>8, AmongMore
  <2>2. QED
    BY <1>10, <1>11, <2>1
<1>14. Among(set, Bytes(a, c)) = (f \o g) \o one
  <2>1. Among(set, Bytes(a, c)) = Among(set, Bytes(a, d)) \o One(set, c)
    BY <1>8, AmongMore
  <2>2. QED
    BY <1>9, <1>10, <1>11, <2>1
<1>15. (f \o g) \o one = f \o (g \o one)
  BY <1>2, <1>12, IntsAssociate
<1>16. QED
  BY <1>6, <1>13, <1>14, <1>15

LEMMA AmongConcatAll ==
    ASSUME NEW b \in Nat, NEW end \in Nat, b <= end, NEW set
    PROVE  Among(set, Bytes(0, b)) \o Among(set, Bytes(b, end)) = Among(set, Bytes(0, end))
<1>1. 0 \in Nat /\ 0 <= b
  OBVIOUS
<1>2. QED
  BY <1>1, AmongConcat

\* What the end of the body adds to the characters of its last bytes.
Cut(p) == IF p < total /\ ~IsLast(total) THEN <<total>> ELSE <<>>

LEMMA TextIs ==
    ASSUME codec, total \in Nat, NEW p \in Nat, p <= total
    PROVE  Text(Bytes(p, total)) = Completed(Bytes(p, total)) \o Cut(p)
<1>1. PICK set : set = Ends \cup {total}
  OBVIOUS
<1>2. Text(Bytes(p, total)) = Among(set, Bytes(p, total))
  BY <1>1 DEF Text
<1>3. CASE p = total
  <2>1. Among(set, Bytes(p, p)) = <<>> /\ Among(Ends, Bytes(p, p)) = <<>>
    BY AmongOfNone
  <2>2. <<>> \o <<>> = <<>>
    BY EmptySeq, ConcatEmptySeq
  <2>3. QED
    BY <1>2, <1>3, <2>1, <2>2 DEF Cut, Completed
<1>4. CASE p < total
  <2>1. PICK d \in Nat : total = d + 1 /\ p <= d
    <3>1. total - 1 \in Nat /\ total = (total - 1) + 1 /\ p <= total - 1
      BY <1>4
    <3>2. QED
      BY <3>1
  <2>2. PICK s : s = Bytes(p, d)
    OBVIOUS
  <2>3. s \in Seq(Int) /\ Len(s) = d - p /\ \A i \in 1 .. d - p : s[i] = p + i
    BY <2>1, <2>2, BytesFacts
  <2>4. Among(set, s) = Among(Ends, s)
    <3>1. \A i \in 1 .. Len(s) : s[i] \in Int /\ s[i] < total
      BY <2>1, <2>3
    <3>2. \A i \in 1 .. Len(s) : s[i] \in set <=> s[i] \in Ends
      BY <1>1, <3>1
    <3>3. QED
      BY <2>3, <3>2, AmongSame
  <2>5. PICK f \in Seq(Int) : f = Among(Ends, s)
    BY <2>3, AmongType
  <2>6. Among(set, Bytes(p, total)) = f \o <<total>>
    <3>1. Among(set, Bytes(p, total)) = Among(set, Bytes(p, d)) \o One(set, total)
      BY <2>1, AmongMore
    <3>2. One(set, total) = <<total>>
      BY <1>1 DEF One
    <3>3. QED
      BY <2>2, <2>4, <2>5, <3>1, <3>2
  <2>7. Completed(Bytes(p, total)) = f \o One(Ends, total)
    <3>1. Among(Ends, Bytes(p, total)) = Among(Ends, Bytes(p, d)) \o One(Ends, total)
      BY <2>1, AmongMore
    <3>2. QED
      BY <2>2, <2>5, <3>1 DEF Completed
  <2>8. f \o <<>> = f /\ (f \o <<total>>) \o <<>> = f \o <<total>>
    BY <2>5, ConcatEmptySeq
  <2>9. CASE IsLast(total)
    BY <1>2, <2>6, <2>7, <2>8, <2>9 DEF Cut, One, IsLast
  <2>10. CASE ~IsLast(total)
    BY <1>2, <1>4, <2>6, <2>7, <2>8, <2>10 DEF Cut, One, IsLast
  <2>11. QED
    BY <2>9, <2>10
<1>5. QED
  BY <1>3, <1>4

\* The decoding of as much as there is room for.
Fits(src, n) == Len(Completed(SubSeq(src, 1, n))) <= DecodeRoom

LEMMA DecodableIs ==
    ASSUME NEW T, NEW src \in Seq(T)
    PROVE  Decodable(src) \in 0 .. Len(src)
<1>1. PICK len \in Nat : len = Len(src)
  OBVIOUS
<1>2. \A n \in 0 .. len : Len(Completed(SubSeq(src, 1, n))) \in Nat
  <2>1. \A n \in 0 .. len : SubSeq(src, 1, n) \in Seq(T)
    BY <1>1
  <2>2. \A n \in 0 .. len : Completed(SubSeq(src, 1, n)) \in Seq(T)
    BY <2>1, AmongType DEF Completed
  <2>3. QED
    BY <2>2
<1>3. PICK U : U = {k \in 0 .. len : Fits(src, len - k)}
  OBVIOUS
<1>4. len \in U
  <2>1. SubSeq(src, 1, 0) = <<>>
    OBVIOUS
  <2>2. Completed(<<>>) = <<>>
    BY AmongNone DEF Completed
  <2>3. Fits(src, 0)
    <3>1. 0 <= DecodeRoom
      BY CodecAssumption
    <3>2. QED
      BY <2>1, <2>2, <3>1, EmptySeq DEF Fits
  <2>4. len - len = 0
    OBVIOUS
  <2>5. QED
    BY <1>3, <2>3, <2>4
<1>5. PICK k \in U : \A j \in U : k <= j
  <2>1. \A j \in U : j \in Nat
    BY <1>3
  <2>2. U \in SUBSET Nat /\ U # {}
    BY <1>4, <2>1
  <2>3. QED
    BY <2>2, Least
<1>6. PICK n \in 0 .. len : n = len - k /\ Fits(src, n)
  <2>1. k \in 0 .. len /\ Fits(src, len - k)
    BY <1>3
  <2>2. QED
    BY <2>1
<1>7. ASSUME NEW m \in n + 1 .. len PROVE ~Fits(src, m)
  <2>1. len - m \in 0 .. len /\ len - (len - m) = m /\ ~(k <= len - m)
    BY <1>3, <1>6
  <2>2. QED
    BY <1>3, <1>5, <2>1
<1>8. \E x \in 0 .. Len(src) :
        /\ Len(Completed(SubSeq(src, 1, x))) <= DecodeRoom
        /\ \A m \in x + 1 .. Len(src) : Len(Completed(SubSeq(src, 1, m))) > DecodeRoom
  <2>1. \A m \in n + 1 .. len : Len(Completed(SubSeq(src, 1, m))) > DecodeRoom
    <3>1. DecodeRoom \in Int
      BY CodecAssumption
    <3>2. \A m \in n + 1 .. len : m \in 0 .. len
      BY <1>6
    <3>3. QED
      BY <1>2, <1>7, <3>1, <3>2 DEF Fits
  <2>2. Len(Completed(SubSeq(src, 1, n))) <= DecodeRoom
    BY <1>6 DEF Fits
  <2>3. QED
    BY <1>1, <1>6, <2>1, <2>2
<1>9. QED
  BY <1>8 DEF Decodable
-----------------------------------------------------------------------------
(***************************************************************************)
(* The growth of the buffer.                                               *)
(***************************************************************************)
LEMMA SizeFacts ==
    /\ Prebuffer \in Nat /\ MaxSize \in Nat /\ Prebuffer < MaxSize
    /\ StartSize \in Nat \ {0} /\ StartSize \in Sizes
    /\ \A size \in Sizes : size \in Nat \ {0} /\ size <= Prebuffer
    /\ \A size \in Sizes : size # Prebuffer => 2 * size \in Sizes
BY BufferAssumption

\* What poll_delegate() finds while prebuffering: it grows through the sizes.
LEMMA CapacityFacts ==
    ASSUME KindInv, GrowInv, Delegates
    PROVE  /\ Capacity \in Nat \ {0} /\ Len(buffer) <= Capacity
           /\ prebufferTo > 0 => Capacity \in Sizes /\ ~(expand /\ ~Grows)
<1>1. /\ cap \in Nat \ {0} /\ Len(buffer) \in Nat /\ Len(buffer) <= cap
      /\ Capacity = cap \/ Capacity = 2 * cap
  BY DEF GrowInv, KindInv, Capacity
<1>2. ASSUME prebufferTo > 0 PROVE Capacity \in Sizes /\ ~(expand /\ ~Grows)
  <2>1. cap \in Sizes /\ cap <= Prebuffer /\ cap < MaxSize
    BY <1>1, <1>2, SizeFacts DEF GrowInv
  <2>2. Len(buffer) # Prebuffer
    BY <1>2 DEF Delegates, GoesOn, ReadEnough, GrowInv
  <2>3. CASE cap = Prebuffer
    <3>1. ~expand /\ ~Grows
      BY <1>2, <2>2, <2>3 DEF GrowInv, Grows
    <3>2. QED
      BY <2>1, <3>1 DEF Capacity
  <2>4. CASE cap # Prebuffer
    BY <2>1, <2>4, SizeFacts DEF Capacity, Grows
  <2>5. QED
    BY <2>3, <2>4
<1>3. QED
  BY <1>1, <1>2

LEMMA FilledGrows ==
    ASSUME KindInv, GrowInv, Delegates, NEW bytes \in Seq(Int), Len(bytes) <= Room,
           Filled(bytes), prebufferTo' = prebufferTo, loop' = loop
    PROVE  GrowInv' /\ buffer' \in Seq(Int) /\ expand' \in BOOLEAN
<1>1. buffer \in Seq(Int) /\ Len(buffer) \in Nat /\ Len(bytes) \in Nat
  BY DEF KindInv
<1>2. buffer' \in Seq(Int) /\ Len(buffer') = Len(buffer) + Len(bytes)
  BY <1>1, ConcatProperties DEF Filled
<1>3. cap' = Capacity
  BY DEF Filled
<1>4. expand' <=> Len(buffer') = cap'
  BY Zenon DEF Filled
<1>4a. expand' \in BOOLEAN
  BY Zenon DEF Filled
<1>5. cap' \in Nat \ {0} /\ Len(buffer') <= cap'
  BY <1>1, <1>2, <1>3, CapacityFacts DEF Room
<1>6. loop' = "in"
  BY DEF Delegates, GoesOn
<1>7. prebufferTo' \in {0, Prebuffer}
  BY DEF GrowInv
<1>8. ASSUME prebufferTo' > 0
      PROVE  /\ cap' \in Sizes
             /\ cap' = Prebuffer /\ expand' => loop' = "in" /\ Len(buffer') = Prebuffer
  BY <1>3, <1>4, <1>6, <1>8, CapacityFacts
<1>9. QED
  BY <1>2, <1>4a, <1>5, <1>7, <1>8 DEF GrowInv

LEMMA NotFilledGrows ==
    ASSUME KindInv, GrowInv, Delegates, NotFilled, prebufferTo' = prebufferTo
    PROVE  GrowInv' /\ buffer' = buffer /\ expand' \in BOOLEAN
<1>1. cap' = Capacity /\ buffer' = buffer
  BY DEF NotFilled
<1>2. expand' <=> expand /\ ~Grows
  BY Zenon DEF NotFilled
<1>3. expand' \in BOOLEAN
  BY Zenon DEF NotFilled
<1>4. QED
  BY <1>1, <1>2, <1>3, CapacityFacts DEF GrowInv

\* A step that leaves source and buffer alone, and does not end the loop.
LEMMA QuietKeeps ==
    ASSUME KindInv, GrowInv, UNCHANGED <<sourceVars, growVars, buffer, prebufferTo, empty>>,
           loop' = loop \/ loop # "in"
    PROVE  KindInv' /\ GrowInv'
BY DEF KindInv, GrowInv

LEMMA KindInit == Init => KindInv /\ GrowInv
<1> SUFFICES ASSUME Init PROVE KindInv /\ GrowInv
  OBVIOUS
<1>1. total \in Nat /\ given = 0
  BY BodyAssumption DEF Init
<1>2. <<>> \in Seq(Int) /\ Len(<<>>) = 0
  OBVIOUS
<1>3. KindInv
  <2>1. framed \in BOOLEAN /\ expand \in BOOLEAN /\ empty \in BOOLEAN
    BY Zenon DEF Init
  <2>2. buffer = <<>> /\ leftover = <<>>
    BY DEF Init
  <2>3. QED
    BY <1>1, <1>2, <2>1, <2>2 DEF KindInv
<1>4. GrowInv
  BY <1>2, SizeFacts DEF Init, GrowInv
<1>5. QED
  BY <1>3, <1>4

LEMMA LeftoverParts ==
    ASSUME KindInv, GrowInv, TakeLeftover
    PROVE  LET amount == Smaller(Len(leftover), Room) IN
           /\ Delegates /\ leftover # <<>>
           /\ amount \in 0 .. Len(leftover) /\ amount <= Room
           /\ SubSeq(leftover, 1, amount) \in Seq(Int)
           /\ Len(SubSeq(leftover, 1, amount)) = amount
           /\ Filled(SubSeq(leftover, 1, amount))
           /\ leftover' = SubSeq(leftover, amount + 1, Len(leftover))
           /\ leftover' \in Seq(Int)
<1> DEFINE amount == Smaller(Len(leftover), Room)
<1>1. Delegates /\ leftover # <<>> /\ Filled(SubSeq(leftover, 1, amount))
      /\ leftover' = SubSeq(leftover, amount + 1, Len(leftover))
  BY DEF TakeLeftover
<1>2. leftover \in Seq(Int) /\ Len(leftover) \in Nat
  BY DEF KindInv
<1>3. Room \in Nat
  BY <1>1, CapacityFacts DEF Room, KindInv
<1>4. amount \in 0 .. Len(leftover) /\ amount <= Room
  BY <1>2, <1>3 DEF Smaller
<1> HIDE DEF amount
<1>5. SubSeq(leftover, 1, amount) \in Seq(Int) /\ Len(SubSeq(leftover, 1, amount)) = amount
  <2>1. \A i \in 1 .. amount : leftover[i] \in Int
    BY <1>2, <1>4
  <2>2. QED
    BY <1>2, <1>4, <2>1, SubSeqProperties
<1>6. SubSeq(leftover, amount + 1, Len(leftover)) \in Seq(Int)
  <2>1. \A i \in amount + 1 .. Len(leftover) : leftover[i] \in Int
    BY <1>2, <1>4
  <2>2. QED
    BY <1>2, <1>4, <2>1, SubSeqProperties
<1>7. QED
  BY <1>1, <1>4, <1>5, <1>6 DEF amount

LEMMA StepKindGrow ==
    ASSUME KindInv, GrowInv, [Next]_vars
    PROVE  KindInv' /\ GrowInv'
<1>1. CASE \/ UNCHANGED vars \/ TimedOut \/ UseBuffer \/ PrebufferDone
           \/ ReadPass \/ ReadCodec \/ ReadPrebuffered
           \/ \E attempt \in BOOLEAN, when \in {"never", "armed"} : Configure(attempt, when)
           \/ \E room \in ReadSizes : StartRead(room)
  <2>1. UNCHANGED <<sourceVars, growVars, buffer, prebufferTo, empty>>
    BY <1>1 DEF vars, TimedOut, UseBuffer, PrebufferDone, ReadPass, ReadCodec, ReadPrebuffered,
                Deliver, Configure, StartRead
  <2>2. loop' = loop \/ loop # "in"
    BY <1>1 DEF vars, TimedOut, UseBuffer, PrebufferDone, ReadPass, ReadCodec, ReadPrebuffered,
                Deliver, Configure, StartRead
  <2>3. QED
    BY <2>1, <2>2, QuietKeeps
<1>2. CASE EnterRefill
  <2>1. <<>> \in Seq(Int) /\ Len(<<>>) = 0
    OBVIOUS
  <2>2. QED
    BY <1>2, <2>1 DEF EnterRefill, KindInv, GrowInv
<1>3. CASE ExitRefill
  BY <1>3 DEF ExitRefill, KindInv, GrowInv
<1>4. CASE TakeLeftover
  <2>1. GrowInv' /\ buffer' \in Seq(Int) /\ expand' \in BOOLEAN
    BY <1>4, LeftoverParts, FilledGrows DEF TakeLeftover
  <2>2. QED
    BY <1>4, <2>1, LeftoverParts DEF TakeLeftover, KindInv
<1>5. ASSUME NEW n \in 1 .. total, SourceGives(n) PROVE KindInv' /\ GrowInv'
  <2>1. /\ n \in Nat /\ given \in Nat /\ total \in Nat /\ Room \in Int
        /\ n <= Room /\ n <= total - given
    BY <1>5, CapacityFacts DEF SourceGives, KindInv, Smaller, Room
  <2>2. Bytes(given, given + n) \in Seq(Int) /\ Len(Bytes(given, given + n)) <= Room
    BY <2>1, BytesOf
  <2>3. GrowInv' /\ buffer' \in Seq(Int) /\ expand' \in BOOLEAN
    BY <1>5, <2>2, FilledGrows DEF SourceGives
  <2>4. QED
    BY <1>5, <2>1, <2>3 DEF SourceGives, KindInv
<1>6. ASSUME NEW n \in 0 .. FrameSize, FrameArrives(n) PROVE KindInv' /\ GrowInv'
  <2> DEFINE amount == Smaller(n, Room)
  <2>1. /\ n \in Nat /\ given \in Nat /\ total \in Nat /\ n <= total - given
        /\ amount \in 0 .. n /\ amount <= Room
    BY <1>6, CapacityFacts, ReadAssumption DEF FrameArrives, KindInv, Smaller, Room
  <2>2. Filled(Bytes(given, given + amount)) /\ leftover' = Bytes(given + amount, given + n)
    BY <1>6 DEF FrameArrives
  <2> HIDE DEF amount
  <2>3. Bytes(given, given + amount) \in Seq(Int) /\ Len(Bytes(given, given + amount)) <= Room
    <3>1. amount \in Nat
      BY <2>1
    <3>2. QED
      BY <2>1, <3>1, BytesOf
  <2>4. leftover' \in Seq(Int)
    <3>1. given + amount \in Nat /\ given + n \in Nat /\ given + amount <= given + n
      BY <2>1
    <3>2. QED
      BY <2>2, <3>1, BytesFacts
  <2>5. GrowInv' /\ buffer' \in Seq(Int) /\ expand' \in BOOLEAN
    BY <1>6, <2>2, <2>3, FilledGrows DEF FrameArrives
  <2>6. empty' \in BOOLEAN
    BY <1>6, Zenon DEF FrameArrives, KindInv
  <2>7. QED
    BY <1>6, <2>1, <2>4, <2>5, <2>6 DEF FrameArrives, KindInv
<1>7. CASE SourceEnds
  <2>1. <<>> \in Seq(Int) /\ Len(<<>>) <= Room
    BY <1>7, CapacityFacts DEF SourceEnds, Room, KindInv
  <2>2. GrowInv' /\ buffer' \in Seq(Int) /\ expand' \in BOOLEAN
    BY <1>7, <2>1, FilledGrows DEF SourceEnds
  <2>3. QED
    BY <1>7, <2>2 DEF SourceEnds, KindInv
<1>8. CASE SourcePends \/ SourceFails
  <2>1. GrowInv' /\ buffer' = buffer /\ expand' \in BOOLEAN
    BY <1>8, NotFilledGrows DEF SourcePends, SourceFails
  <2>2. QED
    BY <1>8, <2>1 DEF SourcePends, SourceFails, KindInv
<1>9. QED
  BY <1>1, <1>2, <1>3, <1>4, <1>5, <1>6, <1>7, <1>8 DEF Next, Poll, SourceAnswers

\* The assertion of reserve_if_needed() holds for every body, capacity and size
\* of what a source gives, with a CharCodec or without (uninit.rs:27-45,
\* body_codec.rs:243-266).
THEOREM NeverFullCorrect == Spec => []NeverFull
<1>1. KindInv /\ GrowInv => NeverFull
  <2> SUFFICES ASSUME KindInv, GrowInv, GoesOn, NoHeadroom PROVE FALSE
    BY DEF NeverFull
  <2>1. ~ReadEnough /\ Len(buffer) = cap /\ cap >= MaxSize
    BY DEF GoesOn, NoHeadroom
  <2>2. CASE prebufferTo = 0
    BY <2>1, <2>2 DEF ReadEnough, GrowInv
  <2>3. CASE prebufferTo > 0
    BY <2>1, <2>3, SizeFacts DEF GrowInv
  <2>4. QED
    BY <2>2, <2>3, SizeFacts DEF GrowInv
<1>2. KindInv /\ GrowInv /\ [Next]_vars => KindInv' /\ GrowInv'
  BY StepKindGrow
<1>3. QED
  BY <1>1, <1>2, KindInit, PTL DEF Spec
-----------------------------------------------------------------------------
(***************************************************************************)
(* Types, with a CharCodec or without one.                                 *)
(***************************************************************************)
FlagsOK ==
    /\ framed \in BOOLEAN /\ codec \in BOOLEAN /\ expand \in BOOLEAN /\ finished \in BOOLEAN
    /\ isEnd \in BOOLEAN /\ isPre \in BOOLEAN /\ ended \in BOOLEAN /\ empty \in BOOLEAN
    /\ deadline \in {"never", "armed", "done"}
    /\ st \in Busy \cup {"fresh", "idle", "failed", "resumed"}
    /\ loop \in {"out", "in", "filled"}

DataOK ==
    /\ total \in Totals /\ total \in Nat /\ given \in 0 .. total
    /\ buffer \in Seq(1 .. total) /\ leftover \in Seq(1 .. total)
    /\ decoded \in Seq(1 .. total) /\ pre \in Seq(1 .. total) /\ out \in Seq(1 .. total)
    /\ consumed \in 0 .. Len(buffer) /\ dec \in 0 .. total /\ dst \in Nat

TypeInv == FlagsOK /\ DataOK

LEMMA TypesAre == KindInv /\ GrowInv /\ TypeInv => TypeOK
<1> SUFFICES ASSUME KindInv, GrowInv, TypeInv PROVE TypeOK
  OBVIOUS
<1>1. {framed, codec, expand, finished, isEnd, isPre, ended, empty} \subseteq BOOLEAN
  BY Zenon DEF TypeInv, FlagsOK
<1>2. {buffer, leftover, decoded, pre, out} \subseteq Seq(1 .. total)
  BY DEF TypeInv, DataOK
<1>3. /\ total \in Totals /\ given \in 0 .. total /\ dec \in 0 .. total /\ dst \in Nat
      /\ consumed \in 0 .. Len(buffer)
  BY DEF TypeInv, DataOK
<1>4. cap \in Nat /\ Len(buffer) <= cap /\ prebufferTo \in {0, Prebuffer}
  BY DEF GrowInv
<1>5. /\ deadline \in {"never", "armed", "done"}
      /\ st \in Busy \cup {"fresh", "idle", "failed", "resumed"}
      /\ loop \in {"out", "in", "filled"}
  BY DEF TypeInv, FlagsOK
<1>6. QED
  BY <1>1, <1>2, <1>3, <1>4, <1>5, Zenon DEF TypeOK

LEMMA TypeInit == Init => TypeInv
<1> SUFFICES ASSUME Init PROVE TypeInv
  OBVIOUS
<1>1. FlagsOK
  <2>1. framed \in BOOLEAN /\ codec \in BOOLEAN /\ expand = FALSE /\ finished = FALSE
        /\ isEnd = FALSE /\ isPre = FALSE /\ ended = FALSE /\ empty = FALSE
    BY Zenon DEF Init
  <2>2. deadline = "never" /\ st = "fresh" /\ loop = "out"
    BY DEF Init
  <2>3. QED
    BY <2>1, <2>2, Zenon DEF FlagsOK
<1>2. DataOK
  <2>1. total \in Totals /\ total \in Nat /\ given = 0 /\ consumed = 0 /\ dec = 0 /\ dst = 0
    BY BodyAssumption DEF Init
  <2>2. buffer = <<>> /\ leftover = <<>> /\ decoded = <<>> /\ pre = <<>> /\ out = <<>>
    BY DEF Init
  <2>3. <<>> \in Seq(1 .. total) /\ Len(<<>>) = 0
    OBVIOUS
  <2>4. QED
    BY <2>1, <2>2, <2>3 DEF DataOK
<1>3. QED
  BY <1>1, <1>2 DEF TypeInv

LEMMA BytesType ==
    ASSUME NEW n \in Nat, NEW a \in Nat, NEW b \in Nat, a <= b, b <= n
    PROVE  Bytes(a, b) \in Seq(1 .. n)
<1>1. PICK s : s = Bytes(a, b)
  OBVIOUS
<1>2. s \in Seq(Int) /\ Len(s) = b - a /\ \A i \in 1 .. b - a : s[i] = a + i
  BY <1>1, BytesFacts
<1>3. PICK len \in Nat : len = Len(s)
  BY <1>2
<1>4. \A i \in 1 .. len : s[i] \in 1 .. n
  BY <1>2, <1>3
<1>5. s = [i \in 1 .. len |-> s[i]]
  BY <1>2, <1>3
<1>6. QED
  BY <1>1, <1>3, <1>4, <1>5

\* The first of a sequence and what is left of it.
LEMMA HalvesType ==
    ASSUME NEW T, NEW s \in Seq(T), NEW k \in 0 .. Len(s)
    PROVE  /\ SubSeq(s, 1, k) \in Seq(T) /\ Len(SubSeq(s, 1, k)) = k
           /\ SubSeq(s, k + 1, Len(s)) \in Seq(T)
           /\ Len(SubSeq(s, k + 1, Len(s))) = Len(s) - k
OBVIOUS

LEMMA ConcatType ==
    ASSUME NEW T, NEW s \in Seq(T), NEW t \in Seq(T)
    PROVE  s \o t \in Seq(T)
OBVIOUS

LEMMA StepFlags ==
    ASSUME KindInv', FlagsOK, [Next]_vars
    PROVE  FlagsOK'
<1>1. framed' \in BOOLEAN /\ expand' \in BOOLEAN /\ empty' \in BOOLEAN
  BY Zenon DEF KindInv
<1>2. /\ codec' \in BOOLEAN /\ finished' \in BOOLEAN
  BY Zenon DEF FlagsOK, Next, vars, Configure, StartRead, TimedOut, Poll, UseBuffer,
         EnterRefill, ExitRefill, PrebufferDone, ReadPass, ReadCodec, ReadPrebuffered,
         SourceAnswers, TakeLeftover, SourceGives, FrameArrives, SourceEnds, SourcePends,
         SourceFails
<1>3. isEnd' \in BOOLEAN
  BY Zenon DEF FlagsOK, Next, vars, Configure, StartRead, TimedOut, Poll, UseBuffer,
         EnterRefill, ExitRefill, PrebufferDone, ReadPass, ReadCodec, ReadPrebuffered,
         SourceAnswers, TakeLeftover, SourceGives, FrameArrives, SourceEnds, SourcePends,
         SourceFails
<1>4. isPre' \in BOOLEAN /\ ended' \in BOOLEAN
  BY Zenon DEF FlagsOK, Next, vars, Configure, StartRead, TimedOut, Poll, UseBuffer,
         EnterRefill, ExitRefill, PrebufferDone, ReadPass, ReadCodec, ReadPrebuffered,
         Deliver, SourceAnswers, TakeLeftover, SourceGives, FrameArrives, SourceEnds,
         SourcePends, SourceFails
<1>5. /\ deadline' \in {"never", "armed", "done"}
      /\ st' \in Busy \cup {"fresh", "idle", "failed", "resumed"}
      /\ loop' \in {"out", "in", "filled"}
  BY DEF FlagsOK, Busy, Next, vars, Configure, StartRead, TimedOut, Poll, UseBuffer,
         EnterRefill, ExitRefill, PrebufferDone, ReadPass, ReadCodec, ReadPrebuffered,
         Deliver, SourceAnswers, TakeLeftover, SourceGives, FrameArrives, SourceEnds,
         SourcePends, SourceFails, AfterError
<1>6. QED
  BY <1>1, <1>2, <1>3, <1>4, <1>5, Zenon DEF FlagsOK

LEMMA FillData ==
    ASSUME DataOK, NEW bytes \in Seq(1 .. total), Filled(bytes),
           leftover' \in Seq(1 .. total), given' \in 0 .. total,
           UNCHANGED <<total, consumed, dec, decoded, pre, out, dst>>
    PROVE  DataOK'
<1>1. buffer' \in Seq(1 .. total) /\ Len(buffer') = Len(buffer) + Len(bytes)
      /\ Len(bytes) \in Nat /\ Len(buffer) \in Nat
  BY DEF Filled, DataOK
<1>2. consumed' \in 0 .. Len(buffer')
  BY <1>1 DEF DataOK
<1>3. QED
  BY <1>1, <1>2 DEF DataOK

LEMMA SourceData ==
    ASSUME KindInv, GrowInv, DataOK,
           \/ TakeLeftover \/ SourceEnds
           \/ \E n \in 1 .. total : SourceGives(n)
           \/ \E n \in 0 .. FrameSize : FrameArrives(n)
    PROVE  DataOK'
<1>1. CASE TakeLeftover
  <2> DEFINE amount == Smaller(Len(leftover), Room)
  <2>1. /\ amount \in 0 .. Len(leftover) /\ Filled(SubSeq(leftover, 1, amount))
        /\ leftover' = SubSeq(leftover, amount + 1, Len(leftover))
    BY <1>1, LeftoverParts
  <2>2. UNCHANGED <<total, given, consumed, dec, decoded, pre, out, dst>>
    BY <1>1 DEF TakeLeftover
  <2> HIDE DEF amount
  <2>3. SubSeq(leftover, 1, amount) \in Seq(1 .. total) /\ leftover' \in Seq(1 .. total)
    BY <2>1, HalvesType DEF DataOK
  <2>4. given' \in 0 .. total
    BY <2>2 DEF DataOK
  <2>5. QED
    BY <2>1, <2>2, <2>3, <2>4, FillData
<1>2. CASE SourceEnds
  <2>1. Filled(<<>>) /\ UNCHANGED <<total, given, leftover, consumed, dec, decoded, pre, out, dst>>
    BY <1>2 DEF SourceEnds
  <2>2. <<>> \in Seq(1 .. total) /\ leftover' \in Seq(1 .. total) /\ given' \in 0 .. total
    BY <2>1 DEF DataOK
  <2>3. QED
    BY <2>1, <2>2, FillData
<1>3. ASSUME NEW n \in 1 .. total, SourceGives(n) PROVE DataOK'
  <2>1. /\ n \in Nat /\ given \in Nat /\ total \in Nat /\ n <= total - given
        /\ Filled(Bytes(given, given + n)) /\ given' = given + n
        /\ UNCHANGED <<total, leftover, consumed, dec, decoded, pre, out, dst>>
    BY <1>3, CapacityFacts DEF SourceGives, KindInv, Smaller, Room
  <2>2. PICK m \in Nat : m = given + n /\ given <= m /\ m <= total
    BY <2>1
  <2>3. Bytes(given, m) \in Seq(1 .. total)
    BY <2>1, <2>2, BytesType
  <2>4. leftover' \in Seq(1 .. total) /\ given' \in 0 .. total
    BY <2>1, <2>2 DEF DataOK
  <2>5. Filled(Bytes(given, m))
    BY <2>1, <2>2
  <2>6. QED
    BY <2>1, <2>3, <2>4, <2>5, FillData
<1>4. ASSUME NEW n \in 0 .. FrameSize, FrameArrives(n) PROVE DataOK'
  <2> DEFINE amount == Smaller(n, Room)
  <2>1. /\ n \in Nat /\ given \in Nat /\ total \in Nat /\ n <= total - given
        /\ amount \in Nat /\ amount <= n
    BY <1>4, CapacityFacts, ReadAssumption DEF FrameArrives, KindInv, Smaller, Room
  <2>2. /\ Filled(Bytes(given, given + amount)) /\ leftover' = Bytes(given + amount, given + n)
        /\ given' = given + n
        /\ UNCHANGED <<total, consumed, dec, decoded, pre, out, dst>>
    BY <1>4 DEF FrameArrives
  <2> HIDE DEF amount
  <2>3. PICK m \in Nat : m = given + amount
    BY <2>1
  <2>4. PICK k \in Nat : k = given + n
    BY <2>1
  <2>5. given <= m /\ m <= k /\ k <= total /\ m <= total
    BY <2>1, <2>3, <2>4
  <2>6. Bytes(given, m) \in Seq(1 .. total) /\ Bytes(m, k) \in Seq(1 .. total)
    BY <2>1, <2>3, <2>4, <2>5, BytesType
  <2>7. leftover' \in Seq(1 .. total) /\ given' \in 0 .. total /\ Filled(Bytes(given, m))
    BY <2>2, <2>3, <2>4, <2>5, <2>6
  <2>8. QED
    BY <2>2, <2>6, <2>7, FillData
<1>5. QED
  BY <1>1, <1>2, <1>3, <1>4

LEMMA UnconsumedType ==
    ASSUME DataOK
    PROVE  /\ Unconsumed \in Seq(1 .. total) /\ Len(Unconsumed) = Len(buffer) - consumed
           /\ Len(buffer) \in Nat /\ consumed \in Nat /\ consumed <= Len(buffer)
<1>1. PICK T : T = 1 .. total
  OBVIOUS
<1>2. buffer \in Seq(T) /\ consumed \in 0 .. Len(buffer) /\ Len(buffer) \in Nat
  BY <1>1 DEF DataOK
<1>3. /\ SubSeq(buffer, consumed + 1, Len(buffer)) \in Seq(T)
      /\ Len(SubSeq(buffer, consumed + 1, Len(buffer))) = Len(buffer) - consumed
  BY <1>2, HalvesType
<1>4. QED
  BY <1>1, <1>2, <1>3 DEF Unconsumed

\* Whatever is delivered goes to the reader or to what prebuffering makes.
LEMMA DeliverData ==
    ASSUME DataOK, NEW units \in Seq(1 .. total), Deliver(units), st \in {"reading", "slurping"},
           pre' \in Seq(1 .. total), decoded' \in Seq(1 .. total), dec' \in 0 .. total,
           consumed' \in 0 .. Len(buffer), UNCHANGED <<total, given, leftover, buffer>>
    PROVE  DataOK'
<1>1. out' \in Seq(1 .. total)
  <2>1. out' = out \o units \/ out' = out
    BY DEF Deliver
  <2>2. out \in Seq(1 .. total) /\ out \o units \in Seq(1 .. total)
    BY ConcatType DEF DataOK
  <2>3. QED
    BY <2>1, <2>2
<1>2. dst' \in Nat
  <2>1. dst' = dst \/ dst' = RoomAfter(units)
    BY DEF Deliver
  <2>2. RoomAfter(units) \in Nat
    <3>1. UnitSize \in Nat /\ Headroom \in Nat
      BY CodecAssumption DEF UnitSize
    <3>2. Len(units) \in Nat /\ Len(pre \o units) \in Nat /\ dst \in Nat
      BY DEF DataOK
    <3>3. PICK a : a = UnitSize * Len(units)
      OBVIOUS
    <3>4. PICK b : b = UnitSize * Len(pre \o units)
      OBVIOUS
    <3>5. a \in Nat /\ b \in Nat
      BY <3>1, <3>2, <3>3, <3>4
    <3>6. RoomAfter(units) = IF dst > a THEN dst - a ELSE Larger(b, Headroom)
      BY <3>3, <3>4 DEF RoomAfter
    <3>7. QED
      BY <3>1, <3>2, <3>5, <3>6 DEF Larger
  <2>3. QED
    BY <2>1, <2>2 DEF DataOK
<1>3. QED
  BY <1>1, <1>2 DEF DataOK

LEMMA PassData ==
    ASSUME DataOK, ReadPass
    PROVE  DataOK'
<1> DEFINE len == Smaller(dst, Len(Unconsumed))
           units == SubSeq(Unconsumed, 1, len)
<1>1. /\ st \in {"reading", "slurping"} /\ Deliver(units) /\ consumed' = consumed + Len(units)
      /\ pre' = IF st = "slurping" THEN pre \o units ELSE pre
      /\ UNCHANGED <<total, given, leftover, buffer, decoded, dec>>
  BY DEF ReadPass
<1>2. len \in 0 .. Len(Unconsumed)
  BY UnconsumedType DEF DataOK, Smaller
<1> HIDE DEF len
<1>3. units \in Seq(1 .. total) /\ Len(units) = len
  BY <1>2, UnconsumedType, HalvesType
<1> HIDE DEF units
<1>4. consumed' \in 0 .. Len(buffer)
  BY <1>1, <1>2, <1>3, UnconsumedType
<1>5. pre' \in Seq(1 .. total) /\ decoded' \in Seq(1 .. total) /\ dec' \in 0 .. total
  <2>1. pre \in Seq(1 .. total) /\ pre \o units \in Seq(1 .. total)
    BY <1>3, ConcatType DEF DataOK
  <2>2. pre' \in Seq(1 .. total)
    BY <1>1, <2>1
  <2>3. QED
    BY <1>1, <2>2 DEF DataOK
<1>6. QED
  BY <1>1, <1>3, <1>4, <1>5, DeliverData

\* What ReadCodec decodes and hands on, with names for its parts.
CodecParts(n, bytes, becameEnd, text, k, units) ==
    /\ becameEnd = (~isEnd /\ Unconsumed = <<>>)
    /\ n \in 0 .. Len(Unconsumed) /\ bytes = SubSeq(Unconsumed, 1, n)
    /\ text = decoded \o Decoded(bytes, becameEnd)
    /\ k \in 0 .. Len(text) /\ units = SubSeq(text, 1, k)
    /\ loop = "filled" /\ codec /\ st \in {"reading", "slurping"}
    /\ isEnd' = (isEnd \/ becameEnd) /\ dec' = Fed(bytes)
    /\ consumed' = consumed + n
    /\ decoded' = SubSeq(text, k + 1, Len(text))
    /\ pre' = IF st = "slurping" THEN pre \o units ELSE pre
    /\ Deliver(units)
    /\ UNCHANGED <<sourceVars, growVars, buffer, prebufferTo, finished>>

LEMMA DecodedType ==
    ASSUME DataOK, NEW bytes \in Seq(1 .. total), NEW last
    PROVE  Decoded(bytes, last) \in Seq(1 .. total) /\ Fed(bytes) \in 0 .. total
<1>1. Fed(bytes) \in 0 .. total
  <2>1. CASE bytes = <<>>
    BY <2>1 DEF Fed, DataOK
  <2>2. CASE bytes # <<>>
    <3>1. Len(bytes) \in 1 .. Len(bytes)
      BY <2>2, EmptySeq
    <3>2. bytes[Len(bytes)] \in 1 .. total
      BY <3>1, ElementOfSeq
    <3>3. QED
      BY <2>2, <3>2 DEF Fed
  <2>3. QED
    BY <2>1, <2>2
<1>2. PICK tail : tail = IF last /\ Fed(bytes) > 0 /\ ~IsLast(Fed(bytes)) THEN <<Fed(bytes)>> ELSE <<>>
  OBVIOUS
<1>3. tail \in Seq(1 .. total)
  <2>1. CASE last /\ Fed(bytes) > 0 /\ ~IsLast(Fed(bytes))
    <3>1. Fed(bytes) \in 1 .. total /\ tail = <<Fed(bytes)>>
      BY <1>1, <1>2, <2>1 DEF DataOK
    <3>2. QED
      BY <3>1
  <2>2. CASE ~(last /\ Fed(bytes) > 0 /\ ~IsLast(Fed(bytes)))
    <3>1. tail = <<>>
      BY <1>2, <2>2
    <3>2. QED
      BY <3>1
  <2>3. QED
    BY <2>1, <2>2
<1>4. Completed(bytes) \in Seq(1 .. total)
  BY AmongType DEF Completed
<1>5. Decoded(bytes, last) = Completed(bytes) \o tail
  BY <1>2 DEF Decoded
<1>6. QED
  BY <1>1, <1>3, <1>4, <1>5

LEMMA CodecStepIs ==
    ASSUME DataOK, ReadCodec
    PROVE  \E n, bytes, becameEnd, text, k, units : CodecParts(n, bytes, becameEnd, text, k, units)
<1>1. PICK becameEnd : becameEnd = (~isEnd /\ Unconsumed = <<>>)
  OBVIOUS
<1>2. PICK decodes : decodes = (becameEnd \/ (~isEnd /\ Len(decoded) < DecodeBelow))
  OBVIOUS
<1>3. PICK n : n = IF decodes THEN Decodable(Unconsumed) ELSE 0
  OBVIOUS
<1>4. PICK bytes : bytes = SubSeq(Unconsumed, 1, n)
  OBVIOUS
<1>5. PICK text : text = decoded \o Decoded(bytes, becameEnd)
  OBVIOUS
<1>6. PICK k : k = Fitting(text, dst)
  OBVIOUS
<1>7. PICK units : units = SubSeq(text, 1, k)
  OBVIOUS
<1>8. /\ loop = "filled" /\ codec /\ st \in {"reading", "slurping"}
      /\ isEnd' = (isEnd \/ becameEnd) /\ dec' = Fed(bytes)
      /\ consumed' = consumed + Len(bytes)
      /\ decoded' = SubSeq(text, Len(units) + 1, Len(text))
      /\ pre' = IF st = "slurping" THEN pre \o units ELSE pre
      /\ Deliver(units)
      /\ UNCHANGED <<sourceVars, growVars, buffer, prebufferTo, finished>>
  BY <1>1, <1>2, <1>3, <1>4, <1>5, <1>6, <1>7, Zenon DEF ReadCodec
<1>9. PICK src : src = Unconsumed
  OBVIOUS
<1>10. src \in Seq(1 .. total) /\ Len(src) \in Nat
  BY <1>9, UnconsumedType
<1>11. n \in 0 .. Len(src)
  <2>1. Decodable(src) \in 0 .. Len(src)
    BY <1>10, DecodableIs
  <2>2. 0 \in 0 .. Len(src)
    BY <1>10
  <2>3. QED
    BY <1>3, <1>9, <2>1, <2>2
<1>12. bytes \in Seq(1 .. total) /\ Len(bytes) = n
  BY <1>4, <1>9, <1>10, <1>11, HalvesType
<1>13. text \in Seq(1 .. total)
  <2>1. Decoded(bytes, becameEnd) \in Seq(1 .. total) /\ decoded \in Seq(1 .. total)
    BY <1>12, DecodedType DEF DataOK
  <2>2. QED
    BY <1>5, <2>1
<1>14. k \in 0 .. Len(text)
  <2>1. Len(text) \in Nat /\ dst \in Nat /\ Width \in Nat \ {0}
    BY <1>13, CodecAssumption DEF DataOK
  <2>2. dst \div Width \in Nat
    BY <2>1
  <2>3. QED
    BY <1>6, <2>1, <2>2 DEF Fitting, Smaller
<1>15. Len(units) = k
  BY <1>7, <1>13, <1>14, HalvesType
<1>16. CodecParts(n, bytes, becameEnd, text, k, units)
  BY <1>1, <1>4, <1>5, <1>7, <1>8, <1>9, <1>11, <1>12, <1>14, <1>15, Zenon DEF CodecParts
<1>17. QED
  BY <1>16

LEMMA CodecData ==
    ASSUME DataOK, ReadCodec
    PROVE  DataOK'
<1>1. PICK n, bytes, becameEnd, text, k, units : CodecParts(n, bytes, becameEnd, text, k, units)
  BY CodecStepIs
<1>2. /\ n \in 0 .. Len(Unconsumed) /\ bytes = SubSeq(Unconsumed, 1, n)
      /\ text = decoded \o Decoded(bytes, becameEnd)
      /\ k \in 0 .. Len(text) /\ units = SubSeq(text, 1, k)
  BY <1>1 DEF CodecParts
<1>3. bytes \in Seq(1 .. total)
  BY <1>2, UnconsumedType, HalvesType
<1>4. Decoded(bytes, becameEnd) \in Seq(1 .. total) /\ Fed(bytes) \in 0 .. total
  BY <1>3, DecodedType
<1>5. text \in Seq(1 .. total)
  BY <1>2, <1>4 DEF DataOK
<1>6. units \in Seq(1 .. total) /\ SubSeq(text, k + 1, Len(text)) \in Seq(1 .. total)
  BY <1>2, <1>5, HalvesType
<1>7. /\ st \in {"reading", "slurping"} /\ Deliver(units)
      /\ dec' = Fed(bytes) /\ consumed' = consumed + n
      /\ decoded' = SubSeq(text, k + 1, Len(text))
      /\ pre' = IF st = "slurping" THEN pre \o units ELSE pre
      /\ UNCHANGED <<total, given, leftover, buffer>>
  BY <1>1 DEF CodecParts
<1>8. consumed' \in 0 .. Len(buffer)
  BY <1>2, <1>7, UnconsumedType
<1>9. pre' \in Seq(1 .. total) /\ decoded' \in Seq(1 .. total) /\ dec' \in 0 .. total
  <2>1. pre \in Seq(1 .. total) /\ pre \o units \in Seq(1 .. total)
    BY <1>6, ConcatType DEF DataOK
  <2>2. pre' \in Seq(1 .. total)
    BY <1>7, <2>1
  <2>3. QED
    BY <1>4, <1>6, <1>7, <2>2
<1>10. QED
  BY <1>6, <1>7, <1>8, <1>9, DeliverData

LEMMA PrebufferedData ==
    ASSUME DataOK, ReadPrebuffered
    PROVE  DataOK'
<1>1. PICK k : k = Smaller(dst, Len(pre))
  OBVIOUS
<1>2. /\ st = "reading" /\ Deliver(SubSeq(pre, 1, k)) /\ pre' = SubSeq(pre, k + 1, Len(pre))
      /\ UNCHANGED <<total, given, leftover, buffer, consumed, decoded, dec>>
  BY <1>1 DEF ReadPrebuffered
<1>3. k \in 0 .. Len(pre) /\ pre \in Seq(1 .. total)
  BY <1>1 DEF DataOK, Smaller
<1>4. SubSeq(pre, 1, k) \in Seq(1 .. total) /\ pre' \in Seq(1 .. total)
  BY <1>2, <1>3, HalvesType
<1>5. consumed' \in 0 .. Len(buffer) /\ decoded' \in Seq(1 .. total) /\ dec' \in 0 .. total
  BY <1>2 DEF DataOK
<1>6. QED
  BY <1>2, <1>4, <1>5, DeliverData

LEMMA StepData ==
    ASSUME KindInv, GrowInv, DataOK, [Next]_vars
    PROVE  DataOK'
<1>1. CASE \/ UNCHANGED vars \/ TimedOut \/ UseBuffer \/ ExitRefill
           \/ SourcePends \/ SourceFails
           \/ \E attempt \in BOOLEAN, when \in {"never", "armed"} : Configure(attempt, when)
  <2>1. UNCHANGED <<total, given, leftover, buffer, consumed, dec, decoded, pre, out, dst>>
    BY <1>1 DEF vars, TimedOut, UseBuffer, ExitRefill, SourcePends, SourceFails, NotFilled,
                Configure
  <2>2. QED
    BY <2>1 DEF DataOK
<1>2. CASE PrebufferDone \/ \E room \in ReadSizes : StartRead(room)
  <2>1. UNCHANGED <<total, given, leftover, buffer, consumed, dec, decoded, pre, out>>
    BY <1>2 DEF PrebufferDone, StartRead
  <2>2. dst' \in Nat
    <3>1. CASE PrebufferDone
      <4>1. Len(buffer) \in Nat /\ Headroom \in Nat /\ dst \in Nat
        BY CodecAssumption DEF DataOK
      <4>2. QED
        BY <3>1, <4>1 DEF PrebufferDone, Larger
    <3>2. ASSUME NEW room \in ReadSizes, StartRead(room) PROVE dst' \in Nat
      BY <3>2, ReadAssumption DEF StartRead, DataOK
    <3>3. QED
      BY <1>2, <3>1, <3>2
  <2>3. QED
    BY <2>1, <2>2 DEF DataOK
<1>3. CASE EnterRefill
  <2>1. /\ buffer' = <<>> /\ consumed' = 0
        /\ UNCHANGED <<total, given, leftover, dec, decoded, pre, out, dst>>
    BY <1>3 DEF EnterRefill
  <2>2. buffer' \in Seq(1 .. total) /\ consumed' \in 0 .. Len(buffer')
    BY <2>1
  <2>3. QED
    BY <2>1, <2>2 DEF DataOK
<1>4. CASE \/ TakeLeftover \/ SourceEnds
           \/ \E n \in 1 .. total : SourceGives(n)
           \/ \E n \in 0 .. FrameSize : FrameArrives(n)
  BY <1>4, SourceData
<1>5. CASE ReadPass \/ ReadCodec \/ ReadPrebuffered
  BY <1>5, PassData, CodecData, PrebufferedData
<1>6. QED
  BY <1>1, <1>2, <1>3, <1>4, <1>5 DEF Next, Poll, SourceAnswers

LEMMA TypesKept ==
    KindInv /\ GrowInv /\ TypeInv /\ [Next]_vars => KindInv' /\ GrowInv' /\ TypeInv'
BY StepKindGrow, StepFlags, StepData DEF TypeInv

\* The variables keep their types: the bytes in every buffer are bytes of the
\* body, the buffer stays within its capacity and nothing is consumed that is not
\* there, whatever the source gives and the codec decodes (body_codec.rs:168-300,
\* uninit.rs:27-86, charset.rs:45-130).
THEOREM ReadingTypes == Spec => []TypeOK
<1>1. Init => KindInv /\ GrowInv /\ TypeInv
  BY KindInit, TypeInit
<1>2. QED
  BY <1>1, TypesKept, TypesAre, PTL DEF Spec
-----------------------------------------------------------------------------
(***************************************************************************)
(* What a reader gets.  Two places in the body say where its bytes are:    *)
(* what was read, prebuffered or decoded is of the bytes up to p1, and the *)
(* buffer goes on to p2, and the leftovers to what the source has given.   *)
(***************************************************************************)
\* What is made of the bytes up to p: with a CharCodec the characters that they
\* complete, and once it was told of the end, the one that is cut off.
Got(p) ==
    IF codec THEN Completed(Bytes(0, p)) \o (IF isEnd THEN Cut(0) ELSE <<>>)
    ELSE Bytes(0, p)

At(p1, p2) ==
    /\ p1 <= p2 /\ p2 <= given
    /\ consumed \in Nat /\ consumed <= p1 /\ buffer = Bytes(p1 - consumed, p2)
    /\ leftover = Bytes(p2, given)
    /\ out \o pre \o decoded = Got(p1)
    /\ codec => dec = p1
    /\ ~codec => decoded = <<>>

\* How far the flags and the place in a poll say that it is.
Control(p1, p2) ==
    /\ finished => p2 = total
    /\ isEnd => p1 = total
    /\ ended /\ ~codec => p1 = total
    /\ isPre => ended /\ loop = "out" /\ st \notin {"slurping", "prebuffering", "fresh"}
    /\ ~isPre => pre = <<>> \/ st \in {"slurping", "failed"}
    /\ loop = "in" => consumed = 0
    /\ loop = "filled" => p1 < p2 \/ finished
    /\ st \in {"slurping", "reading"} => dst \in Nat \ {0}

Placed == \E p1, p2 \in Nat : At(p1, p2) /\ Control(p1, p2)

IInv == KindInv /\ GrowInv /\ TypeInv /\ (~empty => Placed)

LEMMA PlacedInit == Init => Placed
<1> SUFFICES ASSUME Init PROVE Placed
  OBVIOUS
<1>1. Bytes(0, 0) = <<>>
  BY BytesEmpty
<1>2. Got(0) = <<>>
  <2>1. Completed(Bytes(0, 0)) = <<>> /\ <<>> \o <<>> = <<>>
    BY AmongOfNone, EmptySeq, ConcatEmptySeq DEF Completed
  <2>2. ~isEnd
    BY Zenon DEF Init
  <2>3. QED
    BY <1>1, <2>1, <2>2 DEF Got
<1>3. At(0, 0)
  <2>1. out \o pre \o decoded = <<>>
    BY EmptySeq, ConcatEmptySeq DEF Init
  <2>2. /\ given = 0 /\ consumed = 0 /\ buffer = <<>> /\ leftover = <<>> /\ dec = 0
        /\ decoded = <<>>
    BY DEF Init
  <2>3. QED
    BY <1>1, <1>2, <2>1, <2>2 DEF At
<1>4. Control(0, 0)
  BY DEF Init, Control
<1>5. QED
  BY <1>3, <1>4 DEF Placed

\* The part of the buffer that was not consumed.
LEMMA UnconsumedIs ==
    ASSUME NEW p1 \in Nat, NEW p2 \in Nat, At(p1, p2)
    PROVE  /\ Unconsumed = Bytes(p1, p2) /\ Len(Unconsumed) = p2 - p1
           /\ Unconsumed = <<>> <=> p1 = p2
           /\ Len(buffer) = p2 - (p1 - consumed)
<1>1. PICK lo \in Nat : lo = p1 - consumed
  BY DEF At
<1>2. PICK len \in Nat : len = p2 - lo
  BY <1>1 DEF At
<1>3. consumed \in Nat /\ p1 <= p2 /\ lo <= p2 /\ consumed <= len /\ len <= p2 - lo
  BY <1>1, <1>2 DEF At
<1>4. buffer = Bytes(lo, p2) /\ Len(buffer) = len
  BY <1>1, <1>2, <1>3, BytesFacts DEF At
<1>5. SubIs(lo, p2, consumed, len)
  <2>1. lo \in Nat /\ len \in Nat /\ consumed \in Nat
    BY <1>1, <1>2, <1>3
  <2>2. lo <= p2 /\ len <= p2 - lo /\ consumed <= len
    BY <1>3
  <2>3. QED
    BY <2>1, <2>2, BytesSub
<1>6. lo + consumed = p1 /\ lo + len = p2
  BY <1>1, <1>2, <1>3
<1>7. Unconsumed = Bytes(p1, p2)
  BY <1>4, <1>5, <1>6 DEF SubIs, Unconsumed
<1>8. Len(Unconsumed) = p2 - p1 /\ (Unconsumed = <<>> <=> p1 = p2)
  BY <1>3, <1>7, BytesFacts, BytesNone
<1>9. QED
  BY <1>1, <1>2, <1>3, <1>4, <1>7, <1>8

\* While the loop runs nothing of the buffer is consumed, and what is filled in
\* is appended to what was not consumed.
LEMMA FilledAt ==
    ASSUME NEW p1 \in Nat, NEW p2 \in Nat, NEW n \in Nat,
           At(p1, p2), Control(p1, p2), loop = "in",
           Filled(Bytes(p2, p2 + n)), UNCHANGED <<total, codec, dec, isEnd, out, pre, consumed, decoded>>,
           p2 + n <= given', leftover' = Bytes(p2 + n, given')
    PROVE  At(p1, p2 + n)'
<1>1. consumed = 0 /\ p1 <= p2
  BY DEF Control, At
<1>2. buffer = Bytes(p1, p2)
  BY <1>1 DEF At
<1>3. Bytes(p1, p2) \o Bytes(p2, p2 + n) = Bytes(p1, p2 + n)
  <2>1. p2 + n \in Nat /\ p2 <= p2 + n
    OBVIOUS
  <2>2. QED
    BY <1>1, <2>1, BytesConcat
<1>4. buffer' = Bytes(p1 - consumed', p2 + n)
  <2>1. p1 - consumed' = p1
    BY <1>1
  <2>2. QED
    BY <1>2, <1>3, <2>1 DEF Filled
<1>5. Got(p1)' = Got(p1)
  BY DEF Got, Cut
<1>6. QED
  BY <1>1, <1>4, <1>5 DEF At

\* A step that moves no bytes.
Still == UNCHANGED <<sourceVars, buffer, consumed, codecVars, out, pre>>

LEMMA StillAt ==
    ASSUME NEW p1 \in Nat, NEW p2 \in Nat, At(p1, p2), Still
    PROVE  At(p1, p2)'
<1>1. Got(p1)' = Got(p1)
  BY DEF Got, Cut, Still
<1>2. QED
  BY <1>1 DEF At, Still

LEMMA StillSteps ==
    ASSUME KindInv, NEW p1 \in Nat, NEW p2 \in Nat,
           At(p1, p2), Control(p1, p2),
           \/ UNCHANGED vars \/ TimedOut \/ UseBuffer \/ ExitRefill \/ PrebufferDone
           \/ SourcePends \/ SourceFails
           \/ \E attempt \in BOOLEAN, when \in {"never", "armed"} : Configure(attempt, when)
           \/ \E room \in ReadSizes : StartRead(room)
    PROVE  Placed'
<1>1. Still
  BY DEF vars, TimedOut, UseBuffer, ExitRefill, PrebufferDone, SourcePends, SourceFails,
         NotFilled, Configure, StartRead, Still
<1>2. At(p1, p2)'
  BY <1>1, StillAt
<1>3. UNCHANGED <<total, consumed, pre, isEnd, codec>>
  BY <1>1 DEF Still
<1>4. CASE UNCHANGED vars
  BY <1>2, <1>4 DEF vars, Control, Placed
<1>5. CASE TimedOut
  BY <1>2, <1>3, <1>5 DEF TimedOut, AfterError, Control, Placed
<1>6. CASE UseBuffer
  <2>1. p1 <= p2
    BY DEF At
  <2>2. p1 < p2 \/ finished
    BY <1>6, <2>1, UnconsumedIs DEF UseBuffer
  <2>3. Control(p1, p2)'
    BY <1>3, <1>6, <2>2 DEF UseBuffer, Control
  <2>4. QED
    BY <1>2, <2>3 DEF Placed
<1>7. CASE ExitRefill
  <2>1. p1 <= p2 /\ consumed = 0 /\ Len(buffer) = p2 - (p1 - consumed)
    BY <1>7, UnconsumedIs DEF ExitRefill, Control, At
  <2>2. ReadEnough => p1 < p2
    <3>1. buffer \in Seq(Int)
      BY DEF KindInv
    <3>2. ReadEnough => Len(buffer) # 0
      BY <3>1, EmptySeq DEF ReadEnough
    <3>3. QED
      BY <2>1, <3>2
  <2>3. Control(p1, p2)'
    BY <1>3, <1>7, <2>2 DEF ExitRefill, Control
  <2>4. QED
    BY <1>2, <2>3 DEF Placed
<1>8. CASE PrebufferDone
  <2>1. st' \in {"idle", "slurping"} /\ loop' = "out" /\ UNCHANGED <<isPre, ended, finished>>
    BY <1>8 DEF PrebufferDone
  <2>2. st' = "slurping" => dst' \in Nat \ {0}
    <3>1. Len(buffer) \in Nat /\ Headroom \in Nat \ {0}
      BY CodecAssumption DEF KindInv
    <3>2. QED
      BY <1>8, <3>1 DEF PrebufferDone, Larger
  <2>3. ~isPre /\ pre = <<>> /\ pre' = pre
    BY <1>3, <1>8 DEF PrebufferDone, Control
  <2>4. Control(p1, p2)'
    BY <1>3, <2>1, <2>2, <2>3 DEF Control
  <2>5. QED
    BY <1>2, <2>4 DEF Placed
<1>9. CASE SourcePends \/ SourceFails
  <2>1. loop = "in" /\ loop' = "out" /\ UNCHANGED <<isPre, ended, finished, dst>>
        /\ st' \in {st, AfterError}
    BY <1>9 DEF SourcePends, SourceFails, Delegates, GoesOn
  <2>2. ~isPre
    BY <2>1 DEF Control
  <2>3. Control(p1, p2)'
    BY <1>3, <2>1, <2>2 DEF Control, AfterError
  <2>4. QED
    BY <1>2, <2>3 DEF Placed
<1>10. ASSUME NEW attempt \in BOOLEAN, NEW when \in {"never", "armed"}, Configure(attempt, when)
       PROVE  Placed'
  BY <1>2, <1>3, <1>10 DEF Configure, Control, Placed
<1>11. ASSUME NEW room \in ReadSizes, StartRead(room) PROVE Placed'
  <2>1. room \in Nat \ {0}
    BY ReadAssumption
  <2>2. QED
    BY <1>2, <1>3, <1>11, <2>1 DEF StartRead, Control, Placed
<1>12. QED
  BY <1>4, <1>5, <1>6, <1>7, <1>8, <1>9, <1>10, <1>11

LEMMA EnterStep ==
    ASSUME NEW p1 \in Nat, NEW p2 \in Nat, At(p1, p2), Control(p1, p2),
           EnterRefill
    PROVE  Placed'
<1>1. p1 = p2
  BY UnconsumedIs DEF EnterRefill
<1>2. buffer' = Bytes(p1, p2) /\ consumed' = 0
  BY <1>1, BytesEmpty DEF EnterRefill
<1>3. p1 - consumed' = p1
  BY <1>2
<1>4. UNCHANGED <<total, codec, given, leftover, out, pre, decoded, dec, isEnd>>
  BY DEF EnterRefill
<1>4a. Got(p1)' = Got(p1)
  BY <1>4 DEF Got, Cut
<1>5. At(p1, p2)'
  BY <1>2, <1>3, <1>4, <1>4a DEF At
<1>6. /\ UNCHANGED <<total, codec, pre, isEnd, finished, ended, isPre, st, dst>> /\ ~isPre
      /\ loop' = "in"
  BY DEF EnterRefill
<1>7. Control(p1, p2)'
  BY <1>2, <1>6 DEF Control
<1>8. QED
  BY <1>5, <1>7 DEF Placed

\* Bytes are filled in, and the poll goes on in the loop.
Feeds(p1, p2, n) ==
    /\ loop = "in" /\ Filled(Bytes(p2, p2 + n))
    /\ UNCHANGED <<total, codec, dec, isEnd, out, pre, consumed, decoded>>
    /\ p2 + n <= given' /\ leftover' = Bytes(p2 + n, given')
    /\ UNCHANGED <<total, ended, isPre, st, dst, loop>>
    /\ finished' => p2 + n = total

LEMMA FeedsStep ==
    ASSUME NEW p1 \in Nat, NEW p2 \in Nat, NEW n \in Nat,
           At(p1, p2), Control(p1, p2), Feeds(p1, p2, n)
    PROVE  Placed'
<1>1. At(p1, p2 + n)'
  BY FilledAt DEF Feeds
<1>2. p2 + n \in Nat /\ consumed' = consumed /\ loop' = "in" /\ loop = "in"
  BY DEF Feeds
<1>3. Control(p1, p2 + n)'
  BY <1>2 DEF Feeds, Control
<1>4. QED
  BY <1>1, <1>2, <1>3 DEF Placed

\* Once the end was read there is nothing to come.
LEMMA EndFacts ==
    ASSUME KindInv, NEW p1 \in Nat, NEW p2 \in Nat,
           At(p1, p2), Control(p1, p2)
    PROVE  /\ given \in Nat /\ total \in Nat /\ p2 <= given /\ given <= total
           /\ leftover = <<>> <=> p2 = given
<1>1. given \in Nat /\ total \in Nat /\ given <= total
  BY DEF KindInv
<1>2. p1 <= p2 /\ p2 <= given /\ leftover = Bytes(p2, given)
  BY DEF At
<1>3. leftover = <<>> <=> p2 = given
  BY <1>1, <1>2, BytesNone
<1>4. QED
  BY <1>1, <1>2, <1>3

LEMMA SourceGivesStep ==
    ASSUME KindInv, GrowInv, NEW p1 \in Nat, NEW p2 \in Nat,
           At(p1, p2), Control(p1, p2), NEW n \in 1 .. total, SourceGives(n)
    PROVE  Placed'
<1>1. /\ Delegates /\ ~framed /\ n <= Smaller(Room, total - given)
      /\ Filled(Bytes(given, given + n)) /\ given' = given + n
      /\ UNCHANGED <<total, codec, leftover, consumed, finished, codecVars, isPre, pre, st, dst,
                     out, ended, loop>>
  BY DEF SourceGives
<1>2. p2 = given /\ leftover = <<>>
  BY <1>1, EndFacts DEF KindInv
<1>3. n \in Nat /\ n # 0 /\ given + n <= total
  <2>1. total \in Nat /\ given \in Nat /\ Room \in Int
    BY <1>1, CapacityFacts DEF KindInv, Room
  <2>2. QED
    BY <1>1, <2>1 DEF Smaller
<1>4. Bytes(given + n, given') = <<>>
  BY <1>1, <1>3, EndFacts, BytesEmpty
<1>6. loop = "in" /\ ~finished
  BY <1>1 DEF Delegates, GoesOn
<1>7. p2 + n <= given'
  BY <1>1, <1>2
<1>8. Filled(Bytes(p2, p2 + n)) /\ leftover' = Bytes(p2 + n, given')
  BY <1>1, <1>2, <1>4
<1>9. Feeds(p1, p2, n)
  BY <1>1, <1>6, <1>7, <1>8 DEF Feeds
<1>10. QED
  BY <1>3, <1>9, FeedsStep

LEMMA FrameStep ==
    ASSUME KindInv, GrowInv, NEW p1 \in Nat, NEW p2 \in Nat,
           At(p1, p2), Control(p1, p2), NEW n \in 0 .. FrameSize, FrameArrives(n), ~empty'
    PROVE  Placed'
<1> DEFINE amount == Smaller(n, Room)
<1>1. /\ Delegates /\ leftover = <<>> /\ n <= total - given
      /\ Filled(Bytes(given, given + amount)) /\ leftover' = Bytes(given + amount, given + n)
      /\ given' = given + n
      /\ UNCHANGED <<total, codec, consumed, codecVars, isPre, pre, st, dst, out, ended, loop>>
  BY DEF FrameArrives
<1>2. finished' => n = 0
  BY Zenon DEF FrameArrives
<1>3. n = 0 => given = total
  <2>1. empty' <=> empty \/ (n = 0 /\ given < total)
    BY Zenon DEF FrameArrives
  <2>2. QED
    BY <2>1, EndFacts
<1>4. p2 = given /\ given \in Nat /\ total \in Nat
  BY <1>1, EndFacts
<1>5. n \in Nat /\ amount \in Nat /\ amount <= n
  BY <1>1, CapacityFacts, ReadAssumption DEF KindInv, Smaller, Room
<1> HIDE DEF amount
<1>7. finished' => p2 + amount = total
  BY <1>2, <1>3, <1>4, <1>5
<1>8. loop = "in"
  BY <1>1 DEF Delegates, GoesOn
<1>9. p2 + amount <= given'
  BY <1>1, <1>4, <1>5
<1>10. Filled(Bytes(p2, p2 + amount)) /\ leftover' = Bytes(p2 + amount, given')
  BY <1>1, <1>4
<1>11. Feeds(p1, p2, amount)
  BY <1>1, <1>7, <1>8, <1>9, <1>10 DEF Feeds
<1>12. QED
  BY <1>5, <1>11, FeedsStep

LEMMA SourceEndsStep ==
    ASSUME KindInv, GrowInv, NEW p1 \in Nat, NEW p2 \in Nat,
           At(p1, p2), Control(p1, p2), SourceEnds
    PROVE  Placed'
<1>1. /\ Delegates /\ leftover = <<>> /\ given = total /\ Filled(<<>>)
      /\ UNCHANGED <<total, codec, given, leftover, consumed, codecVars, isPre, pre, st, dst, out,
                     ended, loop>>
  BY DEF SourceEnds
<1>2. p2 = given /\ p2 + 0 = p2
  BY <1>1, EndFacts
<1>3. Bytes(p2, p2 + 0) = <<>>
  BY <1>2, BytesEmpty
<1>4. leftover' = Bytes(p2 + 0, given')
  BY <1>1, <1>2, <1>3
<1>5. loop = "in"
  BY <1>1 DEF Delegates, GoesOn
<1>6. Feeds(p1, p2, 0)
  BY <1>1, <1>2, <1>3, <1>4, <1>5 DEF Feeds
<1>7. QED
  BY <1>6, FeedsStep

LEMMA LeftoverStep ==
    ASSUME KindInv, GrowInv, NEW p1 \in Nat, NEW p2 \in Nat,
           At(p1, p2), Control(p1, p2), TakeLeftover
    PROVE  Placed'
<1> DEFINE amount == Smaller(Len(leftover), Room)
<1>1. /\ Delegates /\ leftover # <<>>
      /\ amount \in 0 .. Len(leftover)
      /\ Filled(SubSeq(leftover, 1, amount))
      /\ leftover' = SubSeq(leftover, amount + 1, Len(leftover))
  BY LeftoverParts
<1> HIDE DEF amount
<1>2. UNCHANGED <<total, codec, given, consumed, finished, codecVars, isPre, pre, st, dst, out,
                  ended, loop>>
  BY DEF TakeLeftover
<1>3. given \in Nat /\ p2 <= given /\ leftover = Bytes(p2, given)
  BY EndFacts DEF At
<1>4. PICK len \in Nat : len = given - p2 /\ len = Len(leftover)
  BY <1>3, BytesFacts
<1>5. amount \in Nat /\ amount <= len /\ p2 + len = given
  BY <1>1, <1>3, <1>4
<1>6. SubIs(p2, given, 0, amount) /\ SubIs(p2, given, amount, len)
  <2>1. 0 \in Nat /\ 0 <= amount /\ amount <= given - p2 /\ len <= given - p2
    BY <1>3, <1>4, <1>5
  <2>2. QED
    BY <1>3, <1>4, <1>5, <2>1, BytesSub
<1>7. 0 + 1 = 1 /\ p2 + 0 = p2
  OBVIOUS
<1>8. SubSeq(leftover, 1, amount) = Bytes(p2, p2 + amount)
  BY <1>3, <1>6, <1>7 DEF SubIs
<1>9. leftover' = Bytes(p2 + amount, given')
  BY <1>1, <1>2, <1>3, <1>4, <1>5, <1>6 DEF SubIs
<1>11. loop = "in" /\ ~finished
  BY <1>1 DEF Delegates, GoesOn
<1>12. p2 + amount <= given'
  BY <1>2, <1>5
<1>13. Feeds(p1, p2, amount)
  BY <1>1, <1>2, <1>8, <1>9, <1>11, <1>12 DEF Feeds
<1>14. QED
  BY <1>5, <1>13, FeedsStep

\* The first k bytes of a range, up to m, and what is left of it.
Parts(a, b, k, m) ==
    /\ SubSeq(Bytes(a, b), 1, k) = Bytes(a, m)
    /\ SubSeq(Bytes(a, b), k + 1, Len(Bytes(a, b))) = Bytes(m, b)
    /\ Len(Bytes(a, m)) = k
    /\ Bytes(a, m) = <<>> <=> k = 0

LEMMA Split ==
    ASSUME NEW a \in Nat, NEW b \in Nat, NEW k \in Nat, NEW m \in Nat, m = a + k, m <= b
    PROVE  Parts(a, b, k, m)
<1>1. PICK len \in Nat : len = b - a
  OBVIOUS
<1>2. 0 \in Nat /\ 0 <= k /\ k <= b - a /\ k <= len /\ len <= b - a /\ a + len = b /\ a <= b
  BY <1>1
<1>3. SubIs(a, b, 0, k) /\ SubIs(a, b, k, len)
  BY <1>1, <1>2, BytesSub
<1>4. 0 + 1 = 1 /\ a + 0 = a
  OBVIOUS
<1>5. Len(Bytes(a, b)) = len
  BY <1>1, <1>2, BytesFacts
<1>6. Len(Bytes(a, m)) = k
  BY BytesOf
<1>7. a <= m /\ (a = m <=> k = 0)
  OBVIOUS
<1>8. Bytes(a, m) = <<>> <=> k = 0
  BY <1>7, BytesNone
<1>9. QED
  BY <1>2, <1>3, <1>4, <1>5, <1>6, <1>8 DEF SubIs, Parts

\* A sequence is its first elements and the others.
LEMMA HalvesConcat ==
    ASSUME NEW T, NEW s \in Seq(T), NEW k \in 0 .. Len(s)
    PROVE  SubSeq(s, 1, k) \o SubSeq(s, k + 1, Len(s)) = s
<1>1. PICK f : f = SubSeq(s, 1, k)
  OBVIOUS
<1>2. PICK g : g = SubSeq(s, k + 1, Len(s))
  OBVIOUS
<1>3. f \in Seq(T) /\ Len(f) = k /\ \A i \in 1 .. k : f[i] = s[i]
  BY <1>1
<1>4. g \in Seq(T) /\ Len(g) = Len(s) - k /\ \A i \in 1 .. Len(s) - k : g[i] = s[k + i]
  BY <1>2
<1>5. PICK h : h = f \o g
  OBVIOUS
<1>6. /\ h \in Seq(T) /\ Len(h) = Len(s)
      /\ \A i \in 1 .. Len(s) : h[i] = IF i <= k THEN f[i] ELSE g[i - k]
  BY <1>3, <1>4, <1>5, ConcatProperties
<1>7. ASSUME NEW i \in 1 .. Len(s) PROVE h[i] = s[i]
  <2>1. CASE i <= k
    BY <1>3, <1>6, <2>1
  <2>2. CASE i > k
    <3>1. PICK j \in 1 .. Len(s) - k : j = i - k /\ k + j = i
      BY <2>2
    <3>2. h[i] = g[j]
      BY <1>6, <2>2, <3>1
    <3>3. g[j] = s[i]
      BY <1>4, <3>1
    <3>4. QED
      BY <3>2, <3>3
  <2>3. QED
    BY <2>1, <2>2
<1>8. h = s
  BY <1>6, <1>7, SeqEqual
<1>9. QED
  BY <1>1, <1>2, <1>5, <1>8

LEMMA AreInts == ASSUME NEW n \in Nat, NEW s \in Seq(1 .. n) PROVE s \in Seq(Int)
<1>1. PICK len \in Nat : len = Len(s)
  OBVIOUS
<1>2. s = [i \in 1 .. len |-> s[i]] /\ \A i \in 1 .. len : s[i] \in Int
  BY <1>1
<1>3. QED
  BY <1>2

\* A read hands on units of what was decoded with what comes to it: to the
\* reader, who has read all that was prebuffered, or to what prebuffering makes.
HandsOn(added, units) ==
    /\ added \in Seq(1 .. total) /\ units \in Seq(1 .. total)
    /\ decoded' \in Seq(1 .. total) /\ units \o decoded' = decoded \o added
    /\ loop = "filled" /\ st \in {"reading", "slurping"} /\ Deliver(units)
    /\ pre' = IF st = "slurping" THEN pre \o units ELSE pre

LEMMA HandedOn ==
    ASSUME DataOK, NEW p1 \in Nat, NEW p2 \in Nat, Control(p1, p2),
           NEW added, NEW units, HandsOn(added, units)
    PROVE  (out \o pre \o decoded)' = (out \o pre \o decoded) \o added
<1>1. /\ out \in Seq(Int) /\ pre \in Seq(Int) /\ decoded \in Seq(Int)
      /\ added \in Seq(Int) /\ units \in Seq(Int) /\ decoded' \in Seq(Int)
  BY AreInts DEF DataOK, HandsOn
<1>1a. PICK o \in Seq(Int) : o = out
  BY <1>1
<1>2. units \o decoded' = decoded \o added
  BY DEF HandsOn
<1>3. CASE st = "reading"
  <2>1. pre = <<>> /\ pre' = <<>> /\ out' = out \o units
    BY <1>3 DEF HandsOn, Control, Deliver
  <2>2. out \o units \in Seq(Int)
    BY <1>1, ConcatType
  <2>3. out' \o pre' = out \o units /\ out \o pre = out
    BY <1>1, <2>1, <2>2, ConcatEmptySeq
  <2>4. (o \o units) \o decoded' = o \o (units \o decoded')
    BY <1>1, IntsAssociate
  <2>5. (o \o decoded) \o added = o \o (decoded \o added)
    BY <1>1, IntsAssociate
  <2>6. QED
    BY <1>1a, <1>2, <2>3, <2>4, <2>5
<1>4. CASE st = "slurping"
  <2>1. pre' = pre \o units /\ out' = out
    BY <1>4 DEF HandsOn, Deliver
  <2>2. PICK f : f = out \o pre
    OBVIOUS
  <2>3. f \in Seq(Int)
    BY <1>1, <2>2, ConcatType
  <2>4. out' \o pre' = f \o units
    <3>1. (o \o pre) \o units = o \o (pre \o units)
      BY <1>1, IntsAssociate
    <3>2. QED
      BY <1>1a, <2>1, <2>2, <3>1
  <2>5. (f \o units) \o decoded' = f \o (units \o decoded')
    BY <1>1, <2>3, IntsAssociate
  <2>6. (f \o decoded) \o added = f \o (decoded \o added)
    BY <1>1, <2>3, IntsAssociate
  <2>7. QED
    BY <1>2, <2>2, <2>4, <2>5, <2>6
<1>5. QED
  BY <1>3, <1>4 DEF HandsOn

\* Zero units were the end, and there is room for the next read.
LEMMA HandedControl ==
    ASSUME DataOK, NEW p1 \in Nat, NEW p2 \in Nat, Control(p1, p2), NEW q1 \in Nat,
           NEW added, NEW units, HandsOn(added, units),
           UNCHANGED <<total, codec, finished>>,
           isEnd' => q1 = total, ended /\ ~codec => q1 = total,
           units = <<>> /\ ~codec => q1 = total
    PROVE  Control(q1, p2)'
<1>1. ~isPre /\ dst \in Nat \ {0} /\ st \in {"reading", "slurping"} /\ (st = "reading" => pre = <<>>)
  BY DEF HandsOn, Control
<1>2. (ended' <=> ended \/ units = <<>>) /\ (st = "slurping" => (isPre' <=> units = <<>>))
  BY Zenon DEF HandsOn, Deliver
<1>3. st = "reading" => st' = "idle" /\ isPre' = isPre /\ pre' = pre
  BY DEF HandsOn, Deliver
<1>4. st = "slurping" => st' = (IF units = <<>> THEN "idle" ELSE "slurping") /\ dst' = RoomAfter(units)
  BY DEF HandsOn, Deliver
<1>5. loop' = "out"
  BY DEF HandsOn, Deliver
<1>6. RoomAfter(units) \in Nat \ {0}
  <2>1. UnitSize \in Nat /\ Headroom \in Nat \ {0}
    BY CodecAssumption DEF UnitSize
  <2>2. units \in Seq(1 .. total) /\ pre \o units \in Seq(1 .. total)
    BY ConcatType DEF DataOK, HandsOn
  <2>3. PICK a : a = UnitSize * Len(units)
    OBVIOUS
  <2>4. PICK b : b = UnitSize * Len(pre \o units)
    OBVIOUS
  <2>5. Len(units) \in Nat /\ Len(pre \o units) \in Nat
    BY <2>2
  <2>6. a \in Nat /\ b \in Nat
    BY <2>1, <2>3, <2>4, <2>5
  <2>7. RoomAfter(units) = IF dst > a THEN dst - a ELSE Larger(b, Headroom)
    BY <2>3, <2>4 DEF RoomAfter
  <2>8. QED
    BY <1>1, <2>1, <2>6, <2>7 DEF Larger
<1>7. finished' => p2 = total'
  BY DEF Control
<1>8. ended' /\ ~codec' => q1 = total'
  BY <1>2
<1>9. isPre' => ended' /\ st' = "idle"
  BY <1>1, <1>2, <1>3, <1>4
<1>10. ~isPre' => pre' = <<>> \/ st' = "slurping"
  BY <1>1, <1>2, <1>3, <1>4
<1>11. st' \in {"slurping", "reading"} => dst' \in Nat \ {0}
  BY <1>1, <1>3, <1>4, <1>6
<1>12. QED
  BY <1>5, <1>7, <1>8, <1>9, <1>10, <1>11 DEF Control

\* What is not consumed begins k bytes later.
LEMMA Consumes ==
    ASSUME NEW p1 \in Nat, NEW p2 \in Nat, At(p1, p2), NEW k \in Nat, NEW q1 \in Nat,
           q1 = p1 + k, q1 <= p2, consumed' = consumed + k, buffer' = buffer
    PROVE  /\ consumed' \in Nat /\ consumed' <= q1 /\ buffer' = Bytes(q1 - consumed', p2)
           /\ SubSeq(Unconsumed, 1, k) = Bytes(p1, q1) /\ Len(SubSeq(Unconsumed, 1, k)) = k
           /\ SubSeq(Unconsumed, 1, k) = <<>> <=> k = 0
<1>1. consumed \in Nat /\ consumed <= p1 /\ buffer = Bytes(p1 - consumed, p2)
  BY DEF At
<1>2. consumed' \in Nat /\ consumed' <= q1 /\ q1 - consumed' = p1 - consumed
  BY <1>1
<1>3. Parts(p1, p2, k, q1) /\ Unconsumed = Bytes(p1, p2)
  BY Split, UnconsumedIs
<1>4. QED
  BY <1>1, <1>2, <1>3 DEF Parts

LEMMA PassStep ==
    ASSUME KindInv, TypeInv, NEW p1 \in Nat, NEW p2 \in Nat, At(p1, p2), Control(p1, p2),
           ReadPass
    PROVE  Placed'
<1>1. PICK k : k = Smaller(dst, Len(Unconsumed))
  OBVIOUS
<1>2. PICK units : units = SubSeq(Unconsumed, 1, k)
  OBVIOUS
<1>3. /\ loop = "filled" /\ ~codec /\ st \in {"reading", "slurping"}
      /\ Deliver(units) /\ consumed' = consumed + Len(units)
      /\ pre' = IF st = "slurping" THEN pre \o units ELSE pre
      /\ UNCHANGED <<total, codec, given, leftover, buffer, finished, dec, decoded, isEnd>>
  BY <1>1, <1>2 DEF ReadPass
<1>4. p1 <= p2 /\ p2 <= given /\ dst \in Nat \ {0} /\ (p1 < p2 \/ finished) /\ decoded = <<>>
  BY <1>3 DEF At, Control
<1>5. k \in Nat /\ p1 + k <= p2 /\ (k = 0 => p1 = p2)
  BY <1>1, <1>4, UnconsumedIs DEF Smaller
<1>6. PICK q1 \in Nat : q1 = p1 + k
  BY <1>5
<1>7. q1 <= p2 /\ p1 <= q1 /\ k \in 0 .. Len(Unconsumed)
  BY <1>4, <1>5, <1>6, UnconsumedIs
<1>8. units \in Seq(1 .. total) /\ Len(units) = k
  BY <1>2, <1>7, UnconsumedType, HalvesType DEF TypeInv
<1>9. /\ consumed' \in Nat /\ consumed' <= q1 /\ buffer' = Bytes(q1 - consumed', p2)
      /\ units = Bytes(p1, q1) /\ (units = <<>> <=> k = 0)
  <2>1. consumed' = consumed + k /\ buffer' = buffer
    BY <1>3, <1>8
  <2>2. k \in Nat /\ q1 = p1 + k /\ q1 <= p2
    BY <1>5, <1>6, <1>7
  <2>3. /\ consumed' \in Nat /\ consumed' <= q1 /\ buffer' = Bytes(q1 - consumed', p2)
        /\ SubSeq(Unconsumed, 1, k) = Bytes(p1, q1) /\ Len(SubSeq(Unconsumed, 1, k)) = k
        /\ SubSeq(Unconsumed, 1, k) = <<>> <=> k = 0
    BY <2>1, <2>2, Consumes
  <2>4. QED
    BY <1>2, <2>3
<1>10. HandsOn(units, units)
  <2>1. units \o <<>> = units /\ <<>> \o units = units /\ <<>> \in Seq(1 .. total)
    BY <1>8, ConcatEmptySeq, EmptySeq
  <2>2. QED
    BY <1>3, <1>4, <1>8, <2>1 DEF HandsOn
<1>11. (out \o pre \o decoded)' = Got(q1)'
  <2>1. (out \o pre \o decoded)' = (out \o pre \o decoded) \o units
    BY <1>10, HandedOn DEF TypeInv
  <2>2. out \o pre \o decoded = Bytes(0, p1)
    BY <1>3 DEF At, Got
  <2>3. Bytes(0, p1) \o Bytes(p1, q1) = Bytes(0, q1)
    <3>1. 0 \in Nat /\ 0 <= p1
      OBVIOUS
    <3>2. QED
      BY <1>7, <3>1, BytesConcat
  <2>4. QED
    BY <1>3, <1>9, <2>1, <2>2, <2>3 DEF Got
<1>12. At(q1, p2)'
  BY <1>3, <1>4, <1>7, <1>9, <1>11 DEF At
<1>13. Control(q1, p2)'
  <2>1. isEnd' => q1 = total
    BY <1>3, <1>6, <1>7, EndFacts DEF Control
  <2>2. ended /\ ~codec => q1 = total
    BY <1>6, <1>7, EndFacts DEF Control
  <2>3. units = <<>> /\ ~codec => q1 = total
    BY <1>4, <1>5, <1>6, <1>9 DEF Control
  <2>4. QED
    BY <1>3, <1>10, <2>1, <2>2, <2>3, HandedControl DEF TypeInv
<1>14. QED
  BY <1>12, <1>13 DEF Placed

LEMMA CodecStep ==
    ASSUME KindInv, TypeInv, NEW p1 \in Nat, NEW p2 \in Nat, At(p1, p2), Control(p1, p2),
           ReadCodec
    PROVE  Placed'
<1>1. PICK k, bytes, becameEnd, text, n, units : CodecParts(k, bytes, becameEnd, text, n, units)
  BY CodecStepIs DEF TypeInv
<1>2. /\ k \in 0 .. Len(Unconsumed) /\ bytes = SubSeq(Unconsumed, 1, k)
      /\ text = decoded \o Decoded(bytes, becameEnd)
      /\ n \in 0 .. Len(text) /\ units = SubSeq(text, 1, n)
  BY <1>1 DEF CodecParts
<1>3. /\ loop = "filled" /\ codec /\ st \in {"reading", "slurping"}
      /\ Deliver(units) /\ consumed' = consumed + k /\ dec' = Fed(bytes)
      /\ decoded' = SubSeq(text, n + 1, Len(text))
      /\ pre' = IF st = "slurping" THEN pre \o units ELSE pre
      /\ UNCHANGED <<total, codec, given, leftover, buffer, finished>>
  BY <1>1 DEF CodecParts
<1>4. (becameEnd <=> ~isEnd /\ Unconsumed = <<>>) /\ (isEnd' <=> isEnd \/ becameEnd)
  BY <1>1, Zenon DEF CodecParts
<1>5. /\ p1 <= p2 /\ p2 <= given /\ given <= total /\ total \in Nat /\ given \in Nat
      /\ dec = p1 /\ (p1 < p2 \/ finished)
  BY <1>3, EndFacts DEF At, Control
<1>6. k \in Nat /\ p1 + k <= p2
  BY <1>2, <1>5, UnconsumedIs
<1>7. PICK q1 \in Nat : q1 = p1 + k
  BY <1>6
<1>8. q1 <= p2 /\ p1 <= q1
  BY <1>5, <1>6, <1>7
<1>9. /\ consumed' \in Nat /\ consumed' <= q1 /\ buffer' = Bytes(q1 - consumed', p2)
      /\ bytes = Bytes(p1, q1) /\ Len(bytes) = k /\ (bytes = <<>> <=> k = 0)
  <2>1. consumed' = consumed + k /\ buffer' = buffer
    BY <1>3
  <2>2. k \in Nat /\ q1 = p1 + k /\ q1 <= p2
    BY <1>6, <1>7, <1>8
  <2>3. /\ consumed' \in Nat /\ consumed' <= q1 /\ buffer' = Bytes(q1 - consumed', p2)
        /\ SubSeq(Unconsumed, 1, k) = Bytes(p1, q1) /\ Len(SubSeq(Unconsumed, 1, k)) = k
        /\ SubSeq(Unconsumed, 1, k) = <<>> <=> k = 0
    BY <2>1, <2>2, Consumes
  <2>4. QED
    BY <1>2, <2>3
<1>10. dec' = q1
  <2>1. CASE k = 0
    BY <1>3, <1>5, <1>7, <1>9, <2>1 DEF Fed
  <2>2. CASE k # 0
    <3>1. k \in 1 .. q1 - p1 /\ p1 + k = q1
      BY <1>6, <1>7, <2>2
    <3>2. bytes[k] = q1
      BY <1>8, <1>9, <3>1, BytesFacts
    <3>3. QED
      BY <1>3, <1>9, <2>2, <3>2 DEF Fed
  <2>3. QED
    BY <2>1, <2>2
\* At the end all of the body was fed.
<1>11. becameEnd => p1 = total /\ q1 = total
  <2>1. becameEnd => p1 = p2 /\ k = 0
    BY <1>2, <1>4, UnconsumedIs
  <2>2. QED
    BY <1>5, <1>6, <1>7, <2>1 DEF Control
<1>12. isEnd => p1 = total /\ q1 = total
  BY <1>5, <1>7, <1>8 DEF Control
<1>13. PICK added : added = Decoded(bytes, becameEnd)
  OBVIOUS
<1>14. added \in Seq(1 .. total)
  <2>1. bytes \in Seq(1 .. total)
    BY <1>2, UnconsumedType, HalvesType DEF TypeInv
  <2>2. QED
    BY <1>13, <2>1, DecodedType DEF TypeInv
<1>15. HandsOn(added, units)
  <2>1. decoded \in Seq(1 .. total) /\ text = decoded \o added
    BY <1>2, <1>13 DEF TypeInv, DataOK
  <2>2. text \in Seq(1 .. total)
    BY <1>14, <2>1, ConcatType
  <2>3. units \in Seq(1 .. total) /\ decoded' \in Seq(1 .. total) /\ units \o decoded' = text
    BY <1>2, <1>3, <2>2, HalvesType, HalvesConcat
  <2>4. QED
    BY <1>3, <1>14, <2>1, <2>3 DEF HandsOn
<1>16. PICK tail : tail = IF becameEnd THEN Cut(0) ELSE <<>>
  OBVIOUS
<1>17. added = Completed(bytes) \o tail
  <2>1. Fed(bytes) = q1
    BY <1>3, <1>10
  <2>2. added = Completed(bytes) \o (IF becameEnd /\ q1 > 0 /\ ~IsLast(q1) THEN <<q1>> ELSE <<>>)
    BY <1>13, <2>1 DEF Decoded
  <2>3. CASE becameEnd
    <3>1. q1 = total
      BY <1>11, <2>3
    <3>2. tail = IF 0 < q1 /\ ~IsLast(q1) THEN <<q1>> ELSE <<>>
      BY <1>16, <2>3, <3>1 DEF Cut
    <3>3. q1 > 0 <=> 0 < q1
      OBVIOUS
    <3>4. QED
      BY <2>2, <2>3, <3>2, <3>3
  <2>4. CASE ~becameEnd
    BY <1>16, <2>2, <2>4
  <2>5. QED
    BY <2>3, <2>4
<1>18. Got(p1) \o added = Got(q1)'
  <2>1. PICK f : f = Completed(Bytes(0, p1))
    OBVIOUS
  <2>2. PICK g : g = Completed(bytes)
    OBVIOUS
  <2>3. f \in Seq(Int) /\ g \in Seq(Int) /\ tail \in Seq(Int)
    <3>1. 0 \in Nat /\ 0 <= p1
      OBVIOUS
    <3>2. tail \in Seq(Int)
      BY <1>5, <1>16 DEF Cut
    <3>3. QED
      BY <1>8, <1>9, <2>1, <2>2, <3>1, <3>2, AmongBytesType DEF Completed
  <2>4. Completed(Bytes(0, q1)) = f \o g
    <3>1. 0 \in Nat /\ 0 <= p1
      OBVIOUS
    <3>2. Among(Ends, Bytes(0, p1)) \o Among(Ends, Bytes(p1, q1)) = Among(Ends, Bytes(0, q1))
      BY <1>8, AmongConcatAll
    <3>3. QED
      BY <1>9, <2>1, <2>2, <3>2 DEF Completed
  <2>5. f \o <<>> = f /\ g \o <<>> = g /\ f \o g \in Seq(Int) /\ (f \o g) \o <<>> = f \o g
    BY <2>3, ConcatType, ConcatEmptySeq
  <2>6. Got(q1)' = (f \o g) \o (IF isEnd' THEN Cut(0) ELSE <<>>)
    <3>1. Cut(0)' = Cut(0) /\ Completed(Bytes(0, q1))' = Completed(Bytes(0, q1)) /\ codec'
      BY <1>3 DEF Cut, Completed
    <3>2. QED
      BY <2>4, <3>1 DEF Got
  <2>7. Got(p1) = f \o (IF isEnd THEN Cut(0) ELSE <<>>)
    BY <1>3, <2>1 DEF Got
  <2>8. CASE isEnd
    <3>1. p1 = q1 /\ ~becameEnd
      BY <1>4, <1>12, <2>8
    <3>2. g = <<>> /\ tail = <<>>
      BY <1>9, <1>16, <2>2, <3>1, AmongOfNone DEF Completed
    <3>3. added = <<>>
      BY <1>17, <2>2, <2>5, <3>2
    <3>4. Got(p1) = f \o Cut(0) /\ Got(q1)' = f \o Cut(0)
      BY <1>4, <2>5, <2>6, <2>7, <2>8, <3>2
    <3>5. f \o Cut(0) \in Seq(Int)
      <4>1. Cut(0) \in Seq(Int)
        BY <1>5 DEF Cut
      <4>2. QED
        BY <2>3, <4>1, ConcatType
    <3>6. (f \o Cut(0)) \o <<>> = f \o Cut(0)
      BY <3>5, ConcatEmptySeq
    <3>7. QED
      BY <3>3, <3>4, <3>6
  <2>9. CASE ~isEnd
    <3>1. Got(p1) = f /\ Got(q1)' = (f \o g) \o tail
      BY <1>4, <1>16, <2>5, <2>6, <2>7, <2>9
    <3>2. (f \o g) \o tail = f \o (g \o tail)
      BY <2>3, IntsAssociate
    <3>3. QED
      BY <1>17, <2>2, <3>1, <3>2
  <2>10. QED
    BY <2>8, <2>9
<1>19. (out \o pre \o decoded)' = Got(q1)'
  <2>1. (out \o pre \o decoded)' = (out \o pre \o decoded) \o added
    BY <1>15, HandedOn DEF TypeInv
  <2>2. QED
    BY <1>18, <2>1 DEF At
<1>20. At(q1, p2)'
  <2>1. q1 <= p2 /\ p2 <= given' /\ leftover' = Bytes(p2, given')
    BY <1>3, <1>5, <1>8 DEF At
  <2>2. QED
    BY <1>3, <1>9, <1>10, <1>19, <2>1 DEF At
<1>21. Control(q1, p2)'
  BY <1>3, <1>4, <1>11, <1>12, <1>15, HandedControl DEF TypeInv
<1>22. QED
  BY <1>20, <1>21 DEF Placed

LEMMA PrebufferedStep ==
    ASSUME KindInv, TypeInv, NEW p1 \in Nat, NEW p2 \in Nat, At(p1, p2), Control(p1, p2),
           ReadPrebuffered
    PROVE  Placed'
<1>1. PICK k : k = Smaller(dst, Len(pre))
  OBVIOUS
<1>2. PICK units : units = SubSeq(pre, 1, k)
  OBVIOUS
<1>3. /\ st = "reading" /\ loop = "out" /\ isPre /\ Deliver(units)
      /\ pre' = SubSeq(pre, k + 1, Len(pre))
      /\ UNCHANGED <<total, codec, given, leftover, buffer, consumed, finished, codecVars>>
  BY <1>1, <1>2 DEF ReadPrebuffered
<1>5. out \in Seq(Int) /\ pre \in Seq(Int) /\ k \in 0 .. Len(pre)
  BY <1>1, AreInts DEF TypeInv, DataOK, Smaller
<1>6. units \in Seq(Int) /\ pre' \in Seq(Int) /\ units \o pre' = pre
  BY <1>2, <1>3, <1>5, HalvesType, HalvesConcat
<1>7. loop' = "out" /\ st' = "idle" /\ out' = out \o units /\ isPre' = isPre
  BY <1>3 DEF Deliver
<1>8. ended /\ ended'
  BY <1>3, Zenon DEF Deliver, Control
<1>9. out' \o pre' = out \o pre
  <2>1. (out \o units) \o pre' = out \o (units \o pre')
    BY <1>5, <1>6, IntsAssociate
  <2>2. QED
    BY <1>6, <1>7, <2>1
<1>10. Got(p1)' = Got(p1)
  BY <1>3 DEF Got, Cut
<1>11. At(p1, p2)'
  BY <1>3, <1>9, <1>10 DEF At
<1>12. Control(p1, p2)'
  BY <1>3, <1>7, <1>8 DEF Control
<1>13. QED
  BY <1>11, <1>12 DEF Placed

LEMMA StepPlaced ==
    ASSUME IInv, [Next]_vars, ~empty'
    PROVE  Placed'
<1>1. ~empty
  <2>1. CASE \E n \in 0 .. FrameSize : FrameArrives(n)
    <3>1. PICK n \in 0 .. FrameSize : empty' = (empty \/ (n = 0 /\ given < total))
      BY <2>1 DEF FrameArrives
    <3>2. QED
      BY <3>1, Zenon
  <2>2. CASE ~\E n \in 0 .. FrameSize : FrameArrives(n)
    <3>1. empty' = empty
      BY <2>2 DEF Next, vars, Configure, StartRead, TimedOut, Poll, UseBuffer, EnterRefill,
         ExitRefill, PrebufferDone, ReadPass, ReadCodec, ReadPrebuffered, Deliver,
         SourceAnswers, TakeLeftover, SourceGives, SourceEnds, SourcePends, SourceFails
    <3>2. QED
      BY <3>1
  <2>3. QED
    BY <2>1, <2>2
<1>2. PICK p1 \in Nat, p2 \in Nat : At(p1, p2) /\ Control(p1, p2)
  BY <1>1 DEF IInv, Placed
<1>3. KindInv /\ GrowInv /\ TypeInv
  BY DEF IInv
<1>4. CASE \/ UNCHANGED vars \/ TimedOut \/ UseBuffer \/ ExitRefill \/ PrebufferDone
           \/ SourcePends \/ SourceFails
           \/ \E attempt \in BOOLEAN, when \in {"never", "armed"} : Configure(attempt, when)
           \/ \E room \in ReadSizes : StartRead(room)
  BY <1>2, <1>3, <1>4, StillSteps
<1>5. CASE EnterRefill
  BY <1>2, <1>5, EnterStep
<1>6. CASE TakeLeftover
  BY <1>2, <1>3, <1>6, LeftoverStep
<1>7. CASE \E n \in 1 .. total : SourceGives(n)
  BY <1>2, <1>3, <1>7, SourceGivesStep
<1>8. CASE \E n \in 0 .. FrameSize : FrameArrives(n)
  BY <1>2, <1>3, <1>8, FrameStep
<1>9. CASE SourceEnds
  BY <1>2, <1>3, <1>9, SourceEndsStep
<1>10. CASE ReadPass
  BY <1>2, <1>3, <1>10, PassStep
<1>11. CASE ReadCodec
  BY <1>2, <1>3, <1>11, CodecStep
<1>12. CASE ReadPrebuffered
  BY <1>2, <1>3, <1>12, PrebufferedStep
<1>13. QED
  BY <1>4, <1>5, <1>6, <1>7, <1>8, <1>9, <1>10, <1>11, <1>12 DEF Next, Poll, SourceAnswers

THEOREM Inductive == Spec => []IInv
<1>1. Init => IInv
  BY KindInit, TypeInit, PlacedInit DEF IInv
<1>2. IInv /\ [Next]_vars => IInv'
  BY TypesKept, StepPlaced DEF IInv
<1>3. QED
  BY <1>1, <1>2, PTL DEF Spec

\* Without a CharCodec a read gives zero bytes only at the end of the body, for
\* every body, source, growth of the buffer and size of the reads, and when it
\* was prebuffered (body.rs:558-572, 829-867; body_codec.rs:243-300).
THEOREM EndIsTheEndCorrect == Spec => []EndIsTheEnd
<1>1. IInv => EndIsTheEnd
  <2> SUFFICES ASSUME IInv, ended, ~empty, ~codec PROVE out \o pre = Whole
    BY DEF EndIsTheEnd
  <2>1. PICK p1 \in Nat, p2 \in Nat : At(p1, p2) /\ Control(p1, p2)
    BY DEF IInv, Placed
  <2>2. p1 = total /\ out \o pre \o decoded = Bytes(0, total) /\ decoded = <<>>
    BY <2>1 DEF At, Control, Got
  <2>3. out \o pre \in Seq(1 .. total)
    BY ConcatType DEF IInv, TypeInv, DataOK
  <2>4. (out \o pre) \o <<>> = out \o pre
    BY <2>3, ConcatEmptySeq
  <2>5. QED
    BY <2>2, <2>4 DEF Whole, Text
<1>2. QED
  BY <1>1, Inductive, PTL

\* What the codec made and holds, and what it has yet to be fed, is the text.
LEMMA AllThere ==
    ASSUME NEW p1 \in Nat, total \in Nat, p1 <= total, codec, isEnd => p1 = total, dec = p1
    PROVE  Got(p1) \o Held \o Text(Bytes(p1, total)) = Whole
<1>1. PICK f : f = Completed(Bytes(0, p1))
  OBVIOUS
<1>2. PICK g : g = Completed(Bytes(p1, total))
  OBVIOUS
<1>3. PICK cut : cut = Cut(0)
  OBVIOUS
<1>4. 0 \in Nat /\ 0 <= p1 /\ 0 <= total
  OBVIOUS
<1>5. f \in Seq(Int) /\ g \in Seq(Int) /\ cut \in Seq(Int)
  <2>1. cut \in Seq(Int)
    BY <1>3 DEF Cut
  <2>2. QED
    BY <1>1, <1>2, <1>4, <2>1, AmongBytesType DEF Completed
<1>6. Whole = (f \o g) \o cut
  <2>1. Among(Ends, Bytes(0, p1)) \o Among(Ends, Bytes(p1, total)) = Among(Ends, Bytes(0, total))
    BY AmongConcatAll
  <2>2. Text(Bytes(0, total)) = Completed(Bytes(0, total)) \o Cut(0)
    BY <1>4, TextIs
  <2>3. QED
    BY <1>1, <1>2, <1>3, <2>1, <2>2 DEF Whole, Completed
<1>7. Text(Bytes(p1, total)) = g \o Cut(p1)
  BY <1>2, TextIs
<1>8. Got(p1) = f \o (IF isEnd THEN cut ELSE <<>>)
  BY <1>1, <1>3 DEF Got
<1>9. f \o <<>> = f /\ f \o g \in Seq(Int) /\ f \o cut \in Seq(Int)
      /\ <<>> \in Seq(Int) /\ <<>> \o <<>> = <<>>
  BY <1>5, ConcatType, ConcatEmptySeq, EmptySeq
<1>10. CASE p1 = total
  <2>1. g = <<>> /\ Cut(p1) = <<>>
    BY <1>2, <1>10, AmongOfNone DEF Completed, Cut
  <2>2. Text(Bytes(p1, total)) = <<>> /\ Whole = f \o cut
    BY <1>6, <1>7, <1>9, <2>1
  <2>3. (f \o cut) \o <<>> = f \o cut
    BY <1>9, ConcatEmptySeq
  <2>4. CASE isEnd
    <3>1. Held = <<>> /\ Got(p1) = f \o cut
      BY <1>8, <2>4 DEF Held
    <3>2. QED
      BY <2>2, <2>3, <3>1
  <2>5. CASE ~isEnd
    <3>1. Held = cut
      <4>1. total > 0 <=> 0 < total
        OBVIOUS
      <4>2. Held = IF total > 0 /\ ~IsLast(total) THEN <<total>> ELSE <<>>
        BY <1>10, <2>5 DEF Held
      <4>3. QED
        BY <1>3, <4>1, <4>2 DEF Cut
    <3>2. Got(p1) = f
      BY <1>8, <1>9, <2>5
    <3>3. QED
      BY <2>2, <2>3, <3>1, <3>2
  <2>6. QED
    BY <2>4, <2>5
<1>11. CASE p1 < total
  <2>1. ~isEnd /\ Held = <<>>
    BY <1>11 DEF Held
  <2>2. Cut(p1) = cut
    BY <1>3, <1>11 DEF Cut
  <2>3. Got(p1) = f
    BY <1>8, <1>9, <2>1
  <2>4. (f \o g) \o cut = f \o (g \o cut)
    BY <1>5, IntsAssociate
  <2>5. QED
    BY <1>6, <1>7, <1>9, <2>1, <2>2, <2>3, <2>4
<1>12. QED
  BY <1>10, <1>11

\* Nothing of a body is lost, repeated or moved between its source, the leftovers
\* of a frame, the buffer, the codec with its decoded text, the prebuffered
\* contents and the reader, whatever there is room to decode and to hand on
\* (body_codec.rs:168-300, charset.rs:45-130, body.rs:588-640).
THEOREM NothingLostCorrect == Spec => []NothingLost
<1>1. IInv => NothingLost
  <2> SUFFICES ASSUME IInv, ~empty
               PROVE  out \o pre \o decoded \o Held
                        \o Text(Unconsumed \o leftover \o Bytes(given, total)) = Whole
    BY DEF NothingLost
  <2>1. PICK p1 \in Nat, p2 \in Nat : At(p1, p2) /\ Control(p1, p2)
    BY DEF IInv, Placed
  <2>2. /\ given \in Nat /\ total \in Nat /\ p1 <= p2 /\ p2 <= given /\ given <= total
        /\ p1 <= given /\ p1 <= total
        /\ leftover = Bytes(p2, given) /\ Unconsumed = Bytes(p1, p2)
    BY <2>1, UnconsumedIs, EndFacts DEF At, IInv
  <2>3. Unconsumed \o leftover \o Bytes(given, total) = Bytes(p1, total)
    <3>1. Bytes(p1, p2) \o Bytes(p2, given) = Bytes(p1, given)
      BY <2>2, BytesConcat
    <3>2. Bytes(p1, given) \o Bytes(given, total) = Bytes(p1, total)
      BY <2>2, BytesConcat
    <3>3. QED
      BY <2>2, <3>1, <3>2
  <2>4. out \o pre \o decoded = Got(p1)
    BY <2>1 DEF At
  <2>5. CASE codec
    <3>1. dec = p1 /\ (isEnd => p1 = total)
      BY <2>1, <2>5 DEF At, Control
    <3>2. Got(p1) \o Held \o Text(Bytes(p1, total)) = Whole
      BY <2>2, <2>5, <3>1, AllThere
    <3>3. QED
      BY <2>3, <2>4, <3>2
  <2>6. CASE ~codec
    <3>1. Got(p1) = Bytes(0, p1) /\ Held = <<>> /\ Whole = Bytes(0, total)
          /\ Text(Bytes(p1, total)) = Bytes(p1, total)
      BY <2>6 DEF Got, Held, Whole, Text
    <3>2. 0 \in Nat /\ 0 <= p1
      OBVIOUS
    <3>3. Bytes(0, p1) \o <<>> = Bytes(0, p1)
      <4>1. Bytes(0, p1) \in Seq(Int)
        BY <3>2, BytesFacts
      <4>2. QED
        BY <4>1, ConcatEmptySeq
    <3>4. Bytes(0, p1) \o Bytes(p1, total) = Bytes(0, total)
      BY <2>2, <3>2, BytesConcat
    <3>5. QED
      BY <2>3, <2>4, <3>1, <3>3, <3>4
  <2>7. QED
    BY <2>5, <2>6
<1>2. QED
  BY <1>1, Inductive, PTL
=============================================================================
