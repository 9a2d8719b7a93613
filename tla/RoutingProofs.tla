--------------------------- MODULE RoutingProofs ---------------------------
(***************************************************************************)
(* Proofs about Routing: a request is dispatched as the registrations      *)
(* read, and the parameters of a path rebuild it.                          *)
(*                                                                         *)
(* Paths.  What Segments() returns is a beginning of the path; a plain     *)
(* pattern matches itself only; and the parameters of a path, put back     *)
(* into the pattern, flatten to the path (PutBackGives).                   *)
(*                                                                         *)
(* Registrations.  The inductive invariant relates the endpoints of every  *)
(* router to the log, entry by entry (Standing): an endpoint is there for  *)
(* an entry that stands, and has its path, method and middlewares; an      *)
(* entry that stands has an endpoint.  Each action adds one entry, so the  *)
(* lemmas say what a longer log changes (LogIsLonger).                         *)
(*                                                                         *)
(* Requests.  ReqOK says what a request that is dispatched has of the      *)
(* routers it goes through.                                                *)
(***************************************************************************)
EXTENDS Routing, WellFoundedInduction, FiniteSetTheorems, SequenceTheorems, TLAPS

\* Any numbers have a least one: induction on the numbers below.
LEMMA Least ==
    ASSUME NEW T \in SUBSET Nat, T # {}
    PROVE  \E x \in T : \A y \in T : x <= y
<1>1. PICK U : U = {1 .. x : x \in T}
  OBVIOUS
<1>2. U \subseteq FiniteSubsetsOf(Nat) /\ U # {}
  <2>1. \A x \in T : 1 .. x \in FiniteSubsetsOf(Nat)
    BY FS_Interval DEF FiniteSubsetsOf
  <2>2. QED
    BY <1>1, <2>1
<1>3. PICK R : R = StrictSubsetOrdering(Nat)
  OBVIOUS
<1>4. PICK W : W = FiniteSubsetsOf(Nat)
  OBVIOUS
<1>5. PICK u \in U : \A v \in U : ~(<<v, u>> \in R)
  BY <1>2, <1>3, <1>4, FS_StrictSubsetOrderingWellFounded, WFMin
<1>6. PICK x \in T : u = 1 .. x
  BY <1>1
<1>7. ASSUME NEW y \in T, ~(x <= y) PROVE FALSE
  <2>1. 1 .. y \in U
    BY <1>1
  <2>2. 1 .. y \subseteq 1 .. x /\ x \in 1 .. x /\ x \notin 1 .. y
    BY <1>7
  <2>3. <<1 .. y, 1 .. x>> \in R
    BY <1>3, <2>2 DEF StrictSubsetOrdering
  <2>4. QED
    BY <1>5, <1>6, <2>1, <2>3
<1>8. QED
  BY <1>6, <1>7
-----------------------------------------------------------------------------
\* A function that flattens, beginning with the first.
Flattens(s, f) == f = [i \in 1 .. Len(s) |-> IF i = 1 THEN s[i] ELSE f[i - 1] \o s[i]]

\* Each of s but the last is one piece of t, and the last is what is left.
Pieces(s, t) ==
    /\ \A i \in 1 .. Len(s) - 1 : s[i] = SubSeq(t, i, i)
    /\ s[Len(s)] = SubSeq(t, Len(s), Len(t))

LEMMA OnePiece ==
    ASSUME NEW S, NEW t \in Seq(S), NEW i \in 1 .. Len(t)
    PROVE  SubSeq(t, i, i) = <<t[i]>>
<1>1. PICK piece \in S : piece = t[i]
  BY ElementOfSeq
<1>2. PICK one : one = SubSeq(t, i, i)
  OBVIOUS
<1>3. one \in Seq(S) /\ Len(one) = 1 /\ one[1] = piece
  BY <1>1, <1>2
<1>4. PICK unit : unit = <<piece>>
  OBVIOUS
<1>5. unit \in Seq(S) /\ Len(unit) = 1 /\ unit[1] = piece
  BY <1>4
<1>6. \A k \in 1 .. Len(one) : one[k] = unit[k]
  BY <1>3, <1>5
<1>7. one = unit
  BY <1>3, <1>5, <1>6, SeqEqual
<1>8. QED
  BY <1>1, <1>2, <1>4, <1>7

LEMMA FlattenPieces ==
    ASSUME NEW S, NEW t \in Seq(S), NEW s, Len(s) \in Nat \ {0}, Len(s) <= Len(t), Pieces(s, t)
    PROVE  FlattenSeq(s) = t
<1>1. PICK n \in Nat : n = Len(s) /\ n > 0 /\ n <= Len(t)
  OBVIOUS
<1>2. PICK len \in Nat : len = Len(t) /\ SubSeq(t, 1, len) = t
  OBVIOUS
<1>3. PICK f0 : f0 = [i \in 1 .. n |-> IF i < n THEN SubSeq(t, 1, i) ELSE t]
  OBVIOUS
<1>4. \A i \in 1 .. n : i > 1 => f0[i] = f0[i - 1] \o s[i]
  <2>1. ASSUME NEW i \in 1 .. n, i > 1 PROVE f0[i] = f0[i - 1] \o s[i]
    <3>1. PICK j \in 1 .. n : j = i - 1 /\ j < n
      BY <1>1, <2>1
    <3>2. f0[j] = SubSeq(t, 1, j)
      BY <1>3, <3>1
    <3>3. CASE i < n
      <4>1. s[i] = SubSeq(t, j + 1, i)
        BY <1>1, <2>1, <3>1, <3>3 DEF Pieces
      <4>2. f0[i] = SubSeq(t, 1, i)
        BY <1>3, <3>3
      <4>3. QED
        BY <1>1, <1>2, <3>1, <3>2, <4>1, <4>2, ConcatAdjacentSubSeq
    <3>4. CASE i = n
      <4>1. s[i] = SubSeq(t, j + 1, len)
        BY <1>1, <1>2, <2>1, <3>1, <3>4 DEF Pieces
      <4>2. f0[i] = SubSeq(t, 1, len)
        BY <1>2, <1>3, <3>4
      <4>3. QED
        BY <1>1, <1>2, <3>1, <3>2, <4>1, <4>2, ConcatAdjacentSubSeq
    <3>5. QED
      <4>1. i < n \/ i = n
        BY <1>1, <2>1
      <4>2. QED
        BY <3>3, <3>4, <4>1
  <2>2. QED
    BY <2>1
<1>5. f0[1] = s[1]
  <2>1. CASE n = 1
    <3>1. f0[1] = t
      BY <1>3, <2>1
    <3>2. s[1] = SubSeq(t, 1, len)
      BY <1>1, <1>2, <2>1 DEF Pieces
    <3>3. QED
      BY <1>2, <3>1, <3>2
  <2>2. CASE n > 1
    <3>1. 1 \in 1 .. n /\ 1 < n /\ 1 \in 1 .. n - 1
      BY <1>1, <2>2
    <3>2. f0[1] = SubSeq(t, 1, 1)
      BY <1>3, <3>1
    <3>3. s[1] = SubSeq(t, 1, 1)
      BY <1>1, <3>1 DEF Pieces
    <3>4. QED
      BY <3>2, <3>3
  <2>3. QED
    BY <1>1, <2>1, <2>2
<1>6. Flattens(s, f0)
  <2>1. f0 = [i \in 1 .. n |-> f0[i]]
    BY <1>3
  <2>2. \A i \in 1 .. n : f0[i] = IF i = 1 THEN s[i] ELSE f0[i - 1] \o s[i]
    <3>1. ASSUME NEW i \in 1 .. n, i # 1 PROVE f0[i] = f0[i - 1] \o s[i]
      <4>1. i > 1
        BY <3>1
      <4>2. QED
        BY <1>4, <4>1
    <3>2. QED
      BY <1>5, <3>1
  <2>3. QED
    BY <1>1, <2>1, <2>2 DEF Flattens
<1>7. PICK f : f = CHOOSE g : Flattens(s, g)
  OBVIOUS
<1>8. Flattens(s, f)
  BY <1>6, <1>7
<1>9. f[1] = s[1] /\ \A i \in 1 .. n : i > 1 => f[i] = f[i - 1] \o s[i]
  <2>1. \A i \in 1 .. n : f[i] = IF i = 1 THEN s[i] ELSE f[i - 1] \o s[i]
    BY <1>1, <1>8 DEF Flattens
  <2>2. \A i \in 1 .. n : i > 1 => i # 1
    OBVIOUS
  <2>3. 1 \in 1 .. n
    BY <1>1
  <2>4. f[1] = s[1]
    BY <2>1, <2>3
  <2>5. ASSUME NEW i \in 1 .. n, i > 1 PROVE f[i] = f[i - 1] \o s[i]
    BY <2>1, <2>2, <2>5
  <2>6. QED
    BY <2>4, <2>5
<1>10. ASSUME f[n] # f0[n] PROVE FALSE
  <2>1. PICK T : T = {i \in 1 .. n : f[i] # f0[i]}
    OBVIOUS
  <2>2. PICK i \in T : \A j \in T : i <= j
    <3>1. T \in SUBSET Nat /\ n \in T
      BY <1>1, <1>10, <2>1
    <3>2. QED
      BY <3>1, Least
  <2>3. CASE i = 1
    BY <1>5, <1>9, <2>1, <2>2, <2>3
  <2>4. CASE i > 1
    <3>1. PICK j \in 1 .. n : j = i - 1 /\ j < i
      BY <1>1, <2>1, <2>2, <2>4
    <3>2. f[j] = f0[j]
      BY <1>1, <2>1, <2>2, <3>1
    <3>3. QED
      BY <1>4, <1>9, <2>1, <2>2, <2>4, <3>1, <3>2
  <2>5. QED
    BY <1>1, <2>1, <2>2, <2>3, <2>4
<1>11. FlattenSeq(s) = f[n]
  <2>1. FlattenSeq(s) = (CHOOSE g : Flattens(s, g))[n]
    BY <1>1 DEF FlattenSeq, Flattens
  <2>2. QED
    BY <1>7, <2>1
<1>12. f0[n] = t
  BY <1>1, <1>3
<1>13. QED
  BY <1>10, <1>11, <1>12

-----------------------------------------------------------------------------
\* What is matched of a path: up to its first rest.
LEMMA SegmentsAre ==
    ASSUME NEW path \in Seq(STRING)
    PROVE  /\ Segments(path) \in Seq(STRING) /\ Len(Segments(path)) <= Len(path)
           /\ \A i \in 1 .. Len(Segments(path)) : Segments(path)[i] = path[i]
           /\ \A i \in 1 .. Len(Segments(path)) - 1 : path[i] \notin Rests
           /\ (\A i \in 1 .. Len(path) : path[i] \notin Rests) => Segments(path) = path
<1>1. PICK len \in Nat : len = Len(path) /\ DOMAIN path = 1 .. len
  OBVIOUS
<1>2. PICK rests : rests = {i \in 1 .. len : path[i] \in Rests}
  OBVIOUS
<1>3. Segments(path) = IF rests = {} THEN path
                       ELSE SubSeq(path, 1, CHOOSE i \in rests : \A j \in rests : i <= j)
  BY <1>1, <1>2 DEF Segments
<1>4. CASE rests = {}
  BY <1>1, <1>2, <1>3, <1>4
<1>5. CASE rests # {}
  <2>1. rests \in SUBSET Nat
    BY <1>2
  <2>2. \E i \in rests : \A j \in rests : i <= j
    BY <1>5, <2>1, Least
  <2>3. PICK n \in rests : /\ n = CHOOSE i \in rests : \A j \in rests : i <= j
                          /\ \A j \in rests : n <= j
    BY <2>2
  <2>4. PICK seg : seg = SubSeq(path, 1, n)
    OBVIOUS
  <2>5. seg \in Seq(STRING) /\ Len(seg) = n /\ \A i \in 1 .. n : seg[i] = path[i]
    BY <1>1, <1>2, <2>3, <2>4
  <2>6. \A i \in 1 .. n - 1 : path[i] \notin Rests
    BY <1>1, <1>2, <2>3
  <2>7. n \in 1 .. len /\ path[n] \in Rests
    BY <1>2, <2>3
  <2>8. Segments(path) = seg
    BY <1>3, <1>5, <2>3, <2>4
  <2>9. QED
    BY <1>1, <2>5, <2>6, <2>7, <2>8
<1>6. QED
  BY <1>4, <1>5

LEMMA PlainMatches ==
    ASSUME NEW p \in Seq(STRING), NEW path \in Seq(STRING), Matches(p, path),
           \A i \in DOMAIN p : ~Wild(p[i])
    PROVE  path = p
<1>1. Segments(p) = p
  BY SegmentsAre DEF Wild
<1>2. PICK n \in Nat : n = Len(p) /\ DOMAIN p = 1 .. n
  OBVIOUS
<1>3. /\ IF n > 0 /\ p[n] \in Rests THEN Len(path) >= n ELSE Len(path) = n
      /\ \A i \in 1 .. n : Wild(p[i]) \/ p[i] = path[i]
  BY <1>1, <1>2 DEF Matches
<1>4. Len(path) = n
  BY <1>2, <1>3 DEF Wild
<1>5. \A i \in 1 .. n : p[i] = path[i]
  BY <1>2, <1>3
<1>6. QED
  BY <1>2, <1>4, <1>5, SeqEqual

\* A path whose named wildcards have names of their own.
NamesOnce(p) ==
    \A i, j \in NamedIn(Segments(p)) : Segments(p)[i] = Segments(p)[j] => i = j

LEMMA ParamOf ==
    ASSUME NEW p, NEW path, NamesOnce(p), NEW i \in NamedIn(Segments(p))
    PROVE  Params(p, path)[Segments(p)[i]] =
             IF Segments(p)[i] \in Rests THEN SubSeq(path, i, Len(path)) ELSE <<path[i]>>
<1>1. PICK seg : seg = Segments(p)
  OBVIOUS
<1>2. PICK name : name = seg[i]
  OBVIOUS
<1>3. PICK k : k = CHOOSE j \in NamedIn(seg) : seg[j] = name
  OBVIOUS
<1>4. k = i
  BY <1>1, <1>2, <1>3 DEF NamesOnce
<1>5. Params(p, path) = [nm \in {seg[j] : j \in NamedIn(seg)} |->
            LET m == CHOOSE j \in NamedIn(seg) : seg[j] = nm
            IN  IF nm \in Rests THEN SubSeq(path, m, Len(path)) ELSE <<path[m]>>]
  BY <1>1 DEF Params
<1>6. name \in {seg[j] : j \in NamedIn(seg)}
  BY <1>1, <1>2
<1>7. Params(p, path)[name] = IF name \in Rests THEN SubSeq(path, k, Len(path)) ELSE <<path[k]>>
  BY <1>3, <1>5, <1>6
<1>8. QED
  BY <1>1, <1>2, <1>4, <1>7

\* The parameters put back into the path that matched.
PutBack(p, params) ==
    [i \in DOMAIN Segments(p) |->
        IF Wild(Segments(p)[i]) THEN params[Segments(p)[i]] ELSE <<Segments(p)[i]>>]

LEMMA PutBackGives ==
    ASSUME NEW p \in Seq(STRING), NEW path \in Seq(STRING), Matches(p, path), NamesOnce(p),
           \A i \in DOMAIN Segments(p) : Segments(p)[i] \notin Nameless
    PROVE  path = FlattenSeq(PutBack(p, Params(p, path)))
<1>1. PICK seg : seg = Segments(p)
  OBVIOUS
<1>2. PICK n \in Nat : /\ n = Len(seg) /\ DOMAIN seg = 1 .. n
                      /\ \A i \in 1 .. n - 1 : seg[i] \notin Rests
  <2>1. seg \in Seq(STRING)
    BY <1>1, SegmentsAre
  <2>2. PICK n \in Nat : n = Len(seg) /\ DOMAIN seg = 1 .. n
    BY <2>1
  <2>3. /\ \A i \in 1 .. n - 1 : p[i] \notin Rests
        /\ \A i \in 1 .. n : seg[i] = p[i]
    BY <1>1, <2>2, SegmentsAre
  <2>4. \A i \in 1 .. n - 1 : i \in 1 .. n
    BY <2>2
  <2>5. QED
    BY <2>2, <2>3, <2>4
<1>3. PICK len \in Nat : len = Len(path)
  OBVIOUS
<1>4. /\ IF n > 0 /\ seg[n] \in Rests THEN len >= n ELSE len = n
      /\ \A i \in 1 .. n : Wild(seg[i]) \/ seg[i] = path[i]
  BY <1>1, <1>2, <1>3 DEF Matches
<1>5. PICK s : s = PutBack(p, Params(p, path))
  OBVIOUS
<1>6. s = [i \in 1 .. n |-> IF Wild(seg[i]) THEN Params(p, path)[seg[i]] ELSE <<seg[i]>>]
  BY <1>1, <1>2, <1>5 DEF PutBack
<1>7. \A i \in 1 .. n : Wild(seg[i]) => i \in NamedIn(seg)
  BY <1>1, <1>2 DEF NamedIn
<1>8. \A i \in 1 .. n : s[i] = IF seg[i] \in Rests THEN SubSeq(path, i, len) ELSE <<path[i]>>
  <2>1. ASSUME NEW i \in 1 .. n PROVE s[i] = IF seg[i] \in Rests THEN SubSeq(path, i, len) ELSE <<path[i]>>
    <3>1. CASE Wild(seg[i])
      BY <1>1, <1>3, <1>6, <1>7, <2>1, <3>1, ParamOf
    <3>2. CASE ~Wild(seg[i])
      BY <1>4, <1>6, <2>1, <3>2 DEF Wild
    <3>3. QED
      BY <3>1, <3>2
  <2>2. QED
    BY <2>1
<1>9. n <= len
  BY <1>2, <1>3, <1>4
<1>10. \A i \in 1 .. n : SubSeq(path, i, i) = <<path[i]>>
  <2>1. ASSUME NEW i \in 1 .. n PROVE SubSeq(path, i, i) = <<path[i]>>
    <3>1. i \in 1 .. len
      BY <1>9, <2>1
    <3>2. QED
      BY <1>3, <3>1, OnePiece
  <2>2. QED
    BY <2>1
<1>11. Len(s) = n
  <2>1. PICK V : V = {s[i] : i \in 1 .. n}
    OBVIOUS
  <2>2. s \in [1 .. n -> V]
    BY <1>6, <2>1
  <2>3. s \in Seq(V) /\ Len(s) = n
    BY <2>2
  <2>4. QED
    BY <2>3
<1>12. CASE n = 0
  <2>1. FlattenSeq(s) = s
    BY <1>11, <1>12 DEF FlattenSeq
  <2>2. s = <<>>
    BY <1>6, <1>12
  <2>3. path = <<>>
    <3>1. Len(path) = 0
      BY <1>3, <1>4, <1>12
    <3>2. QED
      BY <3>1, EmptySeq
  <2>4. QED
    BY <1>5, <2>1, <2>2, <2>3
<1>13. CASE n > 0
  <2>1. \A i \in 1 .. n - 1 : s[i] = SubSeq(path, i, i)
    <3>1. \A i \in 1 .. n - 1 : i \in 1 .. n
      OBVIOUS
    <3>2. QED
      BY <1>2, <1>8, <1>10, <3>1
  <2>2. s[n] = SubSeq(path, n, len)
    <3>1. n \in 1 .. n
      BY <1>13
    <3>2. seg[n] \notin Rests => len = n
      BY <1>4
    <3>3. QED
      BY <1>8, <1>10, <3>1, <3>2
  <2>3. Pieces(s, path)
    BY <1>3, <1>11, <2>1, <2>2 DEF Pieces
  <2>4. QED
    BY <1>2, <1>3, <1>5, <1>9, <1>11, <1>13, <2>3, FlattenPieces
<1>14. QED
  BY <1>2, <1>12, <1>13
-----------------------------------------------------------------------------
\* What is registered.
Paths == UNION {Patterns[r] : r \in Routers}

Entries ==
    [op : {"at"}, router : Routers, path : Paths] \cup [op : {"middleware"}, mid : Middlewares]
        \cup [op : {"handler"}, method : Methods \cup {All}] \cup [op : {"router"}, router : Routers]
        \cup [op : {"listen"}]

\* Entry j is the last call of at() up to entry i.
IsAt(entries, j, i) ==
    j \in 1 .. i /\ entries[j].op = "at" /\ \A k \in j + 1 .. i : entries[k].op # "at"

EndOp == {"handler", "router"}

\* A log of calls that the compiler lets be made.
IsLog(entries) ==
    /\ entries \in Seq(Entries)
    /\ \A i \in 1 .. Len(entries) :
          entries[i].op \in EndOp => IsAt(entries, AtOf(entries, i), i)

\* An endpoint as entry e.id asks for it.
IsEndpoint(e, entries) ==
    /\ e = [method |-> e.method, path |-> e.path, mids |-> e.mids, id |-> e.id, end |-> e.end]
    /\ e.id \in 1 .. Len(entries) /\ e.mids \in Seq(Middlewares)
    /\ e.path = entries[AtOf(entries, e.id)].path
    /\ AddedAt(e.mids, entries, MiddlewaresOf(entries, e.id))
    /\ entries[e.id].op = "handler" => e.method = entries[e.id].method /\ e.end = "handler"
    /\ entries[e.id].op = "router" => e.method = All /\ e.end = entries[e.id].router

\* The endpoints of a router are those that stand.
Standing(endpoints, r, entries) ==
    /\ \A e \in endpoints :
          /\ IsEndpoint(e, entries) /\ Stands(entries, e.id)
          /\ entries[AtOf(entries, e.id)].router = r
    /\ \A i \in 1 .. Len(entries) :
          Stands(entries, i) /\ entries[AtOf(entries, i)].router = r =>
             \E e \in endpoints : e.id = i

Follow(rs, entries) == \A r \in Routers : Standing(rs[r].endpoints, r, entries)

-----------------------------------------------------------------------------
LEMMA AtIs ==
    ASSUME NEW entries, NEW i \in Nat, NEW j, IsAt(entries, j, i)
    PROVE  AtOf(entries, i) = j
<1>1. \A k \in 1 .. i :
        entries[k].op = "at" /\ (\A l \in k + 1 .. i : entries[l].op # "at") => k = j
  BY DEF IsAt
<1>2. QED
  BY <1>1 DEF IsAt, AtOf

\* A log with one entry more.
LogIsLonger(entries, x, more) ==
    entries \in Seq(Entries) /\ x \in Entries /\ more = Append(entries, x)

LEMMA LogGrows ==
    ASSUME NEW entries, NEW x, NEW more, LogIsLonger(entries, x, more)
    PROVE  /\ more \in Seq(Entries) /\ Len(more) = Len(entries) + 1
           /\ \A i \in 1 .. Len(entries) : more[i] = entries[i]
           /\ more[Len(entries) + 1] = x
  BY DEF LogIsLonger

LEMMA AtStays ==
    ASSUME NEW entries, NEW x, NEW more, LogIsLonger(entries, x, more),
           NEW i \in 1 .. Len(entries), NEW a, IsAt(entries, a, i)
    PROVE  IsAt(more, a, i) /\ AtOf(more, i) = a /\ AtOf(entries, i) = a
<1>1. PICK n \in Nat : n = Len(entries) /\ \A k \in 1 .. n : more[k] = entries[k]
  BY LogGrows
<1>2. IsAt(more, a, i)
  BY <1>1 DEF IsAt
<1>3. QED
  BY <1>2, AtIs

LEMMA AtMoves ==
    ASSUME NEW entries, NEW x, NEW more, LogIsLonger(entries, x, more),
           NEW a, IsAt(entries, a, Len(entries))
    PROVE  /\ x.op # "at" => IsAt(more, a, Len(entries) + 1)
           /\ x.op # "at" => AtOf(more, Len(entries) + 1) = a
<1>1. PICK n \in Nat : n = Len(entries) /\ (\A k \in 1 .. n : more[k] = entries[k]) /\ more[n + 1] = x
  BY LogGrows
<1>2. x.op # "at" => IsAt(more, a, n + 1)
  BY <1>1 DEF IsAt
<1>3. QED
  BY <1>1, <1>2, AtIs

LEMMA AtBegins ==
    ASSUME NEW entries, NEW x, NEW more, LogIsLonger(entries, x, more),
           x.op = "at"
    PROVE  IsAt(more, Len(entries) + 1, Len(entries) + 1) /\ AtOf(more, Len(entries) + 1) = Len(entries) + 1
<1>1. PICK n \in Nat : n = Len(entries) /\ more[n + 1] = x
  BY LogGrows
<1>2. IsAt(more, n + 1, n + 1)
  BY <1>1 DEF IsAt
<1>3. QED
  BY <1>1, <1>2, AtIs

\* A call is for the last at(), if it is for one.
LEMMA LogStays ==
    ASSUME NEW entries, IsLog(entries), NEW x, NEW more, LogIsLonger(entries, x, more),
           x.op \in EndOp => \E a : IsAt(entries, a, Len(entries))
    PROVE  /\ IsLog(more)
           /\ \A i \in 1 .. Len(entries) :
                 entries[i].op \in EndOp => AtOf(more, i) = AtOf(entries, i)
                                            /\ AtOf(entries, i) \in 1 .. i
<1>1. entries \in Seq(Entries)
  BY DEF IsLog
<1>2. PICK n \in Nat : n = Len(entries) /\ Len(more) = n + 1 /\ (\A k \in 1 .. n : more[k] = entries[k])
         /\ more[n + 1] = x /\ more \in Seq(Entries)
  BY LogGrows
<1>3. ASSUME NEW i \in 1 .. n, entries[i].op \in EndOp
      PROVE  AtOf(more, i) = AtOf(entries, i) /\ IsAt(more, AtOf(more, i), i) /\ AtOf(entries, i) \in 1 .. i
  <2>1. PICK a : a = AtOf(entries, i)
    OBVIOUS
  <2>2. IsAt(entries, a, i)
    BY <1>2, <1>3, <2>1 DEF IsLog
  <2>3. IsAt(more, a, i) /\ AtOf(more, i) = a
    BY <1>1, <1>2, <2>2, AtStays
  <2>4. QED
    BY <2>1, <2>2, <2>3 DEF IsAt
<1>4. x.op \in EndOp => IsAt(more, AtOf(more, n + 1), n + 1)
  BY <1>1, <1>2, AtMoves DEF EndOp
<1>5. QED
  BY <1>2, <1>3, <1>4 DEF IsLog
-----------------------------------------------------------------------------
LEMMA AddedStays ==
    ASSUME NEW mids, NEW entries, NEW more, NEW places,
           \A j \in places : more[j] = entries[j], AddedAt(mids, entries, places)
    PROVE  AddedAt(mids, more, places)
<1>1. PICK at \in [DOMAIN mids -> places] :
        /\ \A k \in DOMAIN mids : mids[k] = entries[at[k]].mid
        /\ \A k, l \in DOMAIN mids : k < l => at[k] < at[l]
        /\ \A j \in places : \E k \in DOMAIN mids : at[k] = j
  BY DEF AddedAt
<1>2. \A k \in DOMAIN mids : mids[k] = more[at[k]].mid
  BY <1>1
<1>3. QED
  BY <1>1, <1>2 DEF AddedAt

\* What is known of an entry when another one follows.
LEMMA EntryStays ==
    ASSUME NEW entries, NEW x, NEW more, LogIsLonger(entries, x, more),
           NEW i \in 1 .. Len(entries), NEW a, IsAt(entries, a, i)
    PROVE  /\ MiddlewaresOf(more, i) = MiddlewaresOf(entries, i)
           /\ \A mids : AddedAt(mids, entries, MiddlewaresOf(entries, i)) =>
                          AddedAt(mids, more, MiddlewaresOf(more, i))
<1>1. PICK n \in Nat : n = Len(entries) /\ \A k \in 1 .. n : more[k] = entries[k]
  BY LogGrows
<1>2. AtOf(more, i) = a /\ AtOf(entries, i) = a /\ a \in 1 .. i
  <2>1. AtOf(more, i) = a /\ AtOf(entries, i) = a
    BY AtStays
  <2>2. QED
    BY <2>1 DEF IsAt
<1>3. \A j \in a .. i : more[j] = entries[j]
  BY <1>1, <1>2
<1>4. MiddlewaresOf(more, i) = MiddlewaresOf(entries, i)
  BY <1>2, <1>3 DEF MiddlewaresOf
<1>5. \A j \in MiddlewaresOf(entries, i) : more[j] = entries[j]
  BY <1>2, <1>3 DEF MiddlewaresOf
<1>6. QED
  BY <1>4, <1>5, AddedStays

Overwrites(x, at) == x.op = "at" /\ x.router = at.router /\ Shape(x.path) = Shape(at.path)

LEMMA StandsOn ==
    ASSUME NEW entries, NEW x, NEW more, LogIsLonger(entries, x, more),
           NEW i \in 1 .. Len(entries), NEW a, IsAt(entries, a, i)
    PROVE  /\ AtOf(more, i) = a /\ AtOf(entries, i) = a /\ more[a] = entries[a] /\ more[i] = entries[i]
           /\ Stands(more, i) <=> Stands(entries, i) /\ ~Overwrites(x, entries[a])
<1>1. PICK n \in Nat : n = Len(entries) /\ Len(more) = n + 1 /\ (\A k \in 1 .. n : more[k] = entries[k])
         /\ more[n + 1] = x
  BY LogGrows
<1>2. AtOf(more, i) = a /\ AtOf(entries, i) = a /\ a \in 1 .. i
  <2>1. AtOf(more, i) = a /\ AtOf(entries, i) = a
    BY AtStays
  <2>2. QED
    BY <2>1 DEF IsAt
<1>3. more[a] = entries[a] /\ more[i] = entries[i]
  BY <1>1, <1>2
<1>4. PICK at : at = entries[a]
  OBVIOUS
<1>5. Stands(more, i) <=>
         more[i].op \in {"handler", "router"} /\ \A j \in i + 1 .. n + 1 : ~Overwrites(more[j], at)
  BY <1>1, <1>2, <1>3, <1>4 DEF Stands, Overwrites
<1>6. Stands(entries, i) <=>
         entries[i].op \in {"handler", "router"} /\ \A j \in i + 1 .. n : ~Overwrites(entries[j], at)
  BY <1>1, <1>2, <1>3, <1>4 DEF Stands, Overwrites
<1>7. (\A j \in i + 1 .. n + 1 : ~Overwrites(more[j], at)) <=>
         (\A j \in i + 1 .. n : ~Overwrites(entries[j], at)) /\ ~Overwrites(x, at)
  <2>1. \A j \in i + 1 .. n : more[j] = entries[j]
    BY <1>1
  <2>2. i + 1 .. n + 1 = (i + 1 .. n) \cup {n + 1}
    BY <1>1
  <2>3. QED
    BY <1>1, <2>1, <2>2
<1>8. QED
  BY <1>2, <1>3, <1>4, <1>5, <1>6, <1>7

LEMMA StandsNew ==
    ASSUME NEW entries, NEW x, NEW more, LogIsLonger(entries, x, more)
    PROVE  Stands(more, Len(entries) + 1) <=> x.op \in EndOp
<1>1. PICK n \in Nat : n = Len(entries) /\ Len(more) = n + 1 /\ more[n + 1] = x
  BY LogGrows
<1>2. n + 2 .. n + 1 = {}
  BY <1>1
<1>3. QED
  BY <1>1, <1>2 DEF Stands, EndOp

\* An endpoint whose entry is followed by another one is the endpoint of that entry still.
LEMMA EndpointStays ==
    ASSUME NEW entries, NEW x, NEW more, LogIsLonger(entries, x, more),
           NEW e, IsEndpoint(e, entries), NEW a, IsAt(entries, a, e.id)
    PROVE  IsEndpoint(e, more)
<1>1. PICK i : i = e.id
  OBVIOUS
<1>2. PICK n \in Nat : n = Len(entries) /\ Len(more) = n + 1
  BY LogGrows
<1>3. i \in 1 .. n /\ i \in 1 .. Len(more)
  BY <1>1, <1>2 DEF IsEndpoint
<1>4. AtOf(more, i) = a /\ AtOf(entries, i) = a /\ more[a] = entries[a] /\ more[i] = entries[i]
  <2>1. IsAt(entries, a, i) /\ i \in 1 .. Len(entries)
    BY <1>1, <1>2, <1>3
  <2>2. QED
    BY <2>1, StandsOn
<1>5. AddedAt(e.mids, more, MiddlewaresOf(more, i))
  BY <1>1, <1>2, <1>3, EntryStays DEF IsEndpoint
<1>6. QED
  BY <1>1, <1>3, <1>4, <1>5 DEF IsEndpoint

-----------------------------------------------------------------------------
Kept(endpoints, r, x) ==
    IF x.op = "at" /\ x.router = r THEN WithoutPath(endpoints, x.path) ELSE endpoints

\* The endpoints that were there before the last entry of a log.
LEMMA StandingStays ==
    ASSUME NEW entries, IsLog(entries), NEW x, NEW more, LogIsLonger(entries, x, more),
           NEW endpoints, NEW r, Standing(endpoints, r, entries), NEW kept, kept = Kept(endpoints, r, x)
    PROVE  /\ \A e \in kept :
                 /\ IsEndpoint(e, more) /\ Stands(more, e.id) /\ more[AtOf(more, e.id)].router = r
                 /\ e.id \in 1 .. Len(entries)
           /\ \A i \in 1 .. Len(entries) :
                 Stands(more, i) /\ more[AtOf(more, i)].router = r => \E e \in kept : e.id = i
<1>1. entries \in Seq(Entries)
  BY DEF IsLog
<1>2. kept \subseteq endpoints
  BY DEF Kept, WithoutPath
<1>3. \A e \in kept : x.op = "at" /\ x.router = r => Shape(e.path) # Shape(x.path)
  BY DEF Kept, WithoutPath
<1>4. \A e \in endpoints : e \notin kept => x.op = "at" /\ x.router = r /\ Shape(e.path) = Shape(x.path)
  BY DEF Kept, WithoutPath
<1>5. ASSUME NEW e \in kept
      PROVE  /\ IsEndpoint(e, more) /\ Stands(more, e.id) /\ more[AtOf(more, e.id)].router = r
             /\ e.id \in 1 .. Len(entries)
  <2>1. PICK i, a : i = e.id /\ a = AtOf(entries, i)
    OBVIOUS
  <2>2. IsEndpoint(e, entries) /\ Stands(entries, i) /\ entries[a].router = r
    BY <1>2, <1>5, <2>1 DEF Standing
  <2>3. i \in 1 .. Len(entries) /\ e.path = entries[a].path
    BY <2>1, <2>2 DEF IsEndpoint
  <2>4. IsAt(entries, a, i)
    BY <2>1, <2>2, <2>3 DEF IsLog, Stands, EndOp
  <2>5. IsEndpoint(e, more)
    BY <1>1, <2>1, <2>2, <2>4, EndpointStays
  <2>6. ~Overwrites(x, entries[a])
    BY <1>3, <1>5, <2>2, <2>3 DEF Overwrites
  <2>7. AtOf(more, i) = a /\ more[a] = entries[a] /\ Stands(more, i)
    <3>1. i \in 1 .. Len(entries)
      BY <2>3
    <3>2. QED
      BY <1>1, <2>2, <3>1, <2>4, <2>6, StandsOn
  <2>8. QED
    BY <2>1, <2>2, <2>3, <2>5, <2>7
<1>6. ASSUME NEW i \in 1 .. Len(entries), Stands(more, i), more[AtOf(more, i)].router = r
      PROVE  \E e \in kept : e.id = i
  <2>1. more[i] = entries[i]
    BY <1>1, LogGrows
  <2>2. PICK a : a = AtOf(entries, i)
    OBVIOUS
  <2>3. IsAt(entries, a, i)
    BY <1>6, <2>1, <2>2 DEF IsLog, Stands, EndOp
  <2>4. AtOf(more, i) = a /\ more[a] = entries[a] /\ Stands(entries, i) /\ ~Overwrites(x, entries[a])
    BY <1>1, <1>6, <2>3, StandsOn
  <2>5. PICK e \in endpoints : e.id = i
    BY <1>6, <2>2, <2>4 DEF Standing
  <2>6. e.path = entries[a].path
    BY <2>2, <2>5 DEF Standing, IsEndpoint
  <2>7. e \in kept
    BY <1>4, <1>6, <2>4, <2>5, <2>6 DEF Overwrites
  <2>8. QED
    BY <2>5, <2>7
<1>7. QED
  BY <1>5, <1>6

\* Router::at(), middleware() and listen() add no endpoint.
LEMMA StandingKept ==
    ASSUME NEW entries, IsLog(entries), NEW x, x.op \notin EndOp,
           NEW more, LogIsLonger(entries, x, more),
           NEW endpoints, NEW r, Standing(endpoints, r, entries)
    PROVE  Standing(Kept(endpoints, r, x), r, more)
<1>1. entries \in Seq(Entries)
  BY DEF IsLog
<1>2. PICK n \in Nat : n = Len(entries) /\ Len(more) = n + 1
  BY <1>1, LogGrows
<1>3. ~Stands(more, n + 1)
  BY <1>1, <1>2, StandsNew
<1>4. PICK kept : kept = Kept(endpoints, r, x)
  OBVIOUS
<1>5. \A i \in 1 .. n + 1 : Stands(more, i) => i \in 1 .. n
  BY <1>2, <1>3
<1>6. QED
  BY <1>2, <1>4, <1>5, StandingStays DEF Standing

\* add_handler() and router() add one, to the router of the route.
LEMMA StandingAdds ==
    ASSUME NEW entries, IsLog(entries), NEW x, x.op \in EndOp,
           NEW more, LogIsLonger(entries, x, more), NEW a, IsAt(entries, a, Len(entries)),
           NEW e, IsEndpoint(e, more), e.id = Len(more),
           NEW endpoints, NEW r, Standing(endpoints, r, entries)
    PROVE  Standing(IF r = entries[a].router THEN endpoints \cup {e} ELSE endpoints, r, more)
<1>1. entries \in Seq(Entries)
  BY DEF IsLog
<1>2. PICK n \in Nat : n = Len(entries) /\ Len(more) = n + 1 /\ \A k \in 1 .. n : more[k] = entries[k]
  BY <1>1, LogGrows
<1>3. Stands(more, n + 1)
  BY <1>1, <1>2, StandsNew
<1>4. AtOf(more, n + 1) = a
  BY <1>1, <1>2, AtMoves DEF EndOp
<1>5. more[a] = entries[a]
  BY <1>2 DEF IsAt
<1>6. Kept(endpoints, r, x) = endpoints
  BY DEF Kept, EndOp
<1>7. PICK all : all = IF r = entries[a].router THEN endpoints \cup {e} ELSE endpoints
  OBVIOUS
<1>8. \A f \in all : f \in endpoints \/ (f = e /\ r = entries[a].router)
  BY <1>7
<1>9. \A f \in all : IsEndpoint(f, more) /\ Stands(more, f.id) /\ more[AtOf(more, f.id)].router = r
  <2>1. \A f \in endpoints : IsEndpoint(f, more) /\ Stands(more, f.id) /\ more[AtOf(more, f.id)].router = r
    BY <1>6, StandingStays
  <2>2. QED
    BY <1>2, <1>3, <1>4, <1>5, <1>8, <2>1
<1>10. ASSUME NEW i \in 1 .. n + 1, Stands(more, i), more[AtOf(more, i)].router = r
       PROVE  \E f \in all : f.id = i
  <2>1. CASE i = n + 1
    BY <1>2, <1>4, <1>5, <1>7, <1>10, <2>1
  <2>2. CASE i # n + 1
    <3>1. i \in 1 .. n
      BY <1>2, <1>10, <2>2
    <3>2. \E f \in endpoints : f.id = i
      BY <1>2, <1>6, <1>10, <3>1, StandingStays
    <3>3. QED
      BY <1>7, <3>2
  <2>3. QED
    BY <2>1, <2>2
<1>11. QED
  BY <1>2, <1>7, <1>9, <1>10 DEF Standing
-----------------------------------------------------------------------------
IsRouters(rs) ==
    /\ rs = [r \in Routers |-> [prefix |-> rs[r].prefix, endpoints |-> rs[r].endpoints]]
    /\ \A r \in Routers : rs[r].prefix \in Paths \cup {<<>>}
    /\ rs[Root].prefix = <<>>

\* Routers as a log of calls makes them.
Made(rs, entries) == IsRouters(rs) /\ IsLog(entries) /\ Follow(rs, entries)

\* The routers that are mounted in these have the prefix they are mounted at,
\* and had it ever since.
MountedIn(rs, now, in) ==
    \A r \in Routers : \A e \in rs[r].endpoints :
        e.end # "handler" =>
            e.end \in in /\ rs[e.end].prefix = e.path /\ now[e.end].prefix = e.path

\* The route that the last entries of a log make.
IsRoute(rt, entries) ==
    \E a \in 1 .. Len(entries) :
        /\ IsAt(entries, a, Len(entries))
        /\ rt = [router |-> entries[a].router, path |-> entries[a].path, mids |-> rt.mids]
        /\ rt.mids \in Seq(Middlewares)
        /\ AddedAt(rt.mids, entries, MiddlewaresOf(entries, Len(entries)))

NoListen(entries) == \A k \in 1 .. Len(entries) : entries[k].op # "listen"

ListenAt(n, entries) ==
    /\ n \in 1 .. Len(entries) /\ entries[n].op = "listen"
    /\ \A k \in 1 .. Len(entries) : entries[k].op = "listen" => k = n

Registered ==
    /\ Made(routers, log) /\ Len(log) <= MaxOps
    /\ mounted \subseteq Routers \ {Root}
    /\ MountedIn(routers, routers, mounted)

RouteInv == route # NoRoute => IsRoute(route, log)

ServedInv ==
    IF served = NotListening THEN NoListen(log)
    ELSE /\ \E n \in Nat : ListenAt(n, log) /\ Made(served, SubSeq(log, 1, n))
         /\ MountedIn(served, routers, mounted)

RegInv == Registered /\ RouteInv /\ ServedInv

-----------------------------------------------------------------------------
LEMMA SubSeqStays ==
    ASSUME NEW entries, NEW x, NEW more, LogIsLonger(entries, x, more), NEW n \in 1 .. Len(entries)
    PROVE  SubSeq(more, 1, n) = SubSeq(entries, 1, n)
<1>1. PICK m \in Nat : m = Len(entries) /\ Len(more) = m + 1 /\ (\A k \in 1 .. m : more[k] = entries[k])
  BY LogGrows
<1>2. \A k \in 1 .. n : more[k] = entries[k]
  BY <1>1
<1>3. SubSeq(more, 1, n) = [k \in 1 .. n |-> more[k]] /\ SubSeq(entries, 1, n) = [k \in 1 .. n |-> entries[k]]
  <2>1. more \in Seq(Entries) /\ entries \in Seq(Entries) /\ n \in 1 .. m /\ n \in 1 .. m + 1
    BY <1>1, LogGrows DEF LogIsLonger
  <2>2. n <= Len(more) /\ n <= Len(entries) /\ n \in Nat
    BY <1>1, <2>1
  <2>3. SubSeq(more, 1, n) = [k \in 1 .. n |-> more[k]]
    BY <2>1, <2>2, SubSeqProperties
  <2>4. SubSeq(entries, 1, n) = [k \in 1 .. n |-> entries[k]]
    BY <2>1, <2>2, SubSeqProperties
  <2>5. QED
    BY <2>3, <2>4
<1>4. QED
  BY <1>2, <1>3

\* Where listen() was called stays where it was, and so does what it took.
LEMMA ServedStays ==
    ASSUME NEW entries, NEW x, NEW more, LogIsLonger(entries, x, more), x.op # "listen"
    PROVE  /\ NoListen(entries) => NoListen(more)
           /\ \A n, rs : ListenAt(n, entries) /\ Made(rs, SubSeq(entries, 1, n)) =>
                           ListenAt(n, more) /\ Made(rs, SubSeq(more, 1, n))
<1>1. PICK m \in Nat : m = Len(entries) /\ Len(more) = m + 1 /\ (\A k \in 1 .. m : more[k] = entries[k])
        /\ more[m + 1] = x
  BY LogGrows
<1>2. NoListen(entries) => NoListen(more)
  BY <1>1 DEF NoListen
<1>3. ASSUME NEW n, ListenAt(n, entries)
      PROVE  ListenAt(n, more) /\ SubSeq(more, 1, n) = SubSeq(entries, 1, n)
  <2>1. ListenAt(n, more)
    BY <1>1, <1>3 DEF ListenAt
  <2>2. n \in 1 .. Len(entries)
    BY <1>3 DEF ListenAt
  <2>3. QED
    BY <2>1, <2>2, SubSeqStays
<1>4. QED
  BY <1>2, <1>3

LEMMA ListenNow ==
    ASSUME NEW entries, NEW x, NEW more, LogIsLonger(entries, x, more), x.op = "listen", NoListen(entries)
    PROVE  ListenAt(Len(more), more) /\ SubSeq(more, 1, Len(more)) = more /\ Len(more) \in Nat
<1>1. PICK m \in Nat : m = Len(entries) /\ Len(more) = m + 1 /\ (\A k \in 1 .. m : more[k] = entries[k])
        /\ more[m + 1] = x
  BY LogGrows
<1>2. ListenAt(m + 1, more)
  BY <1>1 DEF ListenAt, NoListen
<1>3. more \in Seq(Entries)
  BY LogGrows
<1>4. SubSeq(more, 1, Len(more)) = more
  BY <1>3
<1>5. QED
  BY <1>1, <1>2, <1>4

\* middleware(): the log has one more for the route, and the route has it last.
LEMMA AddedOne ==
    ASSUME NEW mids \in Seq(Middlewares), NEW entries, NEW places, NEW n \in Nat,
           places \subseteq 1 .. n, AddedAt(mids, entries, places),
           NEW m \in Middlewares, entries[n + 1].mid = m
    PROVE  AddedAt(Append(mids, m), entries, places \cup {n + 1})
<1>1. PICK at \in [DOMAIN mids -> places] :
        /\ \A k \in DOMAIN mids : mids[k] = entries[at[k]].mid
        /\ \A k, l \in DOMAIN mids : k < l => at[k] < at[l]
        /\ \A j \in places : \E k \in DOMAIN mids : at[k] = j
  BY DEF AddedAt
<1>2. PICK c \in Nat : c = Len(mids) /\ DOMAIN mids = 1 .. c
  OBVIOUS
<1>3. PICK longer : longer = Append(mids, m)
  OBVIOUS
<1>4. DOMAIN longer = 1 .. c + 1 /\ (\A k \in 1 .. c : longer[k] = mids[k]) /\ longer[c + 1] = m
  BY <1>2, <1>3
<1>5. PICK on : on = [k \in 1 .. c + 1 |-> IF k = c + 1 THEN n + 1 ELSE at[k]]
  OBVIOUS
<1>6. (\A k \in 1 .. c : on[k] = at[k]) /\ on[c + 1] = n + 1 /\ on \in [1 .. c + 1 -> places \cup {n + 1}]
  BY <1>1, <1>2, <1>5
<1>7. \A k \in 1 .. c + 1 : longer[k] = entries[on[k]].mid
  <2>1. \A k \in 1 .. c : longer[k] = entries[on[k]].mid
    BY <1>1, <1>2, <1>4, <1>6
  <2>2. longer[c + 1] = entries[on[c + 1]].mid
    BY <1>4, <1>6
  <2>3. QED
    BY <1>2, <2>1, <2>2
<1>8. \A k \in 1 .. c : on[k] \in 1 .. n
  BY <1>1, <1>2, <1>6
<1>9. \A k, l \in 1 .. c + 1 : k < l => on[k] < on[l]
  <2>1. SUFFICES ASSUME NEW k \in 1 .. c + 1, NEW l \in 1 .. c + 1, k < l PROVE on[k] < on[l]
    OBVIOUS
  <2>2. k \in 1 .. c
    BY <1>2, <2>1
  <2>3. CASE l = c + 1
    BY <1>6, <1>8, <2>2, <2>3
  <2>4. CASE l # c + 1
    <3>1. l \in 1 .. c
      BY <1>2, <2>4
    <3>2. QED
      BY <1>1, <1>2, <1>6, <2>1, <2>2, <3>1
  <2>5. QED
    BY <2>3, <2>4
<1>10. \A j \in places \cup {n + 1} : \E k \in 1 .. c + 1 : on[k] = j
  <2>1. \A j \in places : \E k \in 1 .. c : on[k] = j
    BY <1>1, <1>2, <1>6
  <2>2. c + 1 \in 1 .. c + 1 /\ \A k \in 1 .. c : k \in 1 .. c + 1
    BY <1>2
  <2>3. QED
    BY <1>6, <2>1, <2>2
<1>11. QED
  <2>1. AddedAt(longer, entries, places \cup {n + 1})
    <3>1. on \in [DOMAIN longer -> places \cup {n + 1}]
      BY <1>4, <1>6
    <3>2. \A k \in DOMAIN longer : longer[k] = entries[on[k]].mid
      BY <1>4, <1>7
    <3>3. \A k, l \in DOMAIN longer : k < l => on[k] < on[l]
      BY <1>4, <1>9
    <3>4. \A j \in places \cup {n + 1} : \E k \in DOMAIN longer : on[k] = j
      BY <1>4, <1>10
    <3>5. QED
      BY <3>1, <3>2, <3>3, <3>4 DEF AddedAt
  <2>2. QED
    BY <1>3, <2>1

\* The middlewares a route has, before and after one more entry.
LEMMA PlacesGrow ==
    ASSUME NEW entries, NEW x, NEW more, LogIsLonger(entries, x, more), x.op # "at",
           NEW a, IsAt(entries, a, Len(entries))
    PROVE  /\ MiddlewaresOf(entries, Len(entries)) \subseteq 1 .. Len(entries)
           /\ MiddlewaresOf(more, Len(more)) =
                MiddlewaresOf(entries, Len(entries)) \cup
                    (IF x.op = "middleware" THEN {Len(more)} ELSE {})
           /\ IsAt(more, a, Len(more)) /\ AtOf(more, Len(more)) = a /\ AtOf(entries, Len(entries)) = a
<1>1. PICK m \in Nat : m = Len(entries) /\ Len(more) = m + 1 /\ (\A k \in 1 .. m : more[k] = entries[k])
        /\ more[m + 1] = x
  BY LogGrows
<1>2. IsAt(more, a, m + 1) /\ AtOf(more, m + 1) = a
  BY <1>1, AtMoves
<1>3. AtOf(entries, m) = a
  BY <1>1, AtIs
<1>4. a \in 1 .. m
  BY <1>1 DEF IsAt
<1>5. MiddlewaresOf(entries, m) = {j \in a .. m : entries[j].op = "middleware"}
  BY <1>3 DEF MiddlewaresOf
<1>6. MiddlewaresOf(more, m + 1) = {j \in a .. m + 1 : more[j].op = "middleware"}
  BY <1>2 DEF MiddlewaresOf
<1>7. a .. m + 1 = (a .. m) \cup {m + 1} /\ \A j \in a .. m : more[j] = entries[j]
  BY <1>1, <1>4
<1>8. MiddlewaresOf(more, m + 1) = MiddlewaresOf(entries, m) \cup (IF x.op = "middleware" THEN {m + 1} ELSE {})
  BY <1>1, <1>5, <1>6, <1>7
<1>9. MiddlewaresOf(entries, m) \subseteq 1 .. m
  BY <1>4, <1>5
<1>10. QED
  BY <1>1, <1>2, <1>3, <1>8, <1>9

LEMMA RouteStays ==
    ASSUME NEW entries, NEW x, NEW more, LogIsLonger(entries, x, more), x.op # "at",
           NEW rt, IsRoute(rt, entries)
    PROVE  /\ x.op # "middleware" => IsRoute(rt, more)
           /\ x.op = "middleware" /\ x.mid \in Middlewares => IsRoute([rt EXCEPT !.mids = Append(@, x.mid)], more)
<1>1. PICK m \in Nat : m = Len(entries) /\ Len(more) = m + 1 /\ (\A k \in 1 .. m : more[k] = entries[k])
        /\ more[m + 1] = x
  BY LogGrows
<1>2. PICK a \in 1 .. m :
        /\ IsAt(entries, a, m)
        /\ rt = [router |-> entries[a].router, path |-> entries[a].path, mids |-> rt.mids]
        /\ rt.mids \in Seq(Middlewares)
        /\ AddedAt(rt.mids, entries, MiddlewaresOf(entries, m))
  BY <1>1 DEF IsRoute
<1>3. PICK places : places = MiddlewaresOf(entries, m)
  OBVIOUS
<1>4. /\ places \subseteq 1 .. m
      /\ MiddlewaresOf(more, m + 1) = places \cup (IF x.op = "middleware" THEN {m + 1} ELSE {})
      /\ IsAt(more, a, m + 1)
  BY <1>1, <1>2, <1>3, PlacesGrow
<1>5. AddedAt(rt.mids, more, places)
  <2>1. \A j \in places : more[j] = entries[j]
    BY <1>1, <1>4
  <2>2. QED
    BY <1>2, <1>3, <2>1, AddedStays
<1>6. a \in 1 .. m + 1 /\ more[a] = entries[a]
  BY <1>1
<1>7. ASSUME x.op # "middleware" PROVE IsRoute(rt, more)
  BY <1>1, <1>2, <1>4, <1>5, <1>6, <1>7 DEF IsRoute
<1>8. ASSUME x.op = "middleware", x.mid \in Middlewares
      PROVE  IsRoute([rt EXCEPT !.mids = Append(@, x.mid)], more)
  <2>1. PICK mids : mids = Append(rt.mids, x.mid)
    OBVIOUS
  <2>2. AddedAt(mids, more, places \cup {m + 1})
    BY <1>1, <1>2, <1>4, <1>5, <1>8, <2>1, AddedOne
  <2>3. mids \in Seq(Middlewares)
    BY <1>2, <1>8, <2>1
  <2>4. PICK new : new = [router |-> more[a].router, path |-> more[a].path, mids |-> mids]
    OBVIOUS
  <2>5. [rt EXCEPT !.mids = Append(@, x.mid)] = new
    <3>1. PICK ms : ms = rt.mids
      OBVIOUS
    <3>2. rt = [router |-> more[a].router, path |-> more[a].path, mids |-> ms]
      BY <1>2, <1>6, <3>1
    <3>3. mids = Append(ms, x.mid)
      BY <2>1, <3>1
    <3>4. [rt EXCEPT !.mids = mids] = new
      BY <2>4, <3>2
    <3>5. [rt EXCEPT !.mids = Append(@, x.mid)] = [rt EXCEPT !.mids = mids]
      BY <2>1, <3>2
    <3>6. QED
      BY <3>4, <3>5
  <2>6. new.mids = mids /\ new = [router |-> more[a].router, path |-> more[a].path, mids |-> new.mids]
    BY <2>4
  <2>7. IsRoute(new, more)
    BY <1>1, <1>4, <1>6, <1>8, <2>2, <2>3, <2>6 DEF IsRoute
  <2>8. QED
    BY <2>5, <2>7
<1>9. QED
  BY <1>7, <1>8
-----------------------------------------------------------------------------
LEMMA LogGrew ==
    ASSUME NEW entries, NEW x, NEW more, LogIsLonger(entries, x, more)
    PROVE  \E m \in Nat : m = Len(entries) /\ Len(more) = m + 1 /\ more[m + 1] = x
                            /\ \A k \in 1 .. m : more[k] = entries[k]
BY LogGrows

LEMMA PrefixesStay ==
    ASSUME NEW rs, NEW now, NEW in, MountedIn(rs, now, in), NEW more, NEW later, NEW all,
           in \subseteq all,
           \A q \in in : more[q].prefix = rs[q].prefix /\ later[q].prefix = now[q].prefix,
           \A r \in Routers : \A e \in more[r].endpoints :
              \/ e \in rs[r].endpoints
              \/ e.end = "handler"
              \/ e.end \in all /\ more[e.end].prefix = e.path /\ later[e.end].prefix = e.path
    PROVE  MountedIn(more, later, all)
BY DEF MountedIn

LEMMA NothingAdded ==
    ASSUME NEW entries
    PROVE  AddedAt(<<>>, entries, {})
<1>1. PICK at : at = [k \in {} |-> 0]
  OBVIOUS
<1>2. PICK none : none = <<>> /\ DOMAIN none = {}
  OBVIOUS
<1>3. at \in [DOMAIN none -> {}]
  BY <1>1, <1>2
<1>4. AddedAt(none, entries, {})
  BY <1>2, <1>3 DEF AddedAt
<1>5. QED
  BY <1>2, <1>4

\* The endpoint that is made for an entry is as the entry asks for.
LEMMA NewEndpoint ==
    ASSUME NEW entries, NEW x, NEW more, LogIsLonger(entries, x, more), x.op \in EndOp,
           NEW rt, IsRoute(rt, entries), NEW method, NEW end, NEW e,
           e = [method |-> method, path |-> rt.path, mids |-> rt.mids, id |-> Len(more), end |-> end],
           x.op = "handler" => method = x.method /\ end = "handler",
           x.op = "router" => method = All /\ end = x.router
    PROVE  /\ IsEndpoint(e, more) /\ e.id = Len(more)
           /\ \E a : IsAt(entries, a, Len(entries)) /\ rt.router = entries[a].router
<1>1. PICK m \in Nat : m = Len(entries) /\ Len(more) = m + 1 /\ (\A k \in 1 .. m : more[k] = entries[k])
        /\ more[m + 1] = x
  BY LogGrew
<1>2. PICK a \in 1 .. m :
        /\ IsAt(entries, a, m)
        /\ rt = [router |-> entries[a].router, path |-> entries[a].path, mids |-> rt.mids]
        /\ rt.mids \in Seq(Middlewares)
        /\ AddedAt(rt.mids, entries, MiddlewaresOf(entries, m))
  BY <1>1 DEF IsRoute
<1>3. PICK places : places = MiddlewaresOf(entries, m)
  OBVIOUS
<1>4. places \subseteq 1 .. m /\ MiddlewaresOf(more, m + 1) = places /\ AtOf(more, m + 1) = a
  <2>1. x.op # "at" /\ x.op # "middleware"
    BY DEF EndOp
  <2>2. IsAt(entries, a, Len(entries))
    BY <1>1, <1>2
  <2>3. /\ MiddlewaresOf(entries, Len(entries)) \subseteq 1 .. Len(entries)
        /\ MiddlewaresOf(more, Len(more)) = MiddlewaresOf(entries, Len(entries))
        /\ AtOf(more, Len(more)) = a
    <3>1. /\ MiddlewaresOf(entries, Len(entries)) \subseteq 1 .. Len(entries)
          /\ MiddlewaresOf(more, Len(more)) =
               MiddlewaresOf(entries, Len(entries)) \cup
                   (IF x.op = "middleware" THEN {Len(more)} ELSE {})
          /\ AtOf(more, Len(more)) = a
      BY <2>1, <2>2, PlacesGrow, Zenon
    <3>2. QED
      BY <2>1, <3>1
  <2>4. QED
    BY <1>1, <1>3, <2>3
<1>5. AddedAt(rt.mids, more, places)
  <2>1. \A j \in places : more[j] = entries[j]
    BY <1>1, <1>4
  <2>2. QED
    BY <1>2, <1>3, <2>1, AddedStays
<1>6. rt.path = entries[a].path /\ rt.router = entries[a].router /\ more[a] = entries[a]
  BY <1>1, <1>2
<1>7. /\ e.method = method /\ e.path = rt.path /\ e.mids = rt.mids /\ e.id = m + 1 /\ e.end = end
      /\ e = [method |-> e.method, path |-> e.path, mids |-> e.mids, id |-> e.id, end |-> e.end]
  BY <1>1
<1>8. IsEndpoint(e, more)
  <2>1. e.id \in 1 .. Len(more) /\ e.mids \in Seq(Middlewares)
    BY <1>1, <1>2, <1>7
  <2>2. e.path = more[AtOf(more, e.id)].path
    BY <1>4, <1>6, <1>7
  <2>3. AddedAt(e.mids, more, MiddlewaresOf(more, e.id))
    BY <1>4, <1>5, <1>7
  <2>4. /\ more[e.id].op = "handler" => e.method = more[e.id].method /\ e.end = "handler"
        /\ more[e.id].op = "router" => e.method = All /\ e.end = more[e.id].router
    BY <1>1, <1>7
  <2>5. e = [method |-> e.method, path |-> e.path, mids |-> e.mids, id |-> e.id, end |-> e.end]
    BY <1>7
  <2>6. QED
    BY <2>1, <2>2, <2>3, <2>4, <2>5 DEF IsEndpoint
<1>9. QED
  BY <1>1, <1>2, <1>6, <1>7, <1>8

\* One endpoint more.
Gains(on, rs, q, e) ==
    \A r \in Routers : on[r].endpoints = IF r = q THEN rs[r].endpoints \cup {e} ELSE rs[r].endpoints

\* What add_handler() and router() do to the routers, in the order of the log.
LEMMA FollowsMore ==
    ASSUME NEW entries, IsLog(entries), NEW x, NEW more, LogIsLonger(entries, x, more), x.op \in EndOp,
           NEW rt, IsRoute(rt, entries), NEW e, IsEndpoint(e, more), e.id = Len(more),
           NEW rs, Follow(rs, entries), NEW on, Gains(on, rs, rt.router, e)
    PROVE  IsLog(more) /\ Follow(on, more)
<1>1. PICK a \in 1 .. Len(entries) : IsAt(entries, a, Len(entries)) /\ rt.router = entries[a].router
  <2>1. PICK a \in 1 .. Len(entries) : IsAt(entries, a, Len(entries)) /\
           rt = [router |-> entries[a].router, path |-> entries[a].path, mids |-> rt.mids]
    BY DEF IsRoute
  <2>2. rt.router = entries[a].router
    BY <2>1
  <2>3. QED
    BY <2>1, <2>2
<1>2. IsLog(more)
  BY <1>1, LogStays
<1>3. ASSUME NEW r \in Routers PROVE Standing(on[r].endpoints, r, more)
  <2>1. Standing(rs[r].endpoints, r, entries)
    BY DEF Follow
  <2>2. PICK endpoints : endpoints = rs[r].endpoints
    OBVIOUS
  <2>3. Standing(IF r = entries[a].router THEN endpoints \cup {e} ELSE endpoints, r, more)
    <3>1. IsAt(entries, a, Len(entries)) /\ Standing(endpoints, r, entries)
      BY <1>1, <2>1, <2>2
    <3>2. QED
      BY <3>1, StandingAdds
  <2>4. QED
    BY <1>1, <2>2, <2>3 DEF Gains
<1>4. QED
  BY <1>2, <1>3 DEF Follow

LEMMA FollowsKept ==
    ASSUME NEW entries, IsLog(entries), NEW x, NEW more, LogIsLonger(entries, x, more), x.op \notin EndOp,
           NEW rs, Follow(rs, entries), NEW on,
           \A r \in Routers : on[r].endpoints = Kept(rs[r].endpoints, r, x)
    PROVE  IsLog(more) /\ Follow(on, more)
<1>1. IsLog(more)
  BY LogStays
<1>2. ASSUME NEW r \in Routers PROVE Standing(on[r].endpoints, r, more)
  <2>1. Standing(rs[r].endpoints, r, entries)
    BY DEF Follow
  <2>2. QED
    BY <2>1, StandingKept
<1>3. QED
  BY <1>1, <1>2 DEF Follow

WithEndpoint(rs, q, e) == [rs EXCEPT ![q].endpoints = @ \cup {e}]

WithPrefix(rs, q, path) == [rs EXCEPT ![q].prefix = path]

LEMMA RoutersGain ==
    ASSUME NEW rs, IsRouters(rs), NEW q, NEW e, NEW on, on = WithEndpoint(rs, q, e)
    PROVE  IsRouters(on) /\ Gains(on, rs, q, e) /\ \A r \in Routers : on[r].prefix = rs[r].prefix
<1>1. PICK p, s : rs = [r \in Routers |-> [prefix |-> p[r], endpoints |-> s[r]]]
  <2>1. PICK p, s : p = [r \in Routers |-> rs[r].prefix] /\ s = [r \in Routers |-> rs[r].endpoints]
    OBVIOUS
  <2>2. PICK all : all = [r \in Routers |-> [prefix |-> rs[r].prefix, endpoints |-> rs[r].endpoints]]
    OBVIOUS
  <2>3. all = [r \in Routers |-> [prefix |-> p[r], endpoints |-> s[r]]]
    BY <2>1, <2>2
  <2>4. rs = all
    BY <2>2 DEF IsRouters
  <2>5. QED
    BY <2>3, <2>4
<1>2. on = [r \in Routers |-> [prefix |-> p[r], endpoints |-> IF r = q THEN s[r] \cup {e} ELSE s[r]]]
  <2>1. PICK more : more = [r \in Routers |-> [prefix |-> p[r], endpoints |-> IF r = q THEN s[r] \cup {e} ELSE s[r]]]
    OBVIOUS
  <2>2. on = [r \in Routers |-> IF r = q THEN [rs[r] EXCEPT !.endpoints = @ \cup {e}] ELSE rs[r]]
    BY <1>1 DEF WithEndpoint
  <2>3. \A r \in Routers : rs[r] = [prefix |-> p[r], endpoints |-> s[r]]
    BY <1>1
  <2>4. ASSUME NEW r \in Routers
        PROVE  [rs[r] EXCEPT !.endpoints = @ \cup {e}] = [prefix |-> p[r], endpoints |-> s[r] \cup {e}]
    <3>1. PICK old : old = [prefix |-> p[r], endpoints |-> s[r]]
      OBVIOUS
    <3>2. [old EXCEPT !.endpoints = @ \cup {e}] = [prefix |-> p[r], endpoints |-> s[r] \cup {e}]
      BY <3>1
    <3>3. QED
      BY <2>3, <3>1, <3>2
  <2>5. on = more
    BY <2>1, <2>2, <2>3, <2>4
  <2>6. QED
    BY <2>1, <2>5
<1>3. \A r \in Routers : rs[r].prefix = p[r] /\ rs[r].endpoints = s[r]
  BY <1>1
<1>4. \A r \in Routers : on[r].prefix = p[r] /\ on[r].endpoints = IF r = q THEN s[r] \cup {e} ELSE s[r]
  BY <1>2
<1>5. on = [r \in Routers |-> [prefix |-> on[r].prefix, endpoints |-> on[r].endpoints]]
  BY <1>2, <1>4
<1>6. QED
  BY <1>3, <1>4, <1>5, RoutersAssumption DEF IsRouters, Gains

LEMMA RouterPrefixed ==
    ASSUME NEW rs, IsRouters(rs), NEW q \in Routers \ {Root}, NEW path \in Paths,
           NEW on, on = WithPrefix(rs, q, path)
    PROVE  /\ IsRouters(on) /\ on[q].prefix = path
           /\ \A r \in Routers : on[r].endpoints = rs[r].endpoints
           /\ \A r \in Routers : r # q => on[r].prefix = rs[r].prefix
<1>1. PICK p, s : rs = [r \in Routers |-> [prefix |-> p[r], endpoints |-> s[r]]]
  <2>1. PICK p, s : p = [r \in Routers |-> rs[r].prefix] /\ s = [r \in Routers |-> rs[r].endpoints]
    OBVIOUS
  <2>2. PICK all : all = [r \in Routers |-> [prefix |-> rs[r].prefix, endpoints |-> rs[r].endpoints]]
    OBVIOUS
  <2>3. all = [r \in Routers |-> [prefix |-> p[r], endpoints |-> s[r]]]
    BY <2>1, <2>2
  <2>4. rs = all
    BY <2>2 DEF IsRouters
  <2>5. QED
    BY <2>3, <2>4
<1>2. on = [r \in Routers |-> [prefix |-> IF r = q THEN path ELSE p[r], endpoints |-> s[r]]]
  BY <1>1 DEF WithPrefix
<1>3. \A r \in Routers : rs[r].prefix = p[r] /\ rs[r].endpoints = s[r]
  BY <1>1
<1>4. \A r \in Routers : on[r].prefix = (IF r = q THEN path ELSE p[r]) /\ on[r].endpoints = s[r]
  BY <1>2
<1>5. on = [r \in Routers |-> [prefix |-> on[r].prefix, endpoints |-> on[r].endpoints]]
  BY <1>2, <1>4
<1>6. QED
  BY <1>3, <1>4, <1>5, RoutersAssumption DEF IsRouters

LEMMA ServedInvStays ==
    ASSUME NEW x, LogIsLonger(log, x, log'), x.op # "listen", ServedInv, served' = served,
           mounted \subseteq mounted', \A q \in mounted : routers'[q].prefix = routers[q].prefix
    PROVE  ServedInv'
<1>1. CASE served = NotListening
  BY <1>1, ServedStays DEF ServedInv
<1>2. CASE served # NotListening
  <2>1. PICK n \in Nat : ListenAt(n, log) /\ Made(served, SubSeq(log, 1, n))
    BY <1>2 DEF ServedInv
  <2>2. ListenAt(n, log') /\ Made(served, SubSeq(log', 1, n))
    BY <2>1, ServedStays
  <2>3. MountedIn(served, routers', mounted')
    <3>1. MountedIn(served, routers, mounted)
      BY <1>2 DEF ServedInv
    <3>2. QED
      BY <3>1, PrefixesStay
  <2>4. QED
    BY <1>2, <2>2, <2>3 DEF ServedInv
<1>3. QED
  BY <1>1, <1>2
-----------------------------------------------------------------------------
LEMMA AtKeeps ==
    ASSUME RegInv, NEW r \in Routers, NEW path \in Patterns[r], At(r, path)
    PROVE  RegInv'
<1>1. PICK x : x = [op |-> "at", router |-> r, path |-> path]
  OBVIOUS
<1>2. x.op = "at" /\ x.router = r /\ x.path = path /\ x \in Entries /\ path \in Paths
  BY <1>1 DEF Entries, Paths
<1>3. IsLog(log) /\ Follow(routers, log) /\ IsRouters(routers)
  BY DEF RegInv, Registered, Made
<1>4. LogIsLonger(log, x, log') /\ Len(log) < MaxOps
  BY <1>1, <1>2, <1>3 DEF LogIsLonger, At, Registers, IsLog
<1>5. PICK n \in Nat : n = Len(log) /\ Len(log') = n + 1 /\ log'[n + 1] = x
  BY <1>4, LogGrows
<1>6. \A q \in Routers : /\ routers'[q].endpoints = Kept(routers[q].endpoints, q, x)
                         /\ routers'[q].prefix = routers[q].prefix
  BY <1>2, <1>3 DEF At, IsRouters, Kept
<1>7. IsRouters(routers')
  <2>1. routers' = [q \in Routers |-> [prefix |-> routers'[q].prefix, endpoints |-> routers'[q].endpoints]]
    BY <1>3 DEF At, IsRouters
  <2>2. QED
    BY <1>3, <1>6, <2>1, RoutersAssumption DEF IsRouters
<1>8. IsLog(log') /\ Follow(routers', log')
  <2>1. x.op \notin EndOp
    BY <1>2 DEF EndOp
  <2>2. QED
    BY <1>3, <1>4, <1>6, <2>1, FollowsKept
<1>9. MountedIn(routers', routers', mounted')
  <2>1. \A q \in Routers : \A e \in routers'[q].endpoints : e \in routers[q].endpoints
    BY <1>6 DEF Kept, WithoutPath
  <2>2. mounted' = mounted /\ mounted \subseteq Routers /\ MountedIn(routers, routers, mounted)
    BY DEF At, RegInv, Registered
  <2>3. QED
    BY <1>6, <2>1, <2>2, PrefixesStay
<1>10. Registered'
  BY <1>4, <1>5, <1>7, <1>8, <1>9, MethodsAssumption DEF Registered, RegInv, Made, At
<1>11. IsRoute(route', log')
  <2>1. IsAt(log', n + 1, n + 1) /\ AtOf(log', n + 1) = n + 1
    BY <1>2, <1>4, <1>5, AtBegins
  <2>2. MiddlewaresOf(log', n + 1) = {}
    BY <1>2, <1>5, <2>1 DEF MiddlewaresOf
  <2>3. AddedAt(<<>>, log', {})
    BY NothingAdded
  <2>4. route' = [router |-> log'[n + 1].router, path |-> log'[n + 1].path, mids |-> <<>>]
    BY <1>2, <1>5 DEF At
  <2>5. route'.mids = <<>> /\ <<>> \in Seq(Middlewares)
    BY <2>4
  <2>6. route' = [router |-> log'[n + 1].router, path |-> log'[n + 1].path, mids |-> route'.mids]
    BY <2>4, <2>5
  <2>7. n + 1 \in 1 .. Len(log') /\ Len(log') = n + 1
    BY <1>5
  <2>8. QED
    BY <2>1, <2>2, <2>3, <2>5, <2>6, <2>7 DEF IsRoute
<1>12. ServedInv'
  <2>1. mounted \subseteq Routers
    BY DEF RegInv, Registered
  <2>2. QED
    BY <1>2, <1>4, <1>6, <2>1, ServedInvStays DEF RegInv, At
<1>13. QED
  BY <1>10, <1>11, <1>12 DEF RegInv, RouteInv

LEMMA MiddlewareKeeps ==
    ASSUME RegInv, NEW m \in Middlewares, AddMiddleware(m)
    PROVE  RegInv'
<1>1. PICK x : x = [op |-> "middleware", mid |-> m]
  OBVIOUS
<1>2. x.op = "middleware" /\ x.mid = m /\ x \in Entries
  BY <1>1 DEF Entries
<1>3. IsLog(log) /\ Follow(routers, log) /\ IsRouters(routers)
  BY DEF RegInv, Registered, Made
<1>4. LogIsLonger(log, x, log') /\ Len(log) < MaxOps
  BY <1>1, <1>2, <1>3 DEF LogIsLonger, AddMiddleware, Registers, IsLog
<1>5. PICK n \in Nat : n = Len(log) /\ Len(log') = n + 1
  BY <1>4, LogGrows
<1>6. \A q \in Routers : routers[q].endpoints = Kept(routers[q].endpoints, q, x)
  BY <1>2 DEF Kept
<1>7. IsLog(log') /\ Follow(routers, log')
  <2>1. x.op \notin EndOp
    BY <1>2 DEF EndOp
  <2>2. QED
    BY <1>3, <1>4, <1>6, <2>1, FollowsKept
<1>8. Registered'
  BY <1>3, <1>4, <1>5, <1>7, MethodsAssumption DEF Registered, RegInv, Made, AddMiddleware
<1>9. RouteInv'
  <2>1. IsRoute(route, log)
    BY DEF RegInv, RouteInv, AddMiddleware
  <2>2. IsRoute([route EXCEPT !.mids = Append(@, x.mid)], log')
    BY <1>2, <1>4, <2>1, RouteStays
  <2>3. IsRoute(route', log')
    BY <1>2, <2>2 DEF AddMiddleware
  <2>4. QED
    BY <2>3 DEF RouteInv
<1>10. ServedInv'
  BY <1>2, <1>4, ServedInvStays DEF RegInv, AddMiddleware
<1>11. QED
  BY <1>8, <1>9, <1>10 DEF RegInv
-----------------------------------------------------------------------------
LEMMA MethodKeeps ==
    ASSUME RegInv, NEW method \in Methods \cup {All}, Method(method)
    PROVE  RegInv'
<1>1. PICK x : x = [op |-> "handler", method |-> method]
  OBVIOUS
<1>2. x.op = "handler" /\ x.method = method /\ x \in Entries /\ x.op \in EndOp /\ x.op # "at"
  BY <1>1 DEF Entries, EndOp
<1>3. IsLog(log) /\ Follow(routers, log) /\ IsRouters(routers) /\ IsRoute(route, log)
  BY DEF RegInv, Registered, Made, RouteInv, Method
<1>4. LogIsLonger(log, x, log') /\ Len(log) < MaxOps
  BY <1>1, <1>2, <1>3 DEF LogIsLonger, Method, Registers, IsLog
<1>5. PICK n \in Nat : n = Len(log) /\ Len(log') = n + 1
  BY <1>4, LogGrows
<1>6. PICK e : e = [method |-> method, path |-> route.path, mids |-> route.mids, id |-> Len(log'), end |-> "handler"]
  OBVIOUS
<1>7. IsEndpoint(e, log') /\ e.id = Len(log') /\ e.end = "handler"
  BY <1>2, <1>3, <1>4, <1>6, NewEndpoint
<1>8. routers' = WithEndpoint(routers, route.router, e)
  BY <1>6 DEF Method, AddHandler, WithEndpoint
<1>9. IsRouters(routers') /\ Gains(routers', routers, route.router, e)
      /\ \A q \in Routers : routers'[q].prefix = routers[q].prefix
  BY <1>3, <1>8, RoutersGain
<1>11. IsLog(log') /\ Follow(routers', log')
  BY <1>2, <1>3, <1>4, <1>7, <1>9, FollowsMore
<1>12. mounted' = mounted /\ mounted \subseteq Routers
  BY DEF Method, RegInv, Registered
<1>13. MountedIn(routers', routers', mounted')
  <2>1. \A q \in Routers : \A f \in routers'[q].endpoints : f \in routers[q].endpoints \/ f.end = "handler"
    BY <1>7, <1>9 DEF Gains
  <2>2. MountedIn(routers, routers, mounted)
    BY DEF RegInv, Registered
  <2>3. QED
    BY <1>9, <1>12, <2>1, <2>2, PrefixesStay
<1>14. Registered'
  BY <1>4, <1>5, <1>9, <1>11, <1>12, <1>13, MethodsAssumption DEF Registered, RegInv, Made
<1>15. RouteInv'
  <2>1. IsRoute(route, log')
    BY <1>2, <1>3, <1>4, RouteStays
  <2>2. QED
    BY <2>1 DEF RouteInv, Method
<1>16. ServedInv'
  BY <1>2, <1>4, <1>9, <1>12, ServedInvStays DEF RegInv, Method
<1>17. QED
  BY <1>14, <1>15, <1>16 DEF RegInv

LEMMA MountKeeps ==
    ASSUME RegInv, NEW r \in Routers, Mount(r)
    PROVE  RegInv'
<1>1. PICK x : x = [op |-> "router", router |-> r]
  OBVIOUS
<1>2. x.op = "router" /\ x.router = r /\ x \in Entries /\ x.op \in EndOp /\ x.op # "at"
  BY <1>1 DEF Entries, EndOp
<1>3. IsLog(log) /\ Follow(routers, log) /\ IsRouters(routers) /\ IsRoute(route, log)
  BY DEF RegInv, Registered, Made, RouteInv, Mount
<1>4. LogIsLonger(log, x, log') /\ Len(log) < MaxOps
  BY <1>1, <1>2, <1>3 DEF LogIsLonger, Mount, Registers, IsLog
<1>5. PICK n \in Nat : n = Len(log) /\ Len(log') = n + 1
  BY <1>4, LogGrows
<1>6. PICK e : e = [method |-> All, path |-> route.path, mids |-> route.mids, id |-> Len(log'), end |-> r]
  OBVIOUS
<1>7. IsEndpoint(e, log') /\ e.id = Len(log') /\ e.end = r /\ e.path = route.path
  <2>1. IsEndpoint(e, log') /\ e.id = Len(log')
    BY <1>2, <1>3, <1>4, <1>6, NewEndpoint
  <2>2. QED
    BY <1>6, <2>1
<1>8. r \notin mounted /\ r # Root /\ r # route.router /\ mounted' = mounted \cup {r} /\ mounted \subseteq Routers \ {Root}
  BY DEF Mount, RegInv, Registered
<1>9. PICK on : on = WithEndpoint(routers, route.router, e)
  OBVIOUS
<1>10. routers' = WithPrefix(on, r, route.path)
  BY <1>6, <1>9 DEF Mount, WithEndpoint, WithPrefix
<1>11. route.path \in Paths
  <2>1. PICK a \in 1 .. Len(log) : IsAt(log, a, Len(log)) /\ route = [router |-> log[a].router, path |-> log[a].path, mids |-> route.mids]
    BY <1>3 DEF IsRoute
  <2>2. log[a] \in Entries /\ log[a].op = "at"
    BY <1>3, <2>1 DEF IsAt, IsLog
  <2>3. log[a].path \in Paths
    BY <2>2 DEF Entries
  <2>4. QED
    BY <2>1, <2>3
<1>12. /\ IsRouters(on) /\ Gains(on, routers, route.router, e)
       /\ \A q \in Routers : on[q].prefix = routers[q].prefix
  BY <1>3, <1>9, RoutersGain
<1>13. /\ IsRouters(routers') /\ routers'[r].prefix = route.path
       /\ \A q \in Routers : routers'[q].endpoints = on[q].endpoints
       /\ \A q \in Routers : q # r => routers'[q].prefix = on[q].prefix
  <2>1. r \in Routers \ {Root}
    BY <1>8
  <2>2. QED
    BY <1>10, <1>11, <1>12, <2>1, RouterPrefixed
<1>14. Gains(routers', routers, route.router, e)
  BY <1>12, <1>13 DEF Gains
<1>15. IsLog(log') /\ Follow(routers', log')
  BY <1>2, <1>3, <1>4, <1>7, <1>14, FollowsMore
<1>16. \A q \in mounted : routers'[q].prefix = routers[q].prefix
  <2>1. \A q \in mounted : q \in Routers /\ q # r
    BY <1>8
  <2>2. QED
    BY <1>12, <1>13, <2>1
<1>17. MountedIn(routers', routers', mounted')
  <2>1. \A q \in Routers : \A f \in routers'[q].endpoints : f \in routers[q].endpoints \/ f = e
    BY <1>14 DEF Gains
  <2>2. e.end \in mounted' /\ routers'[e.end].prefix = e.path
    BY <1>7, <1>8, <1>13
  <2>3. MountedIn(routers, routers, mounted) /\ mounted \subseteq mounted'
    BY <1>8 DEF RegInv, Registered
  <2>4. QED
    BY <1>16, <2>1, <2>2, <2>3, PrefixesStay
<1>18. Registered'
  BY <1>4, <1>5, <1>8, <1>13, <1>15, <1>17, MethodsAssumption DEF Registered, RegInv, Made
<1>19. RouteInv'
  <2>1. IsRoute(route, log')
    BY <1>2, <1>3, <1>4, RouteStays
  <2>2. QED
    BY <2>1 DEF RouteInv, Mount
<1>20. ServedInv'
  BY <1>2, <1>4, <1>8, <1>16, ServedInvStays DEF RegInv, Mount
<1>21. QED
  BY <1>18, <1>19, <1>20 DEF RegInv

LEMMA ListenKeeps ==
    ASSUME RegInv, Listen
    PROVE  RegInv'
<1>1. PICK x : x = [op |-> "listen"]
  OBVIOUS
<1>2. x.op = "listen" /\ x \in Entries /\ x.op \notin EndOp
  BY <1>1 DEF Entries, EndOp
<1>3. IsLog(log) /\ Follow(routers, log) /\ IsRouters(routers)
  BY DEF RegInv, Registered, Made
<1>4. LogIsLonger(log, x, log') /\ Len(log) < MaxOps
  BY <1>1, <1>2, <1>3 DEF LogIsLonger, Listen, Registers, IsLog
<1>5. PICK n \in Nat : n = Len(log) /\ Len(log') = n + 1
  BY <1>4, LogGrows
<1>6. \A q \in Routers : routers[q].endpoints = Kept(routers[q].endpoints, q, x)
  BY <1>2 DEF Kept
<1>7. IsLog(log') /\ Follow(routers, log')
  BY <1>2, <1>3, <1>4, <1>6, FollowsKept
<1>8. Registered'
  BY <1>3, <1>4, <1>5, <1>7, MethodsAssumption DEF Registered, RegInv, Made, Listen
<1>9. served' # NotListening
  <2>1. PICK rs : rs = routers /\ rs = [r \in Routers |-> [prefix |-> rs[r].prefix, endpoints |-> rs[r].endpoints]]
    BY <1>3 DEF IsRouters
  <2>2. DOMAIN rs = Routers
    BY <2>1
  <2>3. rs # <<>>
    BY <2>2, RoutersAssumption
  <2>4. QED
    BY <2>1, <2>3 DEF Listen, NotListening
<1>10. Made(served', log')
  BY <1>3, <1>7 DEF Listen, Made
<1>11. NoListen(log)
  BY DEF RegInv, ServedInv, Listen
<1>12. ListenAt(n + 1, log') /\ SubSeq(log', 1, n + 1) = log'
  BY <1>2, <1>4, <1>5, <1>11, ListenNow
<1>13. MountedIn(served', routers', mounted')
  BY DEF Listen, RegInv, Registered
<1>14. ServedInv'
  <2>1. n + 1 \in Nat
    BY <1>5
  <2>2. QED
    BY <1>9, <1>10, <1>12, <1>13, <2>1 DEF ServedInv
<1>15. QED
  BY <1>8, <1>14 DEF RegInv, RouteInv, Listen

LEMMA RegisteringKeeps ==
    RegInv /\ Registration => RegInv'
BY AtKeeps, MiddlewareKeeps, MethodKeeps, MountKeeps, ListenKeeps DEF Registration

LEMMA RegInit ==
    ASSUME RoutingInit
    PROVE  RegInv
<1>2. IsRouters(routers)
  <2>1. PICK rs : rs = routers /\ rs = [r \in Routers |-> [prefix |-> <<>>, endpoints |-> {}]]
    BY DEF RoutingInit
  <2>2. \A r \in Routers : rs[r].prefix = <<>> /\ rs[r].endpoints = {}
    BY <2>1
  <2>3. rs = [r \in Routers |-> [prefix |-> rs[r].prefix, endpoints |-> rs[r].endpoints]]
    BY <2>1, <2>2
  <2>4. QED
    BY <2>1, <2>2, <2>3, RoutersAssumption DEF IsRouters
<1>3. Len(log) = 0 /\ 1 .. Len(log) = {} /\ log \in Seq(Entries)
  <2>1. log = <<>>
    BY DEF RoutingInit
  <2>2. QED
    BY <2>1
<1>4. IsLog(log) /\ NoListen(log)
  BY <1>3 DEF IsLog, NoListen
<1>5. \A r \in Routers : routers[r].endpoints = {}
  <2>1. routers = [r \in Routers |-> [prefix |-> <<>>, endpoints |-> {}]]
    BY DEF RoutingInit
  <2>2. QED
    BY <2>1
<1>6. Follow(routers, log) /\ MountedIn(routers, routers, mounted)
  BY <1>3, <1>5 DEF Follow, Standing, MountedIn
<1>7. Registered
  BY <1>2, <1>3, <1>4, <1>6, MethodsAssumption DEF Registered, Made, RoutingInit
<1>8. QED
  BY <1>4, <1>7 DEF RegInv, RouteInv, ServedInv, RoutingInit
-----------------------------------------------------------------------------
\* A request that is dispatched.
IsReq(rq) ==
    /\ rq = [pc |-> rq.pc, socket |-> rq.socket, method |-> rq.method, path |-> rq.path,
             router |-> rq.router, rest |-> rq.rest, todo |-> rq.todo, ran |-> rq.ran,
             ep |-> rq.ep, end |-> rq.end, params |-> rq.params]
    /\ rq.pc \in Pc \ {"none"} /\ rq.path \in Seq(STRING)

\* The endpoint that the router uses, as far as its middlewares are.
Uses(rq, e) ==
    /\ rq.ep = e.id /\ rq.end = e.end /\ rq.params = Params(e.path, rq.rest)
    /\ rq.todo \in Seq(Middlewares) /\ rq.ran \in Seq(Middlewares)
    /\ rq.ran \o rq.todo = e.mids

Fit(rq, rs) == FirstFit(rs[rq.router].endpoints, rq.method, rq.rest)

Chosen(rq, rs) ==
    /\ IsPrefix(rs[rq.router].prefix, rq.path) /\ rq.rest = After(rq.path, rs[rq.router].prefix)
    /\ \E e \in Fit(rq, rs) : Uses(rq, e)

Plain(path) == \A i \in DOMAIN path : ~Wild(path[i])

\* With no wildcard over a router, the whole path is taken at one of them or at none.
OnePrefix(rq, rs) ==
    /\ rq.pc # "panic"
    /\ rq.pc \in {"router", "chain"} => rs[rq.router].prefix \in {<<>>, rq.path}

ReqOK(rq, rs, now, in, len) ==
    /\ IsReq(rq)
    /\ rq.router \in in \cup {Root} /\ rq.ep \in 0 .. len
    /\ rq.pc = "404" => Fit(rq, rs) = {}
    /\ rq.pc = "chain" => Chosen(rq, rs)
    /\ (\A r \in in : Plain(now[r].prefix)) => OnePrefix(rq, rs)

ReqInv ==
    req # NoRequest =>
        /\ req.socket \in BOOLEAN /\ (req.socket => served # NotListening)
        /\ ReqOK(req, RoutersOf(req.socket), routers, mounted, Len(log))

\* What is known of the routers that a request goes through.
GoesThrough(rs, known, now, in, len) ==
    /\ Made(rs, known) /\ MountedIn(rs, now, in) /\ in \subseteq Routers
    /\ len \in Nat /\ Len(known) <= len

LEMMA PathsAre ==
    ASSUME NEW path \in Paths
    PROVE  path \in Seq(STRING)
BY PatternsAssumption DEF Paths

LEMMA AfterIs ==
    ASSUME NEW path \in Seq(STRING), NEW prefix \in Seq(STRING), IsPrefix(prefix, path)
    PROVE  /\ After(path, prefix) \in Seq(STRING)
           /\ prefix = <<>> => After(path, prefix) = path
           /\ prefix = path => After(path, prefix) = <<>>
<1>1. PICK n \in Nat, m \in Nat : n = Len(path) /\ m = Len(prefix) /\ m <= n
  BY DEF IsPrefix
<1>2. After(path, prefix) = SubSeq(path, m + 1, n)
  BY <1>1 DEF After
<1>3. SubSeq(path, m + 1, n) \in Seq(STRING)
  <2>1. CASE m = n
    BY <1>1, <2>1, SubSeqProperties
  <2>2. CASE m < n
    BY <1>1, <2>2, SubSeqProperties
  <2>3. QED
    BY <1>1, <2>1, <2>2
<1>4. prefix = <<>> => SubSeq(path, m + 1, n) = path
  <2>1. SUFFICES ASSUME prefix = <<>> PROVE SubSeq(path, m + 1, n) = path
    OBVIOUS
  <2>2. m = 0
    BY <1>1, <2>1
  <2>3. SubSeq(path, 1, n) = path
    BY <1>1
  <2>4. QED
    BY <2>2, <2>3
<1>5. prefix = path => SubSeq(path, m + 1, n) = <<>>
  <2>1. SUFFICES ASSUME prefix = path PROVE SubSeq(path, m + 1, n) = <<>>
    OBVIOUS
  <2>2. m = n
    BY <1>1, <2>1
  <2>3. SubSeq(path, n + 1, n) = <<>>
    BY <1>1
  <2>4. QED
    BY <2>2, <2>3
<1>6. QED
  BY <1>2, <1>3, <1>4, <1>5

LEMMA PrefixOf ==
    ASSUME NEW path \in Seq(STRING)
    PROVE  IsPrefix(<<>>, path) /\ IsPrefix(path, path)
BY DEF IsPrefix

\* The router a request is at.
LEMMA RouterOfRequest ==
    ASSUME NEW rs, NEW known, NEW now, NEW in, NEW len, GoesThrough(rs, known, now, in, len),
           NEW rq, ReqOK(rq, rs, now, in, len)
    PROVE  /\ rq.router \in Routers /\ rs[rq.router].prefix \in Seq(STRING)
           /\ rq.path \in Seq(STRING)
           /\ Standing(rs[rq.router].endpoints, rq.router, known)
<1>1. rq.router \in Routers
  BY RoutersAssumption DEF GoesThrough, ReqOK
<1>2. rs[rq.router].prefix \in Paths \cup {<<>>}
  BY <1>1 DEF GoesThrough, Made, IsRouters
<1>3. rs[rq.router].prefix \in Seq(STRING)
  <2>1. <<>> \in Seq(STRING)
    OBVIOUS
  <2>2. QED
    BY <1>2, <2>1, PathsAre
<1>4. QED
  BY <1>1, <1>3 DEF GoesThrough, Made, Follow, ReqOK, IsReq

\* Only what it matches is used.
LEMMA FitIs ==
    ASSUME NEW endpoints, NEW method, NEW path, NEW e \in FirstFit(endpoints, method, path)
    PROVE  /\ e \in endpoints /\ Handles(e.method, method) /\ Matches(e.path, path)
           /\ \A f \in endpoints : Handles(f.method, method) /\ Matches(f.path, path) => e.id <= f.id
BY DEF FirstFit
-----------------------------------------------------------------------------
\* What becomes of a request that nothing fits, and of one that an endpoint does.
Missed(rq, path) == [rq EXCEPT !.pc = "404", !.rest = path, !.ep = 0]

TakenBy(rq, path, e) ==
    [rq EXCEPT !.pc = "chain", !.rest = path, !.ep = e.id, !.todo = e.mids,
               !.ran = <<>>, !.end = e.end, !.params = Params(e.path, path)]

RunsIn(rq, new, rs) ==
    LET router == rs[rq.router]
        path == After(rq.path, router.prefix)
        use == FirstFit(router.endpoints, rq.method, path)
    IN  IF ~IsPrefix(router.prefix, rq.path) THEN new = [rq EXCEPT !.pc = "panic"]
        ELSE IF use = {} THEN new = Missed(rq, path)
        ELSE \E ep \in use : new = TakenBy(rq, path, ep)

LEMMA PanicIs ==
    ASSUME NEW rq, IsReq(rq), NEW new, new = [rq EXCEPT !.pc = "panic"]
    PROVE  IsReq(new) /\ new.router = rq.router /\ new.ep = rq.ep /\ new.socket = rq.socket /\ new.pc = "panic"
<1>1. PICK a, b, c, d, f, g, h, i, j, k, l :
        rq = [pc |-> a, socket |-> b, method |-> c, path |-> d, router |-> f, rest |-> g, todo |-> h,
              ran |-> i, ep |-> j, end |-> k, params |-> l]
  BY DEF IsReq
<1>2. d \in Seq(STRING)
  BY <1>1 DEF IsReq
<1>3. new = [pc |-> "panic", socket |-> b, method |-> c, path |-> d, router |-> f, rest |-> g, todo |-> h,
             ran |-> i, ep |-> j, end |-> k, params |-> l]
  BY <1>1
<1>4. new.pc = "panic" /\ new.socket = b /\ new.method = c /\ new.path = d /\ new.router = f /\ new.rest = g
      /\ new.todo = h /\ new.ran = i /\ new.ep = j /\ new.end = k /\ new.params = l
  BY <1>3
<1>5. IsReq(new)
  BY <1>2, <1>3, <1>4 DEF IsReq, Pc
<1>6. QED
  BY <1>1, <1>4, <1>5

LEMMA NotFound ==
    ASSUME NEW rq, IsReq(rq), NEW path, NEW new, new = Missed(rq, path)
    PROVE  IsReq(new) /\ new.router = rq.router /\ new.ep = 0 /\ new.socket = rq.socket /\ new.pc = "404"
           /\ new.method = rq.method /\ new.rest = path
<1>1. PICK a, b, c, d, f, g, h, i, j, k, l :
        rq = [pc |-> a, socket |-> b, method |-> c, path |-> d, router |-> f, rest |-> g, todo |-> h,
              ran |-> i, ep |-> j, end |-> k, params |-> l]
  BY DEF IsReq
<1>2. d \in Seq(STRING)
  BY <1>1 DEF IsReq
<1>3. new = [pc |-> "404", socket |-> b, method |-> c, path |-> d, router |-> f, rest |-> path, todo |-> h,
             ran |-> i, ep |-> 0, end |-> k, params |-> l]
  BY <1>1 DEF Missed
<1>4. new.pc = "404" /\ new.socket = b /\ new.method = c /\ new.path = d /\ new.router = f /\ new.rest = path
      /\ new.todo = h /\ new.ran = i /\ new.ep = 0 /\ new.end = k /\ new.params = l
  BY <1>3
<1>5. IsReq(new)
  BY <1>2, <1>3, <1>4 DEF IsReq, Pc
<1>6. QED
  BY <1>1, <1>4, <1>5

LEMMA UsesEndpoint ==
    ASSUME NEW rq, IsReq(rq), NEW path, NEW e, e.mids \in Seq(Middlewares), NEW new,
           new = TakenBy(rq, path, e)
    PROVE  IsReq(new) /\ new.router = rq.router /\ new.ep = e.id /\ new.socket = rq.socket /\ new.pc = "chain"
           /\ new.method = rq.method /\ new.rest = path /\ new.path = rq.path /\ Uses(new, e)
<1>1. PICK a, b, c, d, f, g, h, i, j, k, l :
        rq = [pc |-> a, socket |-> b, method |-> c, path |-> d, router |-> f, rest |-> g, todo |-> h,
              ran |-> i, ep |-> j, end |-> k, params |-> l]
  BY DEF IsReq
<1>2. d \in Seq(STRING)
  BY <1>1 DEF IsReq
<1>3. PICK m, p : m = e.mids /\ p = Params(e.path, path)
  OBVIOUS
<1>4. new = [pc |-> "chain", socket |-> b, method |-> c, path |-> d, router |-> f, rest |-> path, todo |-> m,
             ran |-> <<>>, ep |-> e.id, end |-> e.end, params |-> p]
  BY <1>1, <1>3 DEF TakenBy
<1>5. new.pc = "chain" /\ new.socket = b /\ new.method = c /\ new.path = d /\ new.router = f /\ new.rest = path
      /\ new.todo = m /\ new.ran = <<>> /\ new.ep = e.id /\ new.end = e.end /\ new.params = p
  BY <1>4
<1>6. IsReq(new)
  BY <1>2, <1>4, <1>5 DEF IsReq, Pc
<1>7. <<>> \o m = m /\ <<>> \in Seq(Middlewares) /\ m \in Seq(Middlewares)
  BY <1>3
<1>8. Uses(new, e)
  BY <1>3, <1>5, <1>7 DEF Uses
<1>9. QED
  BY <1>1, <1>5, <1>6, <1>8

\* Router::run() finds what fits.
LEMMA RouterRunsOK ==
    ASSUME NEW rs, NEW known, NEW now, NEW in, NEW len, GoesThrough(rs, known, now, in, len),
           NEW rq, ReqOK(rq, rs, now, in, len), rq.pc = "router", NEW new, RunsIn(rq, new, rs)
    PROVE  ReqOK(new, rs, now, in, len) /\ new.socket = rq.socket
<1>1. PICK prefix, path, endpoints :
        /\ prefix = rs[rq.router].prefix /\ path = After(rq.path, prefix)
        /\ endpoints = rs[rq.router].endpoints
  OBVIOUS
<1>2. prefix \in Seq(STRING) /\ rq.path \in Seq(STRING) /\ Standing(endpoints, rq.router, known)
  BY <1>1, RouterOfRequest
<1>3. IsReq(rq) /\ rq.router \in in \cup {Root} /\ rq.ep \in 0 .. len /\ len \in Nat /\ Len(known) <= len
  BY DEF ReqOK, GoesThrough
<1>4. (\A r \in in : Plain(now[r].prefix)) => prefix \in {<<>>, rq.path}
  BY <1>1 DEF ReqOK, OnePrefix
<1>5. CASE ~IsPrefix(prefix, rq.path)
  <2>1. new = [rq EXCEPT !.pc = "panic"]
    BY <1>1, <1>5 DEF RunsIn
  <2>2. IsReq(new) /\ new.router = rq.router /\ new.ep = rq.ep /\ new.socket = rq.socket /\ new.pc = "panic"
    BY <1>3, <2>1, PanicIs
  <2>3. ~(\A r \in in : Plain(now[r].prefix))
    BY <1>2, <1>4, <1>5, PrefixOf
  <2>4. QED
    BY <1>3, <2>2, <2>3 DEF ReqOK
<1>6. CASE IsPrefix(prefix, rq.path) /\ FirstFit(endpoints, rq.method, path) = {}
  <2>1. new = Missed(rq, path)
    BY <1>1, <1>6 DEF RunsIn
  <2>2. IsReq(new) /\ new.router = rq.router /\ new.ep = 0 /\ new.socket = rq.socket /\ new.pc = "404"
           /\ new.method = rq.method /\ new.rest = path
    BY <1>3, <2>1, NotFound
  <2>3. Fit(new, rs) = {}
    BY <1>1, <1>6, <2>2 DEF Fit
  <2>4. 0 \in 0 .. len
    BY <1>3
  <2>5. QED
    BY <1>3, <2>2, <2>3, <2>4 DEF ReqOK, OnePrefix
<1>7. CASE IsPrefix(prefix, rq.path) /\ FirstFit(endpoints, rq.method, path) # {}
  <2>1. PICK e \in FirstFit(endpoints, rq.method, path) :
          new = TakenBy(rq, path, e)
    BY <1>1, <1>7 DEF RunsIn
  <2>2. e \in endpoints
    BY FitIs
  <2>3. e.mids \in Seq(Middlewares) /\ e.id \in 1 .. Len(known)
    BY <1>2, <2>2 DEF Standing, IsEndpoint
  <2>4. e.id \in 0 .. len
    <3>1. known \in Seq(Entries)
      BY DEF GoesThrough, Made, IsLog
    <3>2. QED
      BY <1>3, <2>3, <3>1
  <2>5. IsReq(new) /\ new.router = rq.router /\ new.ep = e.id /\ new.socket = rq.socket /\ new.pc = "chain"
           /\ new.method = rq.method /\ new.rest = path /\ new.path = rq.path /\ Uses(new, e)
    BY <1>3, <2>1, <2>3, UsesEndpoint
  <2>6. Chosen(new, rs)
    BY <1>1, <1>7, <2>1, <2>5 DEF Chosen, Fit
  <2>7. (\A r \in in : Plain(now[r].prefix)) => OnePrefix(new, rs)
    BY <1>1, <1>4, <2>5 DEF OnePrefix
  <2>8. QED
    BY <1>3, <2>4, <2>5, <2>6, <2>7 DEF ReqOK
<1>8. QED
  BY <1>5, <1>6, <1>7
-----------------------------------------------------------------------------
\* A middleware of a request has run.
Passed(rq, goesOn) ==
    [rq EXCEPT !.todo = Tail(@), !.ran = Append(@, Head(rq.todo)),
               !.pc = IF goesOn THEN @ ELSE "stopped"]

Ended(rq) ==
    IF rq.end = "handler" THEN [rq EXCEPT !.pc = "handled"]
                          ELSE [rq EXCEPT !.pc = "router", !.router = rq.end]

LEMMA OneOver ==
    ASSUME NEW S, NEW ran \in Seq(S), NEW todo \in Seq(S), todo # <<>>
    PROVE  /\ Append(ran, Head(todo)) \in Seq(S) /\ Tail(todo) \in Seq(S)
           /\ Append(ran, Head(todo)) \o Tail(todo) = ran \o todo
<1>1. PICK h, t : h = Head(todo) /\ t = Tail(todo)
  OBVIOUS
<1>2. h \in S /\ t \in Seq(S)
  BY <1>1, HeadTailProperties
<1>3. todo = <<h>> \o t
  BY <1>1, HeadTailProperties
<1>4. Append(ran, h) = ran \o <<h>> /\ Append(ran, h) \in Seq(S) /\ <<h>> \in Seq(S)
  BY <1>2
<1>5. (ran \o <<h>>) \o t = ran \o (<<h>> \o t)
  BY <1>2, <1>4, ConcatAssociative
<1>6. QED
  BY <1>1, <1>2, <1>3, <1>4, <1>5

LEMMA PassedIs ==
    ASSUME NEW rq, IsReq(rq), rq.pc = "chain", NEW goesOn, NEW new, new = Passed(rq, goesOn)
    PROVE  IsReq(new) /\ new.router = rq.router /\ new.ep = rq.ep /\ new.socket = rq.socket
           /\ new.method = rq.method /\ new.rest = rq.rest /\ new.path = rq.path
           /\ new.end = rq.end /\ new.params = rq.params
           /\ new.todo = Tail(rq.todo) /\ new.ran = Append(rq.ran, Head(rq.todo))
           /\ new.pc \in {"chain", "stopped"}
<1>1. PICK b, c, d, f, g, h, i, j, k, l :
        rq = [pc |-> "chain", socket |-> b, method |-> c, path |-> d, router |-> f, rest |-> g, todo |-> h,
              ran |-> i, ep |-> j, end |-> k, params |-> l]
  BY DEF IsReq
<1>2. d \in Seq(STRING)
  BY <1>1 DEF IsReq
<1>3. PICK a, t, r : a = (IF goesOn THEN "chain" ELSE "stopped") /\ t = Tail(h) /\ r = Append(i, Head(h))
  OBVIOUS
<1>4. new = [pc |-> a, socket |-> b, method |-> c, path |-> d, router |-> f, rest |-> g, todo |-> t,
             ran |-> r, ep |-> j, end |-> k, params |-> l]
  BY <1>1, <1>3 DEF Passed
<1>5. new.pc = a /\ new.socket = b /\ new.method = c /\ new.path = d /\ new.router = f /\ new.rest = g
      /\ new.todo = t /\ new.ran = r /\ new.ep = j /\ new.end = k /\ new.params = l
  BY <1>4
<1>6. a \in {"chain", "stopped"}
  BY <1>3
<1>7. IsReq(new)
  BY <1>2, <1>4, <1>5, <1>6 DEF IsReq, Pc
<1>8. QED
  BY <1>1, <1>3, <1>5, <1>6, <1>7

LEMMA EndedIs ==
    ASSUME NEW rq, IsReq(rq), NEW new, new = Ended(rq)
    PROVE  /\ IsReq(new) /\ new.ep = rq.ep /\ new.socket = rq.socket /\ new.path = rq.path
           /\ rq.end = "handler" => new.pc = "handled" /\ new.router = rq.router
           /\ rq.end # "handler" => new.pc = "router" /\ new.router = rq.end
<1>1. PICK a, b, c, d, f, g, h, i, j, k, l :
        rq = [pc |-> a, socket |-> b, method |-> c, path |-> d, router |-> f, rest |-> g, todo |-> h,
              ran |-> i, ep |-> j, end |-> k, params |-> l]
  BY DEF IsReq
<1>2. d \in Seq(STRING)
  BY <1>1 DEF IsReq
<1>3. PICK p, q : /\ k = "handler" => p = "handled" /\ q = f
                  /\ k # "handler" => p = "router" /\ q = k
  <2>1. CASE k = "handler"
    BY <2>1
  <2>2. CASE k # "handler"
    BY <2>2
  <2>3. QED
    BY <2>1, <2>2
<1>4. new = [pc |-> p, socket |-> b, method |-> c, path |-> d, router |-> q, rest |-> g, todo |-> h,
             ran |-> i, ep |-> j, end |-> k, params |-> l]
  BY <1>1, <1>3 DEF Ended
<1>5. new.pc = p /\ new.socket = b /\ new.method = c /\ new.path = d /\ new.router = q /\ new.rest = g
      /\ new.todo = h /\ new.ran = i /\ new.ep = j /\ new.end = k /\ new.params = l
  BY <1>4
<1>6. p \in {"handled", "router"}
  BY <1>3
<1>7. IsReq(new)
  BY <1>2, <1>4, <1>5, <1>6 DEF IsReq, Pc
<1>8. QED
  BY <1>1, <1>3, <1>5, <1>7

LEMMA MiddlewareRunsOK ==
    ASSUME NEW rs, NEW now, NEW in, NEW len, NEW rq, ReqOK(rq, rs, now, in, len),
           rq.pc = "chain", rq.todo # <<>>, NEW goesOn, NEW new, new = Passed(rq, goesOn)
    PROVE  ReqOK(new, rs, now, in, len) /\ new.socket = rq.socket
<1>1. IsReq(rq) /\ rq.router \in in \cup {Root} /\ rq.ep \in 0 .. len /\ Chosen(rq, rs)
  BY DEF ReqOK
<1>2. IsReq(new) /\ new.router = rq.router /\ new.ep = rq.ep /\ new.socket = rq.socket
        /\ new.method = rq.method /\ new.rest = rq.rest /\ new.path = rq.path
        /\ new.end = rq.end /\ new.params = rq.params
        /\ new.todo = Tail(rq.todo) /\ new.ran = Append(rq.ran, Head(rq.todo))
        /\ new.pc \in {"chain", "stopped"}
  BY <1>1, PassedIs
<1>3. Chosen(new, rs)
  <2>1. PICK e \in Fit(rq, rs) : Uses(rq, e)
    BY <1>1 DEF Chosen
  <2>2. Uses(new, e)
    <3>1. rq.ran \in Seq(Middlewares) /\ rq.todo \in Seq(Middlewares)
      BY <2>1 DEF Uses
    <3>2. /\ Append(rq.ran, Head(rq.todo)) \in Seq(Middlewares) /\ Tail(rq.todo) \in Seq(Middlewares)
          /\ Append(rq.ran, Head(rq.todo)) \o Tail(rq.todo) = rq.ran \o rq.todo
      BY <3>1, OneOver
    <3>3. QED
      BY <1>2, <2>1, <3>2 DEF Uses
  <2>3. e \in Fit(new, rs)
    BY <1>2, <2>1 DEF Fit
  <2>4. QED
    BY <1>1, <1>2, <2>2, <2>3 DEF Chosen
<1>4. (\A r \in in : Plain(now[r].prefix)) => OnePrefix(new, rs)
  BY <1>2 DEF ReqOK, OnePrefix
<1>5. QED
  BY <1>1, <1>2, <1>3, <1>4 DEF ReqOK

\* The router that is mounted where the request was found, or the handler.
LEMMA EndRunsOK ==
    ASSUME NEW rs, NEW known, NEW now, NEW in, NEW len, GoesThrough(rs, known, now, in, len),
           NEW rq, ReqOK(rq, rs, now, in, len), rq.pc = "chain", NEW new, new = Ended(rq)
    PROVE  ReqOK(new, rs, now, in, len) /\ new.socket = rq.socket
<1>1. IsReq(rq) /\ rq.router \in in \cup {Root} /\ rq.ep \in 0 .. len /\ Chosen(rq, rs)
  BY DEF ReqOK
<1>2. /\ IsReq(new) /\ new.ep = rq.ep /\ new.socket = rq.socket /\ new.path = rq.path
      /\ rq.end = "handler" => new.pc = "handled" /\ new.router = rq.router
      /\ rq.end # "handler" => new.pc = "router" /\ new.router = rq.end
  BY <1>1, EndedIs
<1>3. CASE rq.end = "handler"
  BY <1>1, <1>2, <1>3 DEF ReqOK, OnePrefix
<1>4. CASE rq.end # "handler"
  <2>1. PICK e \in Fit(rq, rs) : Uses(rq, e)
    BY <1>1 DEF Chosen
  <2>2. e \in rs[rq.router].endpoints /\ Matches(e.path, rq.rest) /\ rq.end = e.end
    BY <2>1, FitIs DEF Fit, Uses
  <2>3. rq.router \in Routers /\ rs[rq.router].prefix \in Seq(STRING) /\ rq.path \in Seq(STRING)
    BY RouterOfRequest
  <2>4. e.end \in in /\ rs[e.end].prefix = e.path /\ now[e.end].prefix = e.path
    BY <1>4, <2>2, <2>3 DEF GoesThrough, MountedIn
  <2>5. ASSUME \A r \in in : Plain(now[r].prefix) PROVE rs[e.end].prefix \in {<<>>, rq.path}
    <3>1. rs[rq.router].prefix \in {<<>>, rq.path}
      BY <2>5 DEF ReqOK, OnePrefix
    <3>2. rq.rest \in Seq(STRING) /\ rq.rest \in {<<>>, rq.path}
      BY <1>1, <2>3, <3>1, AfterIs DEF Chosen
    <3>3. e.path \in Seq(STRING)
      <4>1. e.end \in Routers
        BY <2>4 DEF GoesThrough
      <4>2. e.path \in Paths \/ e.path = <<>>
        BY <2>4, <4>1 DEF GoesThrough, Made, IsRouters
      <4>3. QED
        <5>1. <<>> \in Seq(STRING)
          OBVIOUS
        <5>2. QED
          BY <4>2, <5>1, PathsAre
    <3>4. \A i \in DOMAIN e.path : ~Wild(e.path[i])
      BY <2>4, <2>5 DEF Plain
    <3>5. rq.rest = e.path
      BY <2>2, <3>2, <3>3, <3>4, PlainMatches
    <3>6. QED
      BY <2>4, <3>2, <3>5
  <2>6. QED
    BY <1>1, <1>2, <1>4, <2>2, <2>4, <2>5 DEF ReqOK, OnePrefix
<1>5. QED
  BY <1>3, <1>4

-----------------------------------------------------------------------------
RoutingInv == RegInv /\ ReqInv

\* The routers that the request goes through are those that were registered by
\* then, or that there were when listen() was called.
LEMMA KnownIs ==
    ASSUME RoutingInv, NEW socket \in BOOLEAN, socket => served # NotListening
    PROVE  \E known : /\ GoesThrough(RoutersOf(socket), known, routers, mounted, Len(log))
                      /\ (socket <=> req.socket) => known = Known
<1>1. Made(routers, log) /\ mounted \subseteq Routers /\ MountedIn(routers, routers, mounted)
  BY DEF RoutingInv, RegInv, Registered
<1>2. Len(log) \in Nat
  BY <1>1 DEF Made, IsLog
<1>3. CASE ~socket
  <2>1. GoesThrough(RoutersOf(socket), log, routers, mounted, Len(log))
    BY <1>1, <1>2, <1>3 DEF GoesThrough, RoutersOf
  <2>2. (socket <=> req.socket) => log = Known
    BY <1>3 DEF Known
  <2>3. QED
    BY <2>1, <2>2
<1>4. CASE socket
  <2>1. PICK n \in Nat : ListenAt(n, log) /\ Made(served, SubSeq(log, 1, n))
    BY <1>4 DEF RoutingInv, RegInv, ServedInv
  <2>2. n \in DOMAIN log /\ n \in 1 .. Len(log) /\ log \in Seq(Entries)
    BY <1>1, <2>1 DEF ListenAt, Made, IsLog
  <2>3. (CHOOSE i \in DOMAIN log : log[i].op = "listen") = n
    <3>1. DOMAIN log = 1 .. Len(log)
      BY <2>2
    <3>2. \A i \in DOMAIN log : log[i].op = "listen" => i = n
      BY <2>1, <3>1 DEF ListenAt
    <3>3. log[n].op = "listen"
      BY <2>1 DEF ListenAt
    <3>4. QED
      BY <2>2, <3>2, <3>3
  <2>4. Len(SubSeq(log, 1, n)) <= Len(log)
    BY <1>2, <2>2, SubSeqProperties
  <2>5. MountedIn(served, routers, mounted)
    BY <1>4 DEF RoutingInv, RegInv, ServedInv
  <2>6. GoesThrough(RoutersOf(socket), SubSeq(log, 1, n), routers, mounted, Len(log))
    BY <1>1, <1>2, <1>4, <2>1, <2>4, <2>5 DEF GoesThrough, RoutersOf
  <2>7. (socket <=> req.socket) => SubSeq(log, 1, n) = Known
    <3>1. SUFFICES ASSUME req.socket PROVE SubSeq(log, 1, n) = Known
      BY <1>4
    <3>2. Known = SubSeq(log, 1, CHOOSE i \in DOMAIN log : log[i].op = "listen")
      BY <3>1, Zenon DEF Known
    <3>3. QED
      BY <2>3, <3>2, Zenon
  <2>8. QED
    BY <2>6, <2>7
<1>5. QED
  BY <1>3, <1>4

LEMMA RequestKeeps ==
    ASSUME RoutingInv, NEW socket \in BOOLEAN, NEW method \in Methods, NEW path \in Targets,
           Request(socket, method, path)
    PROVE  ReqInv'
<1>1. PICK known : GoesThrough(RoutersOf(socket), known, routers, mounted, Len(log))
  BY KnownIs DEF Request
<1>2. PICK rs : rs = RoutersOf(socket)
  OBVIOUS
<1>3. rs[Root].prefix = <<>> /\ Len(log) \in Nat
  BY <1>1, <1>2 DEF GoesThrough, Made, IsRouters
<1>4. PICK new : new = [pc |-> "router", socket |-> socket, method |-> method, path |-> path,
               router |-> Root, rest |-> path, todo |-> <<>>, ran |-> <<>>,
               ep |-> 0, end |-> "none", params |-> <<>>]
  OBVIOUS
<1>5. new.pc = "router" /\ new.socket = socket /\ new.path = path /\ new.router = Root /\ new.ep = 0
  BY <1>4
<1>6. IsReq(new)
  <2>1. path \in Seq(STRING)
    BY PatternsAssumption
  <2>2. QED
    BY <1>4, <1>5, <2>1 DEF IsReq, Pc
<1>7. ReqOK(new, rs, routers, mounted, Len(log))
  <2>1. 0 \in 0 .. Len(log)
    BY <1>3
  <2>2. QED
    BY <1>3, <1>5, <1>6, <2>1 DEF ReqOK, OnePrefix
<1>8. req' = new /\ RoutersOf(socket)' = rs /\ routers' = routers /\ mounted' = mounted /\ log' = log
      /\ served' = served /\ (socket => served # NotListening)
  BY <1>2, <1>4 DEF Request, RoutersOf
<1>9. QED
  BY <1>5, <1>7, <1>8 DEF ReqInv, RoutersOf

LEMMA DispatchKeeps ==
    ASSUME RoutingInv, req.pc # "none",
           RouterRuns \/ (\E goesOn \in BOOLEAN : MiddlewareRuns(goesOn)) \/ EndRuns
    PROVE  ReqInv'
<1>1. req # NoRequest
  BY DEF NoRequest
<1>2. PICK rs : rs = RoutersOf(req.socket)
  OBVIOUS
<1>3. req.socket \in BOOLEAN /\ (req.socket => served # NotListening)
      /\ ReqOK(req, rs, routers, mounted, Len(log))
  BY <1>1, <1>2 DEF RoutingInv, ReqInv
<1>4. PICK known : GoesThrough(rs, known, routers, mounted, Len(log))
  BY <1>2, <1>3, KnownIs
<1>5. ReqOK(req', rs, routers, mounted, Len(log)) /\ req'.socket = req.socket
  <2>1. CASE RouterRuns
    <3>1. RunsIn(req, req', rs) /\ req.pc = "router"
      BY <1>2, <2>1 DEF RouterRuns, RunsIn, Missed, TakenBy
    <3>2. QED
      BY <1>3, <1>4, <3>1, RouterRunsOK
  <2>2. CASE \E goesOn \in BOOLEAN : MiddlewareRuns(goesOn)
    <3>1. PICK goesOn \in BOOLEAN : MiddlewareRuns(goesOn)
      BY <2>2
    <3>2. req.pc = "chain" /\ req.todo # <<>> /\ req' = Passed(req, goesOn)
      BY <3>1 DEF MiddlewareRuns, Passed
    <3>3. QED
      BY <1>3, <3>2, MiddlewareRunsOK
  <2>3. CASE EndRuns
    <3>1. req.pc = "chain" /\ req' = Ended(req)
      BY <2>3 DEF EndRuns, Ended
    <3>2. QED
      BY <1>3, <1>4, <3>1, EndRunsOK
  <2>4. QED
    BY <2>1, <2>2, <2>3
<1>6. routers' = routers /\ mounted' = mounted /\ log' = log /\ served' = served
  BY DEF RouterRuns, MiddlewareRuns, EndRuns
<1>7. QED
  BY <1>2, <1>3, <1>5, <1>6 DEF ReqInv, RoutersOf
-----------------------------------------------------------------------------
LEMMA NoneNone ==
    NoRequest.pc = "none"
BY DEF NoRequest

LEMMA RoutingStep ==
    ASSUME RoutingInv, [RoutingNext]_routingVars
    PROVE  RoutingInv'
<1>1. CASE UNCHANGED routingVars
  <2>1. RegInv'
    BY <1>1 DEF RoutingInv, RegInv, Registered, RouteInv, ServedInv, routingVars
  <2>2. ReqInv'
    BY <1>1 DEF RoutingInv, ReqInv, RoutersOf, routingVars
  <2>3. QED
    BY <2>1, <2>2 DEF RoutingInv
<1>2. CASE req = NoRequest /\ Registration
  <2>1. RegInv'
    BY <1>2, RegisteringKeeps DEF RoutingInv
  <2>2. req' = NoRequest
    BY <1>2 DEF Registration, At, AddMiddleware, Method, Mount, Listen
  <2>3. QED
    BY <2>1, <2>2 DEF RoutingInv, ReqInv
<1>3. ASSUME NEW socket \in BOOLEAN, NEW method \in Methods, NEW path \in Targets, Request(socket, method, path)
      PROVE  RoutingInv'
  <2>1. RegInv'
    BY <1>3 DEF RoutingInv, RegInv, Registered, RouteInv, ServedInv, Request
  <2>2. QED
    BY <1>3, <2>1, RequestKeeps DEF RoutingInv
<1>4. CASE RouterRuns \/ (\E goesOn \in BOOLEAN : MiddlewareRuns(goesOn)) \/ EndRuns
  <2>1. RegInv'
    BY <1>4 DEF RoutingInv, RegInv, Registered, RouteInv, ServedInv, RouterRuns, MiddlewareRuns, EndRuns
  <2>2. req.pc # "none"
    BY <1>4 DEF RouterRuns, MiddlewareRuns, EndRuns
  <2>3. QED
    BY <1>4, <2>1, <2>2, DispatchKeeps DEF RoutingInv
<1>5. QED
  BY <1>1, <1>2, <1>3, <1>4 DEF RoutingNext

\* The routers have what the log says and a request goes by them: the inductive
\* invariant.
THEOREM RoutingCorrect ==
    RoutingSpec => []RoutingInv
<1>1. RoutingInit => RoutingInv
  BY RegInit DEF RoutingInv, ReqInv, RoutingInit
<1>2. RoutingInv /\ [RoutingNext]_routingVars => RoutingInv'
  BY RoutingStep
<1>3. QED
  BY <1>1, <1>2, PTL DEF RoutingSpec
-----------------------------------------------------------------------------
\* What a handled request knows: its endpoint, and the entry of it.
LEMMA FitEntry ==
    ASSUME NEW endpoints, NEW r, NEW known, Standing(endpoints, r, known), NEW method, NEW path,
           NEW e \in endpoints, Handles(e.method, method), Matches(e.path, path)
    PROVE  /\ e.id \in 1 .. Len(known) /\ Stands(known, e.id)
           /\ known[AtOf(known, e.id)].router = r
           /\ known[e.id].op = "handler" => Handles(known[e.id].method, method)
           /\ Matches(known[AtOf(known, e.id)].path, path)
BY DEF Standing, IsEndpoint

LEMMA EntryFits ==
    ASSUME NEW endpoints, NEW r, NEW known, Standing(endpoints, r, known), NEW method, NEW path,
           NEW i \in 1 .. Len(known), Stands(known, i), known[AtOf(known, i)].router = r,
           known[i].op = "handler" => Handles(known[i].method, method),
           Matches(known[AtOf(known, i)].path, path)
    PROVE  \E e \in endpoints : e.id = i /\ Handles(e.method, method) /\ Matches(e.path, path)
<1>1. PICK e \in endpoints : e.id = i
  BY DEF Standing
<1>2. IsEndpoint(e, known)
  BY <1>1 DEF Standing
<1>3. Matches(e.path, path)
  BY <1>1, <1>2 DEF IsEndpoint
<1>4. known[i].op = "handler" \/ known[i].op = "router"
  BY DEF Stands
<1>5. Handles(e.method, method)
  BY <1>1, <1>2, <1>4 DEF IsEndpoint, Handles
<1>6. QED
  BY <1>1, <1>3, <1>5

LEMMA FirstIsThere ==
    ASSUME NEW endpoints, NEW r, NEW known, Standing(endpoints, r, known), NEW method, NEW path,
           FirstFit(endpoints, method, path) = {}
    PROVE  \A e \in endpoints : ~(Handles(e.method, method) /\ Matches(e.path, path))
<1>1. SUFFICES ASSUME NEW e \in endpoints, Handles(e.method, method) /\ Matches(e.path, path) PROVE FALSE
  OBVIOUS
<1>2. PICK fits : fits = {f \in endpoints : Handles(f.method, method) /\ Matches(f.path, path)}
  OBVIOUS
<1>3. PICK ids : ids = {f.id : f \in fits}
  OBVIOUS
<1>4. \A f \in fits : f.id \in 1 .. Len(known)
  BY <1>2 DEF Standing, IsEndpoint
<1>5. ids \subseteq Nat
  BY <1>3, <1>4
<1>6. ids # {}
  BY <1>1, <1>2, <1>3
<1>7. PICK i \in ids : \A j \in ids : i <= j
  BY <1>5, <1>6, Least
<1>8. PICK f \in fits : f.id = i
  BY <1>3, <1>7
<1>9. \A g \in fits : f.id <= g.id
  BY <1>3, <1>7, <1>8
<1>10. f \in FirstFit(endpoints, method, path)
  BY <1>2, <1>8, <1>9 DEF FirstFit
<1>11. QED
  BY <1>10

LEMMA InvDispatch ==
    RoutingInv => DispatchFollowsRegistrations /\ ParamsRebuildPath /\ RoutingTypeOK
<1>1. SUFFICES ASSUME RoutingInv PROVE DispatchFollowsRegistrations /\ ParamsRebuildPath /\ RoutingTypeOK
  OBVIOUS
<1>2. DOMAIN routers = Routers /\ mounted \subseteq Routers \ {Root} /\ Len(log) <= MaxOps
  BY <1>1 DEF RoutingInv, RegInv, Registered, Made, IsRouters
<1>3. CASE req = NoRequest
  BY <1>2, <1>3, NoneNone DEF DispatchFollowsRegistrations, EarliestHandles, MiddlewareInOrder,
       PanicOnlyUnderWildcard, ParamsRebuildPath, RoutingTypeOK, Pc
<1>4. CASE req # NoRequest
  <2>1. PICK rs : rs = RoutersOf(req.socket)
    OBVIOUS
  <2>2. req.socket \in BOOLEAN /\ (req.socket => served # NotListening)
        /\ ReqOK(req, rs, routers, mounted, Len(log))
    BY <1>1, <1>4, <2>1 DEF RoutingInv, ReqInv
  <2>3. GoesThrough(rs, Known, routers, mounted, Len(log))
    BY <1>1, <2>1, <2>2, KnownIs
  <2>4. PICK known, endpoints, r : known = Known /\ r = req.router /\ endpoints = rs[r].endpoints
    OBVIOUS
  <2>5. Standing(endpoints, r, known) /\ rs[r].prefix \in Seq(STRING) /\ req.path \in Seq(STRING)
    BY <2>2, <2>3, <2>4, RouterOfRequest
  <2>6. known \in Seq(Entries) /\ DOMAIN known = 1 .. Len(known)
    BY <2>3, <2>4 DEF GoesThrough, Made, IsLog
  <2>7. \A i : i \in Takers(r) <=>
                 /\ i \in 1 .. Len(known) /\ Stands(known, i) /\ known[AtOf(known, i)].router = r
                 /\ known[i].op = "handler" => Handles(known[i].method, req.method)
                 /\ Matches(known[AtOf(known, i)].path, req.rest)
    BY <2>4, <2>6 DEF Takers
  <2>8. Fit(req, rs) = FirstFit(endpoints, req.method, req.rest)
    BY <2>4 DEF Fit
  <2>9. req.pc = "404" => Takers(req.router) = {}
    <3>1. SUFFICES ASSUME req.pc = "404", NEW i \in Takers(r) PROVE FALSE
      BY <2>4
    <3>2. FirstFit(endpoints, req.method, req.rest) = {}
      BY <2>2, <2>8, <3>1 DEF ReqOK
    <3>3. \E e \in endpoints : Handles(e.method, req.method) /\ Matches(e.path, req.rest)
      <4>1. /\ i \in 1 .. Len(known) /\ Stands(known, i) /\ known[AtOf(known, i)].router = r
            /\ known[i].op = "handler" => Handles(known[i].method, req.method)
            /\ Matches(known[AtOf(known, i)].path, req.rest)
        BY <2>7, <3>1
      <4>2. QED
        BY <2>5, <4>1, EntryFits
    <3>4. QED
      BY <2>5, <3>2, <3>3, FirstIsThere
  <2>10. ASSUME req.pc = "chain"
         PROVE  /\ req.ep \in Takers(req.router) /\ \A i \in Takers(req.router) : req.ep <= i
                /\ AddedAt(req.ran \o req.todo, Known, MiddlewaresOf(Known, req.ep))
                /\ Matches(Known[AtOf(Known, req.ep)].path, req.rest)
                /\ req.params = Params(Known[AtOf(Known, req.ep)].path, req.rest)
                /\ req.rest \in Seq(STRING)
                /\ Known[AtOf(Known, req.ep)].path \in Paths
    <3>1. Chosen(req, rs)
      BY <2>2, <2>10 DEF ReqOK
    <3>2. PICK e \in FirstFit(endpoints, req.method, req.rest) : Uses(req, e)
      BY <2>8, <3>1 DEF Chosen
    <3>3. /\ e \in endpoints /\ Handles(e.method, req.method) /\ Matches(e.path, req.rest)
          /\ \A f \in endpoints : Handles(f.method, req.method) /\ Matches(f.path, req.rest) => e.id <= f.id
      BY FitIs
    <3>4. req.ep = e.id /\ req.ran \o req.todo = e.mids /\ req.params = Params(e.path, req.rest)
      BY <3>2 DEF Uses
    <3>5. IsEndpoint(e, known) /\ Stands(known, e.id)
      BY <2>5, <3>3 DEF Standing
    <3>6. req.ep \in Takers(r)
      <4>1. /\ e.id \in 1 .. Len(known) /\ Stands(known, e.id)
            /\ known[AtOf(known, e.id)].router = r
            /\ known[e.id].op = "handler" => Handles(known[e.id].method, req.method)
            /\ Matches(known[AtOf(known, e.id)].path, req.rest)
        BY <2>5, <3>3, FitEntry
      <4>2. QED
        BY <2>7, <3>4, <4>1
    <3>7. ASSUME NEW i \in Takers(r) PROVE req.ep <= i
      <4>1. PICK f \in endpoints : f.id = i /\ Handles(f.method, req.method) /\ Matches(f.path, req.rest)
        BY <2>5, <2>7, <3>7, EntryFits
      <4>2. QED
        BY <3>3, <3>4, <4>1
    <3>8. AddedAt(e.mids, known, MiddlewaresOf(known, e.id)) /\ e.path = known[AtOf(known, e.id)].path
          /\ e.id \in 1 .. Len(known)
      BY <3>5 DEF IsEndpoint
    <3>9. req.rest \in Seq(STRING)
      BY <2>4, <2>5, <3>1, AfterIs DEF Chosen
    <3>10. known[AtOf(known, e.id)].path \in Paths
      <4>1. PICK a : a = AtOf(known, e.id)
        OBVIOUS
      <4>2. IsAt(known, a, e.id)
        BY <2>3, <2>4, <3>5, <3>8, <4>1 DEF GoesThrough, Made, IsLog, Stands, EndOp
      <4>3. a \in 1 .. Len(known) /\ known[a].op = "at"
        BY <2>6, <3>8, <4>2 DEF IsAt
      <4>4. known[a] \in Entries
        BY <2>6, <4>3
      <4>5. QED
        BY <4>1, <4>3, <4>4 DEF Entries
    <3>11. QED
      BY <2>4, <3>3, <3>4, <3>6, <3>7, <3>8, <3>9, <3>10
  <2>11. PanicOnlyUnderWildcard
    BY <2>2 DEF PanicOnlyUnderWildcard, ReqOK, Plain, OnePrefix
  <2>12. ParamsRebuildPath
    <3>1. SUFFICES ASSUME req.pc = "chain",
                          \A i \in DOMAIN Segments(Known[AtOf(Known, req.ep)].path) :
                             Segments(Known[AtOf(Known, req.ep)].path)[i] \notin Nameless
                   PROVE  req.rest = FlattenSeq(PutBack(Known[AtOf(Known, req.ep)].path, req.params))
      BY DEF ParamsRebuildPath, PutBack
    <3>2. PICK p : p = Known[AtOf(Known, req.ep)].path
      OBVIOUS
    <3>3. p \in Paths /\ Matches(p, req.rest) /\ req.params = Params(p, req.rest) /\ req.rest \in Seq(STRING)
      BY <2>10, <3>1, <3>2
    <3>4. p \in Seq(STRING) /\ NamesOnce(p)
      BY <3>3, PathsAre, NamesAssumption DEF Paths, NamesOnce
    <3>5. req.rest = FlattenSeq(PutBack(p, Params(p, req.rest)))
      BY <3>1, <3>2, <3>3, <3>4, PutBackGives
    <3>6. QED
      BY <3>2, <3>3, <3>5
  <2>13. RoutingTypeOK
    BY <1>2, <2>2 DEF RoutingTypeOK, ReqOK, IsReq
  <2>14. QED
    BY <2>9, <2>10, <2>11, <2>12, <2>13 DEF DispatchFollowsRegistrations, EarliestHandles, MiddlewareInOrder
<1>5. QED
  BY <1>3, <1>4

\* A request is handled by the earliest registration that fits and stands, through
\* the middlewares its route had by then, and panics only under a wildcard: what
\* Router::run(), add_handler() and reset() have of the registrations is what was
\* registered (server/router.rs, server/route.rs, server/chain.rs).
THEOREM DispatchCorrect ==
    RoutingSpec => []DispatchFollowsRegistrations
BY RoutingCorrect, InvDispatch, PTL

\* The parameters that path_match() gives rebuild the path that was requested.
THEOREM ParamsCorrect ==
    RoutingSpec => []ParamsRebuildPath
BY RoutingCorrect, InvDispatch, PTL

\* A request is always at a router that is mounted, or at the server's own.
THEOREM RoutingTypes ==
    RoutingSpec => []RoutingTypeOK
BY RoutingCorrect, InvDispatch, PTL
=============================================================================
