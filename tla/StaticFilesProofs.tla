------------------------- MODULE StaticFilesProofs -------------------------
(***************************************************************************)
(* What a conditional request may be told, and what a body has of the      *)
(* file, for any clock, file, changes of it, ranges, sizes of the buffers  *)
(* and number of requests.                                                 *)
(***************************************************************************)
EXTENDS StaticFiles, TLAPS

\* A request that was taken has all its fields.
Whole13 ==
    serving = [pc |-> serving.pc, status |-> serving.status, method |-> serving.method,
               asked |-> serving.asked, range |-> serving.range, since |-> serving.since,
               text |-> serving.text, served |-> serving.served, length |-> serving.length,
               mtime |-> serving.mtime, version |-> serving.version,
               promised |-> serving.promised, whole |-> serving.whole]

\* The date a client sends is that of the copy it has, which stays until it has
\* another one; and it is the second of the time of a file that is not modified.
DateInv ==
    /\ serving.pc # "idle" => Whole13 /\ serving.mtime \in Int
    /\ file.mtime \in Int /\ clock \in Int /\ copy.stamp \in Int
    /\ serving.pc = "open" => serving.since \in Int /\ (serving.since >= 0 => serving.since = copy.stamp)
    /\ serving.pc = "send" => serving.status # 304
    /\ serving.pc = "done" /\ serving.status = 304 => SecondOf(serving.mtime) = copy.stamp

-----------------------------------------------------------------------------
\* The whole second that a date in a header stands for.
LEMMA SameSecond ==
    ASSUME NEW mtime \in Int, NEW since \in Int, NotModified(mtime, since)
    PROVE  SecondOf(mtime) = since
<1>1. TicksPerSecond \in Nat /\ TicksPerSecond > 0
  BY StaticAssumption
<1>2. PICK diff \in Int : diff = mtime - since * TicksPerSecond
  BY <1>1
<1>3. 0 <= diff /\ diff < TicksPerSecond
  BY <1>1, <1>2 DEF NotModified
<1>4. mtime = since * TicksPerSecond + diff
  BY <1>1, <1>2
<1>5. QED
  BY <1>1, <1>3, <1>4 DEF SecondOf

LEMMA DateInit == StaticInit => DateInv
<1> SUFFICES ASSUME StaticInit PROVE DateInv
  OBVIOUS
<1>1. TicksPerSecond \in Int
  BY StaticAssumption
<1>2. file.mtime \in Int
  BY <1>1 DEF StaticInit
<1>3. QED
  BY <1>1, <1>2 DEF StaticInit, DateInv, Idle, NoCopy

\* A request as it is taken, and what becomes of it then.
Taken(method, range, r, since, text) ==
    [pc |-> "open", status |-> 0, method |-> method, asked |-> range,
     range |-> r, since |-> since, text |-> text, served |-> serving.served + 1,
     length |-> 0, mtime |-> 0, version |-> 0, promised |-> 0, whole |-> FALSE]

\* The range it asks for, as it is kept.
RangeOf(method, range) ==
    IF method = "GET" /\ range # None THEN ParseRange(range) ELSE None

Opens(taken) ==
    \/ serving' = taken /\ taken.method \in {"GET", "HEAD"}
    \/ serving' = [taken EXCEPT !.pc = "panic"]
    \/ \E s \in {500, 405, 404, 400} : serving' = [taken EXCEPT !.pc = "done", !.status = s]

LEMMA RequestTaken ==
    ASSUME NEW method, NEW target, NEW range, NEW since, NEW text,
           StaticRequest(method, target, range, since, text)
    PROVE  Opens(Taken(method, range, RangeOf(method, range), since, text))
<1>1. PICK r : r = RangeOf(method, range)
  OBVIOUS
<1>2. PICK taken : taken = Taken(method, range, r, since, text)
  OBVIOUS
<1>3. serving' =
        CASE target = "params" -> [taken EXCEPT !.pc = "done", !.status = 500]
          [] target # "params" /\ method \notin {"GET", "HEAD"} ->
               [taken EXCEPT !.pc = "done", !.status = 405]
          [] OTHER ->
               CASE target \in {"missing", "outside", "dir"} ->
                      [taken EXCEPT !.pc = "done", !.status = 404]
                 [] target = "bad" -> [taken EXCEPT !.pc = "done", !.status = 400]
                 [] target = "file" /\ file.state = "gone" ->
                      [taken EXCEPT !.pc = "done", !.status = 404]
                 [] OTHER -> IF method = "GET" /\ range # None /\ Overflows(range)
                               THEN [taken EXCEPT !.pc = "panic"] ELSE taken
  BY <1>1, <1>2 DEF StaticRequest, Taken, RangeOf
<1>4. taken.method = method
  BY <1>2 DEF Taken
<1>5. Opens(taken)
  BY <1>3, <1>4 DEF Opens
<1>6. QED
  BY <1>1, <1>2, <1>5

LEMMA RequestDate ==
    ASSUME DateInv, NEW method, NEW target, NEW range, NEW since \in Int, NEW text,
           since >= 0 => since = copy.stamp,
           StaticRequest(method, target, range, since, text)
    PROVE  DateInv'
<1>1. UNCHANGED <<file, clock, copy>>
  BY DEF StaticRequest
<1>2. PICK r : r = RangeOf(method, range) /\ Opens(Taken(method, range, r, since, text))
  BY RequestTaken
<1>3. PICK taken : taken = Taken(method, range, r, since, text)
  OBVIOUS
<1>4. CASE serving' = taken
  BY <1>1, <1>3, <1>4 DEF DateInv, Whole13, Taken
<1>5. CASE serving' = [taken EXCEPT !.pc = "panic"]
  <2>1. serving'.pc = "panic" /\ serving'.mtime = 0 /\ Whole13'
    BY <1>3, <1>5 DEF Taken, Whole13
  <2>2. QED
    BY <1>1, <2>1 DEF DateInv
<1>6. ASSUME NEW s \in {500, 405, 404, 400}, serving' = [taken EXCEPT !.pc = "done", !.status = s]
      PROVE  DateInv'
  <2>1. serving' = [pc |-> "done", status |-> s, method |-> method, asked |-> range,
                    range |-> r, since |-> since, text |-> text,
                    served |-> serving.served + 1, length |-> 0, mtime |-> 0,
                    version |-> 0, promised |-> 0, whole |-> FALSE]
    BY <1>3, <1>6 DEF Taken
  <2>2. serving'.pc = "done" /\ serving'.status # 304 /\ serving'.mtime = 0
    BY <2>1
  <2>3. Whole13'
    BY <2>1 DEF Whole13
  <2>4. QED
    BY <1>1, <2>2, <2>3 DEF DateInv
<1>7. QED
  BY <1>2, <1>3, <1>4, <1>5, <1>6 DEF Opens

\* The request with another state, status and body.
Answered(pc, status, promised, whole) ==
    [pc |-> pc, status |-> status, method |-> serving.method, asked |-> serving.asked,
     range |-> serving.range, since |-> serving.since, text |-> serving.text,
     served |-> serving.served, length |-> serving.length, mtime |-> serving.mtime,
     version |-> serving.version, promised |-> promised, whole |-> whole]

LEMMA AnsweredDate ==
    ASSUME DateInv, serving.pc # "idle", UNCHANGED <<file, clock, copy>>,
           NEW pc \in {"prebuffer", "send", "done"}, NEW status, NEW promised, NEW whole,
           pc # "prebuffer" => status # 304,
           serving' = Answered(pc, status, promised, whole)
    PROVE  DateInv'
<1>1. serving'.pc = pc /\ serving'.status = status /\ serving'.mtime = serving.mtime
  BY DEF Answered
<1>2. Whole13'
  BY DEF Answered, Whole13
<1>3. QED
  BY <1>1, <1>2 DEF DateInv

\* The time of a file that is "not modified" is in the second of the copy.
LEMMA OpenDate == ASSUME DateInv, OpenFile PROVE DateInv'
<1>1. UNCHANGED <<file, clock, copy>> /\ serving.pc = "open" /\ Whole13
  BY DEF OpenFile, DateInv
<1>2. ASSUME NEW s \in {404, 403}, Answer(s)
      PROVE  DateInv'
  <2>1. serving' = Answered("done", s, serving.promised, serving.whole)
    BY <1>1, <1>2 DEF Answer, Whole13, Answered
  <2>2. QED
    BY <1>1, <2>1, AnsweredDate
<1>3. CASE file.state = "file"
  <2> DEFINE same == serving.since >= 0 /\ NotModified(file.mtime, serving.since)
  <2>1. PICK pc : pc = CASE same -> "done" [] serving.text -> "peek" [] OTHER -> "body"
    OBVIOUS
  <2>2. PICK status : status = IF same THEN 304 ELSE 0
    OBVIOUS
  <2>3. serving' = [serving EXCEPT !.length = file.length, !.mtime = file.mtime,
                                   !.version = file.version, !.pc = pc, !.status = status]
    BY <1>3, <2>1, <2>2 DEF OpenFile
  <2>4. /\ serving'.pc = pc /\ serving'.status = status /\ serving'.mtime = file.mtime
        /\ Whole13'
    BY <1>1, <2>3 DEF Whole13
  <2>5. pc # "open" /\ pc # "send" /\ (pc = "done" /\ status = 304 => same)
    BY <2>1, <2>2
  <2>6. same => SecondOf(file.mtime) = copy.stamp
    BY <1>1, SameSecond DEF DateInv
  <2>7. QED
    BY <1>1, <2>4, <2>5, <2>6 DEF DateInv
<1>4. QED
  BY <1>2, <1>3 DEF OpenFile

\* A body leads to no answer of 304.
LEMMA BodyDate ==
    ASSUME DateInv, CreateBody \/ PrebufferEnds
    PROVE  DateInv'
<1>1. UNCHANGED <<file, clock, copy>> /\ Whole13 /\ serving.pc # "idle"
  BY DEF CreateBody, PrebufferEnds, DateInv
<1>2. \/ Answer(416)
      \/ serving' = [serving EXCEPT !.pc = "done", !.status = 200, !.promised = serving.length]
      \/ \E p : serving' = [serving EXCEPT !.pc = "prebuffer", !.promised = p]
      \/ serving' = [serving EXCEPT !.pc = "send", !.status = Status200]
      \/ serving' = WholeBody
  BY DEF CreateBody, PrebufferEnds
<1>3. Status200 # 304
  BY DEF Status200
<1>4. CASE Answer(416)
  <2>1. PICK s : s = 416
    OBVIOUS
  <2>2. serving' = [serving EXCEPT !.pc = "done", !.status = s]
    BY <1>4, <2>1 DEF Answer
  <2>3. serving' = Answered("done", s, serving.promised, serving.whole)
    BY <1>1, <2>2 DEF Whole13, Answered
  <2>4. QED
    BY <1>1, <2>1, <2>3, AnsweredDate
<1>5. CASE serving' = [serving EXCEPT !.pc = "done", !.status = 200, !.promised = serving.length]
  <2>1. serving' = Answered("done", 200, serving.length, serving.whole)
    BY <1>1, <1>5 DEF Whole13, Answered
  <2>2. QED
    BY <1>1, <2>1, AnsweredDate
<1>6. ASSUME NEW p, serving' = [serving EXCEPT !.pc = "prebuffer", !.promised = p]
      PROVE  DateInv'
  <2>1. serving' = Answered("prebuffer", serving.status, p, serving.whole)
    BY <1>1, <1>6 DEF Whole13, Answered
  <2>2. QED
    BY <1>1, <2>1, AnsweredDate
<1>7. CASE serving' = [serving EXCEPT !.pc = "send", !.status = Status200]
  <2>1. serving' = Answered("send", Status200, serving.promised, serving.whole)
    BY <1>1, <1>7 DEF Whole13, Answered
  <2>2. QED
    BY <1>1, <1>3, <2>1, AnsweredDate
<1>8. CASE serving' = WholeBody
  <2>1. PICK p : p = Len(reader.read)
    OBVIOUS
  <2>2. serving' = [serving EXCEPT !.pc = "send", !.status = Status200, !.whole = TRUE,
                                   !.promised = p]
    BY <1>8, <2>1 DEF WholeBody
  <2>3. serving' = Answered("send", Status200, p, TRUE)
    BY <1>1, <2>2 DEF Whole13, Answered
  <2>4. QED
    BY <1>1, <1>3, <2>3, AnsweredDate
<1>9. QED
  BY <1>2, <1>4, <1>5, <1>6, <1>7, <1>8

\* The copy changes when a response is over, and that is none of 304.
LEMMA CopyDate == ASSUME DateInv, SendEnds PROVE DateInv'
<1>1. /\ UNCHANGED <<file, clock>> /\ Whole13 /\ serving.status # 304
      /\ serving.mtime \in Int /\ copy.stamp \in Int
      /\ serving' = [serving EXCEPT !.pc = "done"]
  BY DEF SendEnds, DateInv
<1>2. /\ serving'.pc = "done" /\ serving'.status # 304 /\ serving'.mtime = serving.mtime
      /\ Whole13'
  BY <1>1 DEF Whole13
<1>3. SecondOf(serving.mtime) \in Int
  <2>1. PICK t : t = serving.mtime
    OBVIOUS
  <2>2. t \in Int /\ TicksPerSecond \in Nat /\ TicksPerSecond > 0
    BY <1>1, <2>1, StaticAssumption
  <2>3. t \div TicksPerSecond \in Int
    BY <2>2
  <2>4. QED
    BY <2>1, <2>3 DEF SecondOf
<1>4. copy'.stamp \in Int
  BY <1>1, <1>3 DEF SendEnds
<1>5. QED
  BY <1>1, <1>2, <1>4 DEF DateInv

\* Every other step leaves the request, but for where it is, and the copy.
LEMMA OtherDate ==
    ASSUME DateInv, file'.mtime \in Int, clock' \in Int, copy' = copy,
           \/ serving' = serving
           \/ serving'.pc = "idle"
           \/ serving.pc = "peek" /\ serving' = [serving EXCEPT !.pc = "body"]
    PROVE  DateInv'
<1>1. CASE serving' = serving \/ serving'.pc = "idle"
  BY <1>1 DEF DateInv, Whole13
<1>2. CASE serving.pc = "peek" /\ serving' = [serving EXCEPT !.pc = "body"]
  <2>1. Whole13 /\ serving.mtime \in Int
    BY <1>2 DEF DateInv
  <2>2. serving'.pc = "body" /\ serving'.mtime = serving.mtime /\ Whole13'
    BY <1>2, <2>1 DEF Whole13
  <2>3. QED
    BY <2>2 DEF DateInv
<1>3. QED
  BY <1>1, <1>2

LEMMA DateNext == DateInv /\ [StaticNext]_staticVars => DateInv'
<1> SUFFICES ASSUME DateInv, [StaticNext]_staticVars PROVE DateInv'
  OBVIOUS
<1>0. file.mtime \in Int /\ clock \in Int /\ copy.stamp \in Int
  BY DEF DateInv
<1>1. ASSUME NEW state, NEW length, NEW mtime \in {clock - 1, clock},
             FileChanges(state, length, mtime)
      PROVE  DateInv'
  <2>1. file'.mtime = mtime /\ UNCHANGED <<clock, serving, copy>>
    BY <1>1 DEF FileChanges
  <2>2. mtime \in Int
    BY <1>0, <1>1
  <2>3. QED
    BY <1>0, <2>1, <2>2, OtherDate
<1>2. CASE Tick
  <2>1. clock' \in Int /\ UNCHANGED <<file, serving, copy>>
    BY <1>0, <1>2 DEF Tick
  <2>2. QED
    BY <1>0, <2>1, OtherDate
<1>3. ASSUME NEW method, NEW target, NEW range, NEW text,
             StaticRequest(method, target, range, -1, text)
      PROVE  DateInv'
  <2>1. PICK since : since = -1
    OBVIOUS
  <2>2. since \in Int /\ ~(since >= 0)
    BY <2>1
  <2>3. StaticRequest(method, target, range, since, text)
    BY <1>3, <2>1
  <2>4. QED
    BY <2>2, <2>3, RequestDate
<1>4. ASSUME StaticRequest("GET", "file", None, copy.stamp, FALSE)
      PROVE  DateInv'
  BY <1>0, <1>4, RequestDate
<1>5. CASE OpenFile
  BY <1>5, OpenDate
<1>6. CASE CreateBody \/ PrebufferEnds
  BY <1>6, BodyDate
<1>7. CASE SendEnds
  BY <1>7, CopyDate
<1>8. ASSUME NEW n, PeekText(n) \/ PeekedText \/ Prebuffer(n) \/ SendBody(n)
      PROVE  DateInv'
  <2>1. /\ UNCHANGED <<file, clock, copy>>
        /\ \/ serving' = serving
           \/ serving.pc = "peek" /\ serving' = [serving EXCEPT !.pc = "body"]
           \/ serving.pc = "peek" /\ serving' = [serving EXCEPT !.pc = @]
    BY <1>8 DEF PeekText, PeekedText, Prebuffer, SendBody
  <2>2. serving.pc = "peek" /\ serving' = [serving EXCEPT !.pc = @] => serving' = serving
    <3>1. serving.pc = "peek" => Whole13
      BY DEF DateInv
    <3>2. QED
      BY <3>1 DEF Whole13
  <2>3. QED
    BY <1>0, <2>1, <2>2, OtherDate
<1>9. CASE NextRequest
  BY <1>0, <1>9, OtherDate DEF NextRequest
<1>10. CASE UNCHANGED staticVars
  BY <1>0, <1>10, OtherDate DEF staticVars
<1>11. QED
  BY <1>1, <1>2, <1>3, <1>4, <1>5, <1>6, <1>7, <1>8, <1>9, <1>10 DEF StaticNext

\* The date a client sends stays that of its copy, and no body is sent under 304.
THEOREM DatesCorrect == StaticSpec => []DateInv
<1>1. StaticInit => DateInv
  BY DateInit
<1>2. DateInv /\ [StaticNext]_staticVars => DateInv'
  BY DateNext
<1>3. QED
  BY <1>1, <1>2, PTL DEF StaticSpec

\* A client is told "not modified" of another version than it has only if both
\* were made in the same second, whatever was put in the place of the file.
THEOREM NotModifiedCorrect == StaticSpec => []NotModifiedIsCurrent
<1>1. DateInv => NotModifiedIsCurrent
  BY DEF DateInv, NotModifiedIsCurrent
<1>2. QED
  BY <1>1, DatesCorrect, PTL

-----------------------------------------------------------------------------
Ranged == serving.range # None
Start == IF Ranged THEN serving.range[1] ELSE 0
Rest == Len(reader.peeked) - reader.idx
Sending == serving.pc \in {"prebuffer", "send"}
Reading == serving.pc \in {"peek", "body", "prebuffer", "send"}

\* What is peeked is the start of the file.
ReaderInv ==
    /\ reader = [pos |-> reader.pos, peeked |-> reader.peeked, idx |-> reader.idx,
                 left |-> reader.left, read |-> reader.read]
    /\ reader.pos \in Nat /\ reader.idx \in Nat /\ reader.left \in 0 .. MaxU64
    /\ Len(reader.peeked) \in 0 .. PeekLen /\ Len(reader.read) \in Nat
    /\ reader.peeked = Offsets(0, Len(reader.peeked))
    /\ reader.idx <= Len(reader.peeked)

\* Before the body is read, and from then on.
Before ==
    /\ reader.read = <<>> /\ reader.idx = 0
    /\ reader.pos = Len(reader.peeked) /\ reader.left = MaxU64

During ==
    /\ reader.read = Offsets(Start, Len(reader.read))
    /\ reader.pos = Start + Len(reader.read) + Rest
    /\ Rest > 0 => reader.idx = Len(reader.read) /\ Start = 0
    /\ IF Ranged THEN reader.left + Len(reader.read) = serving.range[2] - serving.range[1]
                 ELSE reader.left = MaxU64

\* The range that is served.
Inside ==
    /\ serving.asked[1] <= serving.asked[2] /\ serving.asked[2] < serving.length
    /\ serving.range = <<serving.asked[1], serving.asked[2] + 1>>

Promise == IF Ranged THEN serving.range[2] - serving.range[1] ELSE serving.length

RequestInv ==
    /\ serving.pc \in {"idle", "open", "peek", "body", "prebuffer", "send", "done", "panic"}
    /\ serving.pc # "idle" =>
          /\ Whole13
          /\ serving.asked \in Ranges \cup {None}
          /\ serving.range = IF serving.method = "GET" /\ serving.asked # None
                               THEN ParseRange(serving.asked) ELSE None
          /\ serving.length \in 0 .. MaxLength
          /\ serving.whole \in BOOLEAN
          /\ serving.pc \notin {"send", "done"} => ~serving.whole
          /\ serving.pc \in {"open", "peek", "body"} => serving.method \in {"GET", "HEAD"}

FileInv ==
    /\ file.length \in 0 .. MaxLength /\ lengths \subseteq 0 .. MaxLength
    /\ Reading => file.length \in lengths

PlaceInv ==
    /\ ~Sending /\ serving.pc # "done" => Before
    /\ serving.pc = "open" => reader.pos = 0
    /\ Sending => During /\ serving.method = "GET" /\ (Ranged => Inside)
    /\ Reading /\ (serving.pc \in {"peek", "body"} \/ ~Ranged) /\ (\A n \in lengths : n = serving.length) =>
          reader.pos <= serving.length
    /\ serving.pc = "done" => reader.read = <<>> \/ (During /\ (Ranged => Inside))

AnswerInv ==
    /\ Sending => serving.promised = IF serving.whole THEN Len(reader.read) ELSE Promise
    /\ serving.pc = "send" => serving.status = Status200
    /\ PromiseKept /\ RangeServedIfInside

DeliverInv == RequestInv /\ ReaderInv /\ FileInv /\ PlaceInv /\ AnswerInv

-----------------------------------------------------------------------------
LEMMA OffsetsAre ==
    ASSUME NEW from \in Nat, NEW n \in Nat
    PROVE  Offsets(from, n) \in Seq(Nat) /\ Len(Offsets(from, n)) = n
  BY DEF Offsets

Joins(from, n, next, m, all) == Offsets(from, n) \o Offsets(next, m) = Offsets(from, all)

LEMMA OffsetsJoin ==
    ASSUME NEW from \in Nat, NEW n \in Nat, NEW m \in Nat,
           NEW next \in Nat, next = from + n, NEW all \in Nat, all = n + m
    PROVE  Joins(from, n, next, m, all)
  BY DEF Offsets, Joins

IsPart(s, i, m) == SubSeq(s, i + 1, i + m) = Offsets(i, m)

LEMMA OffsetsPart ==
    ASSUME NEW n \in Nat, NEW i \in Nat, NEW m \in Nat, i + m <= n,
           NEW s, s = Offsets(0, n)
    PROVE  IsPart(s, i, m)
<1>1. s \in Seq(Nat) /\ Len(s) = n
  BY OffsetsAre
<1>2. SubSeq(s, i + 1, i + m) = [k \in 1 .. m |-> i + k - 1]
  BY <1>1 DEF Offsets
<1>3. QED
  BY <1>2 DEF Offsets, IsPart

LEMMA OffsetsNone == ASSUME NEW from \in Nat PROVE Offsets(from, 0) = <<>>
  BY DEF Offsets

\* The range of a request is in Nat.
LEMMA StartNat ==
    ASSUME RequestInv, serving.pc # "idle"
    PROVE  Start \in Nat /\ (Ranged => serving.range[2] \in Nat)
<1>1. ASSUME Ranged PROVE serving.range[1] \in Nat /\ serving.range[2] \in Nat
  <2>1. serving.asked \in Ranges /\ serving.range = ParseRange(serving.asked)
    BY <1>1 DEF Ranged, RequestInv
  <2>2. PICK a, b \in Nat : a = serving.asked[1] /\ b = serving.asked[2]
    BY <2>1, StaticAssumption
  <2>3. MaxU64 \in Nat
    BY StaticAssumption
  <2>4. (b + 1) % (MaxU64 + 1) \in Nat
    BY <2>2, <2>3
  <2>5. QED
    BY <2>1, <2>2, <2>4 DEF ParseRange
<1>2. QED
  BY <1>1 DEF Start

\* How much one read of the body returns: of what was peeked, or of the file.
LEMMA BodySizesAre ==
    ASSUME ReaderInv, FileInv, NEW most \in Nat, NEW n \in BodySizes(most)
    PROVE  /\ n \in Nat /\ n <= reader.left /\ n <= most
           /\ Rest > 0 => n <= Rest
           /\ Rest = 0 /\ n > 0 => reader.pos + n <= file.length
           /\ n = 0 => Takes(most) = 0 \/ (Rest = 0 /\ file.length <= reader.pos)
<1>0. MaxU64 \in Nat /\ MaxLength \in Nat /\ PeekLen \in Nat
  BY StaticAssumption
<1>1. PICK left \in Nat : left = reader.left
  BY <1>0 DEF ReaderInv
<1>2. PICK max \in Nat : max = Takes(most) /\ max <= left /\ max <= most
  BY <1>1 DEF Takes, Smaller
<1>3. PICK rest \in Nat : rest = Rest
  BY <1>0 DEF ReaderInv, Rest
<1>4. PICK pos, length \in Nat : pos = reader.pos /\ length = file.length
  BY <1>0 DEF ReaderInv, FileInv
<1>5. n \in IF max = 0 THEN {0} ELSE IF rest > 0 THEN {Smaller(rest, max)} ELSE ReadSizes(max)
  BY <1>2, <1>3 DEF BodySizes, Rest
<1>6. CASE max = 0
  BY <1>1, <1>2, <1>3, <1>4, <1>5, <1>6
<1>7. CASE max # 0 /\ rest > 0
  <2>1. n = Smaller(rest, max)
    BY <1>5, <1>7
  <2>2. QED
    BY <1>1, <1>2, <1>3, <1>7, <2>1 DEF Smaller
<1>8. CASE max # 0 /\ rest = 0
  <2>1. n \in IF length <= pos THEN {0} ELSE 1 .. Smaller(length - pos, max)
    BY <1>4, <1>5, <1>8 DEF ReadSizes
  <2>2. ASSUME length <= pos PROVE n = 0
    BY <2>1, <2>2
  <2>3. ASSUME pos < length PROVE n \in Nat /\ n # 0 /\ n <= max /\ pos + n <= length
    BY <1>2, <1>4, <2>1, <2>3 DEF Smaller
  <2>4. n \in Nat /\ n <= max /\ (n > 0 => pos + n <= length) /\ (n = 0 => length <= pos)
    BY <1>2, <1>4, <2>2, <2>3
  <2>5. QED
    BY <1>1, <1>2, <1>3, <1>4, <1>8, <2>4
<1>9. QED
  BY <1>3, <1>6, <1>7, <1>8

\* A read continues where the last one ended.
LEMMA BodyRead ==
    ASSUME RequestInv, ReaderInv, FileInv, During, Ranged => Inside, serving.pc # "idle",
           NEW most \in Nat, NEW n \in BodySizes(most), n # 0, ReadBody(n),
           UNCHANGED <<file, serving>>
    PROVE  /\ ReaderInv' /\ During'
           /\ reader'.pos = reader.pos \/ reader'.pos <= file.length
<1>1. /\ n \in Nat /\ n > 0 /\ n <= reader.left
      /\ Rest > 0 => n <= Rest
      /\ Rest = 0 => reader.pos + n <= file.length
  BY BodySizesAre
<1>2. PICK start \in Nat : start = Start
  BY StartNat
<1>3. PICK pos, idx \in Nat : pos = reader.pos /\ idx = reader.idx
  BY DEF ReaderInv
<1>4. PICK left \in Nat : left = reader.left /\ left <= MaxU64
  BY StaticAssumption DEF ReaderInv
<1>5. PICK size, got \in Nat : size = Len(reader.peeked) /\ got = Len(reader.read)
  <2>1. PeekLen \in Nat
    BY StaticAssumption
  <2>2. QED
    BY <2>1 DEF ReaderInv
<1>6. idx <= size /\ size <= PeekLen /\ Rest = size - idx
  BY <1>3, <1>5, StaticAssumption DEF ReaderInv, Rest
<1>7. UNCHANGED <<Start, Ranged>> /\ serving' = serving
  BY DEF Start, Ranged
<1>8. PICK left1 \in Nat : left1 = IF left = MaxU64 THEN left ELSE left - n
  BY <1>1, <1>4
<1>9. left1 \in 0 .. MaxU64
  BY <1>1, <1>4, <1>8, StaticAssumption
<1>10. IF Ranged THEN left1 + got + n = serving.range[2] - serving.range[1] ELSE left1 = MaxU64
  <2>1. CASE ~Ranged
    BY <1>4, <1>8, <2>1 DEF During
  <2>2. CASE Ranged
    <3>1. serving.asked \in Ranges
      BY <2>2 DEF Ranged, RequestInv
    <3>2. PICK a, b \in Nat : a = serving.asked[1] /\ b = serving.asked[2]
      BY <3>1, StaticAssumption
    <3>3. PICK length \in Nat : length = serving.length /\ length < MaxU64
      BY StaticAssumption DEF RequestInv
    <3>4. serving.range[1] = a /\ serving.range[2] = b + 1 /\ b < length /\ a <= b
      BY <2>2, <3>2, <3>3 DEF Inside
    <3>5. left + got = (b + 1) - a
      BY <1>4, <1>5, <2>2, <3>4 DEF During
    <3>6. left # MaxU64
      BY <3>2, <3>3, <3>4, <3>5, StaticAssumption
    <3>7. left1 = left - n
      BY <1>8, <3>6
    <3>8. QED
      BY <1>1, <2>2, <3>2, <3>4, <3>5, <3>7
  <2>3. QED
    BY <2>1, <2>2
<1>11. CASE idx < size
  <2>1. start = 0 /\ idx = got /\ pos = got + (size - idx) /\ n <= size - idx
    BY <1>1, <1>2, <1>3, <1>5, <1>6, <1>11 DEF During
  <2>2. PICK all \in BOOLEAN : all = (idx + n = size)
    OBVIOUS
  <2>3. PICK peeked : peeked = IF all THEN <<>> ELSE reader.peeked
    OBVIOUS
  <2>4. PICK idx1 \in Nat : idx1 = IF all THEN 0 ELSE idx + n
    BY <1>1
  <2>5. PICK read : read = reader.read \o SubSeq(reader.peeked, idx + 1, idx + n)
    OBVIOUS
  <2>6. reader' = [reader EXCEPT !.read = read, !.peeked = peeked, !.idx = idx1,
                                 !.pos = pos, !.left = left1]
    <3>1. size - idx > 0
      BY <1>3, <1>5, <1>11
    <3>2. all = (size - idx > 0 /\ idx + n = size)
      BY <2>2, <3>1
    <3>3. reader' = [reader EXCEPT !.read = read,
                        !.peeked = IF all THEN <<>> ELSE @,
                        !.idx = IF all THEN 0 ELSE @ + n,
                        !.pos = @,
                        !.left = IF reader.left = MaxU64 THEN @ ELSE @ - n]
      BY <1>3, <1>5, <2>5, <3>1, <3>2 DEF ReadBody
    <3>4. QED
      BY <1>3, <1>4, <1>8, <2>3, <2>4, <3>3
  <2>7. reader' = [pos |-> pos, peeked |-> peeked, idx |-> idx1, left |-> left1, read |-> read]
    BY <2>6 DEF ReaderInv
  <2>8. read = Offsets(0, got + n)
    <3>1. reader.peeked = Offsets(0, size) /\ reader.read = Offsets(0, got)
      BY <1>2, <1>5, <2>1 DEF ReaderInv, During
    <3>2. idx + n <= size
      BY <1>1, <1>3, <1>5, <2>1
    <3>3. SubSeq(reader.peeked, idx + 1, idx + n) = Offsets(idx, n)
      <4>1. PICK peeked0 : peeked0 = reader.peeked
        OBVIOUS
      <4>2. SubSeq(peeked0, idx + 1, idx + n) = Offsets(idx, n)
        <5>1. IsPart(peeked0, idx, n)
          BY <1>1, <3>1, <3>2, <4>1, OffsetsPart
        <5>2. QED
          BY <5>1 DEF IsPart
      <4>3. QED
        BY <4>1, <4>2
    <3>4. PICK zero, all1 \in Nat : zero = 0 /\ all1 = got + n
      BY <1>1
    <3>5. Offsets(0, got) \o Offsets(got, n) = Offsets(0, got + n)
      <4>1. got = zero + got
        BY <3>4
      <4>2. Offsets(zero, got) \o Offsets(got, n) = Offsets(zero, all1)
        <5>1. Joins(zero, got, got, n, all1)
          BY <1>1, <3>4, <4>1, OffsetsJoin
        <5>2. QED
          BY <5>1 DEF Joins
      <4>3. QED
        BY <3>4, <4>2
    <3>6. QED
      BY <2>1, <2>5, <3>1, <3>3, <3>4, <3>5
  <2>9. Len(read) = got + n
    BY <1>1, <2>8, OffsetsAre
  <2>10. Len(peeked) = IF all THEN 0 ELSE size
    BY <1>5, <2>3
  <2>11. peeked = Offsets(0, Len(peeked))
    <3>1. CASE all
      BY <2>3, <2>10, <3>1, OffsetsNone
    <3>2. CASE ~all
      BY <1>5, <2>3, <2>10, <3>2 DEF ReaderInv
    <3>3. QED
      BY <3>1, <3>2
  <2>12. PICK size1 \in Nat : size1 = Len(peeked)
    BY <2>10
  <2>13. ReaderInv'
    <3>1. size1 \in 0 .. PeekLen /\ idx1 <= size1
      BY <1>1, <1>6, <2>1, <2>2, <2>4, <2>10, <2>12, StaticAssumption
    <3>2. QED
      BY <1>1, <1>9, <2>7, <2>9, <2>11, <2>12, <3>1 DEF ReaderInv
  <2>14. pos = got + n + (size1 - idx1) /\ (size1 - idx1 > 0 => idx1 = got + n)
    <3>1. CASE all
      <4>1. size1 = 0 /\ idx1 = 0 /\ got + n = size
        BY <2>1, <2>2, <2>4, <2>10, <2>12, <3>1
      <4>2. pos = size
        BY <1>5, <2>1
      <4>3. QED
        BY <1>1, <4>1, <4>2
    <3>2. CASE ~all
      <4>1. size1 = size /\ idx1 = got + n
        BY <2>1, <2>4, <2>10, <2>12, <3>2
      <4>2. pos = size
        BY <1>5, <2>1
      <4>3. size - idx1 \in Nat /\ idx1 + (size - idx1) = size
        BY <1>1, <1>5, <2>1, <2>4, <4>1
      <4>4. QED
        BY <4>1, <4>2, <4>3
    <3>3. QED
      BY <3>1, <3>2
  <2>15. Rest' = size1 - idx1
    BY <2>7, <2>12 DEF Rest
  <2>16. During'
    <3>1. Start' = 0 /\ 0 + (got + n) = got + n
      BY <1>1, <1>2, <1>7, <2>1
    <3>2. reader'.pos = Start' + Len(reader'.read) + Rest'
      BY <2>7, <2>9, <2>14, <2>15, <3>1
    <3>3. reader'.read = Offsets(Start', Len(reader'.read))
      BY <2>7, <2>8, <2>9, <3>1
    <3>4. Rest' > 0 => reader'.idx = Len(reader'.read)
      BY <2>7, <2>9, <2>14, <2>15
    <3>5. IF Ranged' THEN reader'.left + Len(reader'.read) = serving'.range[2] - serving'.range[1]
                     ELSE reader'.left = MaxU64
      BY <1>1, <1>7, <1>9, <1>10, <2>7, <2>9
    <3>6. QED
      BY <3>1, <3>2, <3>3, <3>4, <3>5 DEF During
  <2>17. QED
    BY <1>3, <2>7, <2>13, <2>16
<1>12. CASE idx = size
  <2>1. pos = start + got
    BY <1>2, <1>3, <1>5, <1>6, <1>12 DEF During
  <2>2. PICK pos1 \in Nat : pos1 = pos + n
    BY <1>1
  <2>3. PICK read : read = reader.read \o Offsets(pos, n)
    OBVIOUS
  <2>4. reader' = [reader EXCEPT !.read = read, !.peeked = @, !.idx = idx,
                                 !.pos = pos1, !.left = left1]
    BY <1>3, <1>4, <1>5, <1>8, <1>12, <2>2, <2>3 DEF ReadBody
  <2>5. reader' = [pos |-> pos1, peeked |-> reader.peeked, idx |-> idx, left |-> left1,
                   read |-> read]
    BY <2>4 DEF ReaderInv
  <2>6. read = Offsets(start, got + n)
    <3>1. reader.read = Offsets(start, got)
      BY <1>2, <1>5 DEF During
    <3>2. Offsets(start, got) \o Offsets(pos, n) = Offsets(start, got + n)
      <4>1. PICK all1 \in Nat : all1 = got + n
        BY <1>1
      <4>2. Offsets(start, got) \o Offsets(pos, n) = Offsets(start, all1)
        <5>1. Joins(start, got, pos, n, all1)
          BY <1>1, <2>1, <4>1, OffsetsJoin
        <5>2. QED
          BY <5>1 DEF Joins
      <4>3. QED
        BY <4>1, <4>2
    <3>3. QED
      BY <2>1, <2>3, <3>1, <3>2
  <2>7. Len(read) = got + n
    BY <1>1, <2>6, OffsetsAre
  <2>8. ReaderInv'
    BY <1>1, <1>3, <1>9, <2>2, <2>5, <2>7 DEF ReaderInv
  <2>9. Rest' = 0
    BY <1>5, <1>12, <2>5 DEF Rest
  <2>10. pos1 = start + (got + n) + 0
    BY <1>1, <2>1, <2>2
  <2>11. During'
    <3>1. reader'.pos = Start' + Len(reader'.read) + Rest'
      BY <1>2, <1>7, <2>5, <2>7, <2>9, <2>10
    <3>2. reader'.read = Offsets(Start', Len(reader'.read))
      BY <1>2, <1>7, <2>5, <2>6, <2>7
    <3>3. IF Ranged' THEN reader'.left + Len(reader'.read) = serving'.range[2] - serving'.range[1]
                     ELSE reader'.left = MaxU64
      BY <1>1, <1>7, <1>9, <1>10, <2>5, <2>7
    <3>4. ~(Rest' > 0)
      BY <2>9
    <3>5. QED
      BY <3>1, <3>2, <3>3, <3>4 DEF During
  <2>12. reader'.pos <= file.length
    BY <1>1, <1>3, <1>6, <1>12, <2>2, <2>5
  <2>13. QED
    BY <2>8, <2>11, <2>12
<1>13. QED
  BY <1>6, <1>11, <1>12

-----------------------------------------------------------------------------
\* Nothing but the file changes, which may be kept longer than it was.
LEMMA OthersDeliver ==
    ASSUME DeliverInv, UNCHANGED <<serving, reader>>,
           file'.length \in 0 .. MaxLength, lengths \subseteq lengths',
           lengths' \subseteq 0 .. MaxLength, Reading => file'.length \in lengths'
    PROVE  DeliverInv'
<1>1. UNCHANGED <<Ranged, Start, Rest, Sending, Reading, Promise, Inside, Before, During, Status200>>
  BY DEF Ranged, Start, Rest, Sending, Reading, Promise, Inside, Before, During, Status200
<1>2. RequestInv' /\ ReaderInv'
  BY DEF DeliverInv, RequestInv, ReaderInv, Whole13
<1>3. FileInv'
  BY <1>1 DEF FileInv
<1>4. PlaceInv'
  BY <1>1 DEF DeliverInv, PlaceInv
<1>5. AnswerInv'
  BY <1>1 DEF DeliverInv, AnswerInv, PromiseKept, RangeServedIfInside
<1>6. QED
  BY <1>2, <1>3, <1>4, <1>5 DEF DeliverInv

\* Nothing is read, and what is answered is no part of the file.
LEMMA UnreadDelivers ==
    ASSUME RequestInv', FileInv', ReaderInv', Before',
           serving'.pc \notin {"prebuffer", "send"},
           serving'.pc = "open" => reader'.pos = 0,
           serving'.pc \in {"peek", "body"} /\ (\A n \in lengths' : n = serving'.length) =>
              reader'.pos <= serving'.length,
           serving'.pc = "done" => serving'.status \notin {200, 206, 416}
    PROVE  DeliverInv'
<1>1. PlaceInv'
  BY DEF PlaceInv, Sending, Reading, Before
<1>2. AnswerInv'
  BY DEF AnswerInv, Sending, PromiseKept, RangeServedIfInside
<1>3. QED
  BY <1>1, <1>2 DEF DeliverInv

LEMMA ClosedReader == ASSUME reader' = Closed PROVE ReaderInv' /\ Before' /\ reader'.pos = 0
<1>1. /\ reader'.pos = 0 /\ reader'.idx = 0 /\ reader'.left = MaxU64
      /\ reader'.peeked = <<>> /\ reader'.read = <<>>
      /\ reader' = [pos |-> 0, peeked |-> <<>>, idx |-> 0, left |-> MaxU64, read |-> <<>>]
  BY DEF Closed
<1>2. Offsets(0, 0) = <<>> /\ Len(<<>>) = 0
  BY OffsetsNone
<1>3. MaxU64 \in 0 .. MaxU64 /\ 0 \in 0 .. PeekLen
  BY StaticAssumption
<1>4. QED
  BY <1>1, <1>2, <1>3 DEF ReaderInv, Before

LEMMA DeliverInit == StaticInit => DeliverInv
<1> SUFFICES ASSUME StaticInit PROVE DeliverInv
  OBVIOUS
<1>1. /\ reader = [pos |-> 0, peeked |-> <<>>, idx |-> 0, left |-> MaxU64, read |-> <<>>]
      /\ serving.pc = "idle" /\ file.length \in 0 .. MaxLength /\ lengths = {}
  BY DEF StaticInit, Closed, Idle
<1>2. Offsets(0, 0) = <<>> /\ Len(<<>>) = 0
  BY OffsetsNone
<1>3. MaxU64 \in 0 .. MaxU64 /\ 0 \in 0 .. PeekLen
  BY StaticAssumption
<1>4. ReaderInv /\ Before
  BY <1>1, <1>2, <1>3 DEF ReaderInv, Before
<1>5. RequestInv /\ FileInv
  BY <1>1 DEF RequestInv, FileInv, Reading
<1>6. PlaceInv /\ AnswerInv
  BY <1>1, <1>4 DEF PlaceInv, AnswerInv, Sending, Reading, PromiseKept, RangeServedIfInside
<1>7. QED
  BY <1>4, <1>5, <1>6 DEF DeliverInv

\* The next request is taken, or the one before is forgotten.
LEMMA RequestDelivers ==
    ASSUME DeliverInv, NEW method, NEW target, NEW range \in Ranges \cup {None}, NEW since, NEW text,
           StaticRequest(method, target, range, since, text)
    PROVE  DeliverInv'
<1>1. reader' = Closed /\ lengths' = {} /\ file' = file
  BY DEF StaticRequest
<1>2. PICK r : r = RangeOf(method, range) /\ Opens(Taken(method, range, r, since, text))
  BY RequestTaken
<1>3. \E pc, status :
         /\ pc \in {"open", "done", "panic"}
         /\ serving' = [pc |-> pc, status |-> status, method |-> method, asked |-> range,
                        range |-> r, since |-> since, text |-> text,
                        served |-> serving.served + 1, length |-> 0, mtime |-> 0,
                        version |-> 0, promised |-> 0, whole |-> FALSE]
         /\ status \notin {200, 206, 416} /\ (pc = "open" => method \in {"GET", "HEAD"})
  <2> DEFINE got(pc, status) == [pc |-> pc, status |-> status, method |-> method,
                        asked |-> range, range |-> r, since |-> since, text |-> text,
                        served |-> serving.served + 1, length |-> 0, mtime |-> 0,
                        version |-> 0, promised |-> 0, whole |-> FALSE]
  <2>1. PICK taken : taken = Taken(method, range, r, since, text) /\ Opens(taken)
    BY <1>2
  <2>2. ASSUME serving' = taken PROVE serving' = got("open", 0)
    BY <2>1, <2>2 DEF Taken
  <2>3. ASSUME serving' = [taken EXCEPT !.pc = "panic"] PROVE serving' = got("panic", 0)
    <3>1. PICK p, z : p = "panic" /\ z = 0
      OBVIOUS
    <3>2. taken = got("open", z)
      BY <2>1, <3>1 DEF Taken
    <3>3. serving' = got(p, z)
      BY <2>3, <3>1, <3>2
    <3>4. QED
      BY <3>1, <3>3
  <2>4. ASSUME NEW s, serving' = [taken EXCEPT !.pc = "done", !.status = s]
        PROVE  serving' = got("done", s)
    BY <2>1, <2>4 DEF Taken
  <2> HIDE DEF got
  <2>5. \E pc \in {"open", "done", "panic"}, status \in {0, 500, 405, 404, 400} :
           serving' = got(pc, status) /\ (pc = "open" => method \in {"GET", "HEAD"})
    <3>1. PICK z : z = 0
      OBVIOUS
    <3>2. CASE serving' = taken /\ taken.method \in {"GET", "HEAD"}
      <4>1. taken.method = method
        BY <2>1 DEF Taken
      <4>2. QED
        BY <2>2, <3>1, <3>2, <4>1
    <3>3. CASE serving' = [taken EXCEPT !.pc = "panic"]
      BY <2>3, <3>1, <3>3
    <3>4. CASE \E s \in {500, 405, 404, 400} : serving' = [taken EXCEPT !.pc = "done", !.status = s]
      <4>1. PICK s \in {500, 405, 404, 400} : serving' = [taken EXCEPT !.pc = "done", !.status = s]
        BY <3>4
      <4>2. serving' = got("done", s)
        BY <2>4, <4>1
      <4>3. s \in {0, 500, 405, 404, 400}
        OBVIOUS
      <4>4. QED
        BY <4>2, <4>3
    <3>5. QED
      BY <2>1, <3>2, <3>3, <3>4 DEF Opens
  <2>6. ASSUME NEW s \in {0, 500, 405, 404, 400} PROVE s \notin {200, 206, 416}
    OBVIOUS
  <2>7. \E pc \in {"open", "done", "panic"}, status \in {0, 500, 405, 404, 400} :
           /\ serving' = got(pc, status) /\ (pc = "open" => method \in {"GET", "HEAD"})
           /\ status \notin {200, 206, 416}
    BY <2>5, <2>6
  <2>8. \E pc, status :
           /\ pc \in {"open", "done", "panic"}
           /\ serving' = got(pc, status)
           /\ status \notin {200, 206, 416} /\ (pc = "open" => method \in {"GET", "HEAD"})
    BY <2>7
  <2>9. QED
    BY <2>8 DEF got
<1>4. PICK pc, status :
         /\ pc \in {"open", "done", "panic"}
         /\ serving' = [pc |-> pc, status |-> status, method |-> method, asked |-> range,
                        range |-> r, since |-> since, text |-> text,
                        served |-> serving.served + 1, length |-> 0, mtime |-> 0,
                        version |-> 0, promised |-> 0, whole |-> FALSE]
         /\ status \notin {200, 206, 416} /\ (pc = "open" => method \in {"GET", "HEAD"})
  BY <1>3
<1>5. /\ serving'.pc = pc /\ serving'.status = status /\ serving'.length = 0
      /\ serving'.asked = range /\ serving'.range = r /\ serving'.method = method
      /\ serving'.whole \in BOOLEAN /\ ~serving'.whole /\ Whole13'
      /\ pc \in {"open", "done", "panic"} /\ (pc = "open" => method \in {"GET", "HEAD"})
  BY <1>4 DEF Whole13
<1>6. 0 \in 0 .. MaxLength
  BY StaticAssumption
<1>7. RequestInv'
  BY <1>2, <1>5, <1>6 DEF RequestInv, RangeOf
<1>8. FileInv'
  BY <1>1, <1>5 DEF DeliverInv, FileInv, Reading
<1>9. ReaderInv' /\ Before' /\ reader'.pos = 0
  BY <1>1, ClosedReader
<1>10. QED
  BY <1>4, <1>5, <1>7, <1>8, <1>9, UnreadDelivers

LEMMA NextDelivers == ASSUME DeliverInv, NextRequest PROVE DeliverInv'
<1>1. reader' = Closed /\ lengths' = {} /\ file' = file /\ serving'.pc = "idle"
  BY DEF NextRequest
<1>2. ReaderInv' /\ Before'
  BY <1>1, ClosedReader
<1>3. RequestInv' /\ FileInv'
  BY <1>1 DEF DeliverInv, RequestInv, FileInv, Reading
<1>4. PlaceInv' /\ AnswerInv'
  BY <1>1, <1>2 DEF PlaceInv, AnswerInv, Sending, Reading, PromiseKept, RangeServedIfInside
<1>5. QED
  BY <1>2, <1>3, <1>4 DEF DeliverInv

\* What an answer leaves of the request.
LEMMA AnsweredRequest ==
    ASSUME RequestInv, serving.pc # "idle",
           NEW pc \in {"peek", "body", "prebuffer", "send", "done"}, NEW status, NEW promised,
           NEW whole \in BOOLEAN, pc \notin {"send", "done"} => ~whole,
           pc \in {"peek", "body"} => serving.method \in {"GET", "HEAD"},
           serving' = Answered(pc, status, promised, whole)
    PROVE  /\ RequestInv'
           /\ serving'.pc = pc /\ serving'.status = status /\ serving'.promised = promised
           /\ serving'.whole = whole /\ serving'.method = serving.method
           /\ serving'.asked = serving.asked /\ serving'.range = serving.range
           /\ serving'.length = serving.length
           /\ UNCHANGED <<Ranged, Start, Promise, Inside>>
<1>1. /\ serving'.pc = pc /\ serving'.status = status /\ serving'.promised = promised
      /\ serving'.whole = whole /\ serving'.method = serving.method
      /\ serving'.asked = serving.asked /\ serving'.range = serving.range
      /\ serving'.length = serving.length /\ Whole13'
  BY DEF Answered, Whole13
<1>2. RequestInv'
  BY <1>1 DEF RequestInv
<1>3. UNCHANGED <<Ranged, Start, Promise, Inside>>
  BY <1>1 DEF Ranged, Start, Promise, Inside
<1>4. QED
  BY <1>1, <1>2, <1>3

LEMMA OpenDelivers == ASSUME DeliverInv, OpenFile PROVE DeliverInv'
<1>1. /\ serving.pc = "open" /\ Whole13 /\ RequestInv /\ ReaderInv /\ Before
      /\ file.length \in 0 .. MaxLength /\ ~serving.whole /\ reader.pos = 0
      /\ lengths' = {file.length} /\ UNCHANGED <<file, reader>>
  BY DEF OpenFile, DeliverInv, RequestInv, FileInv, PlaceInv, Sending
<1>2. ReaderInv' /\ Before' /\ FileInv' /\ reader'.pos = 0
  BY <1>1 DEF ReaderInv, Before, FileInv
<1>3. ASSUME NEW s \in {404, 403}, Answer(s)
      PROVE  DeliverInv'
  <2>1. serving' = Answered("done", s, serving.promised, serving.whole)
    <3>1. Whole13
      BY <1>1
    <3>2. QED
      BY <1>3, <3>1 DEF Answer, Whole13, Answered
  <2>2. s \notin {200, 206, 416}
    OBVIOUS
  <2>3. serving.whole \in BOOLEAN
    BY <1>1 DEF RequestInv
  <2>4. RequestInv' /\ serving'.pc = "done" /\ serving'.status = s
    BY <1>1, <2>1, <2>3, AnsweredRequest
  <2>5. QED
    BY <1>2, <2>2, <2>4, UnreadDelivers
<1>4. CASE file.state = "file"
  <2> DEFINE same == serving.since >= 0 /\ NotModified(file.mtime, serving.since)
  <2>1. PICK pc : pc = CASE same -> "done" [] serving.text -> "peek" [] OTHER -> "body"
    OBVIOUS
  <2>2. PICK status : status = IF same THEN 304 ELSE 0
    OBVIOUS
  <2>3. serving' = [serving EXCEPT !.length = file.length, !.mtime = file.mtime,
                                   !.version = file.version, !.pc = pc, !.status = status]
    BY <1>4, <2>1, <2>2 DEF OpenFile
  <2>4. pc \in {"done", "peek", "body"} /\ status \notin {200, 206, 416}
    BY <2>1, <2>2
  <2>5. /\ serving'.pc = pc /\ serving'.length = file.length /\ serving'.asked = serving.asked
        /\ serving'.range = serving.range /\ serving'.method = serving.method
        /\ serving'.whole = serving.whole /\ serving'.status = status /\ Whole13'
    BY <1>1, <2>3 DEF Whole13
  <2>6. RequestInv'
    BY <1>1, <2>4, <2>5 DEF RequestInv
  <2>7. 0 <= file.length
    BY <1>1, StaticAssumption
  <2>8. QED
    BY <1>2, <2>4, <2>5, <2>6, <2>7, UnreadDelivers
<1>5. QED
  BY <1>3, <1>4 DEF OpenFile

\* Peeking goes on, or ends: the reader is still before the body.
LEMMA PeekDelivers ==
    ASSUME DeliverInv, NEW n, PeekText(n) \/ PeekedText
    PROVE  DeliverInv'
<1>1. /\ serving.pc = "peek" /\ Whole13 /\ RequestInv /\ ReaderInv /\ Before /\ FileInv
      /\ UNCHANGED <<file, lengths>>
  BY DEF PeekText, PeekedText, DeliverInv, RequestInv, PlaceInv, Sending
<1>2. PICK pc \in {"peek", "body"} : serving' = [serving EXCEPT !.pc = pc]
  BY <1>1 DEF PeekText, PeekedText
<1>3. /\ serving'.pc = pc /\ serving'.length = serving.length /\ serving'.asked = serving.asked
      /\ serving'.range = serving.range /\ serving'.method = serving.method
      /\ serving'.whole = serving.whole /\ Whole13'
  BY <1>1, <1>2 DEF Whole13
<1>4. RequestInv'
  BY <1>1, <1>3 DEF RequestInv
<1>5. FileInv'
  BY <1>1 DEF FileInv, Reading
<1>6. ReaderInv' /\ Before' /\ (reader'.pos = reader.pos \/ reader'.pos <= file.length)
  <2>1. CASE PeekedText
    BY <1>1, <2>1 DEF PeekedText, ReaderInv, Before
  <2>2. CASE PeekText(n)
    <3>1. PICK pos, size \in Nat : pos = reader.pos /\ size = Len(reader.peeked) /\ pos = size
      BY <1>1 DEF ReaderInv, Before
    <3>2. PICK room \in Nat : room = PeekLen - size /\ size + room = PeekLen /\ room > 0
      <4>1. PICK len \in Nat : len = serving.length
        BY <1>1, StaticAssumption DEF RequestInv
      <4>2. size < PeekLen /\ PeekLen \in Nat
        BY <2>2, <3>1, <4>1, StaticAssumption DEF PeekText, Smaller
      <4>3. PeekLen - size \in Nat /\ size + (PeekLen - size) = PeekLen /\ PeekLen - size > 0
        BY <3>1, <4>2
      <4>4. QED
        BY <4>3
    <3>3. n \in Nat /\ n <= room /\ (n = 0 \/ pos + n <= file.length)
      <4>1. PICK len \in Nat : len = file.length
        BY <1>1, StaticAssumption DEF FileInv
      <4>2. n \in IF (IF pos < len THEN len - pos ELSE 0) = 0 THEN {0}
                   ELSE 1 .. Smaller(IF pos < len THEN len - pos ELSE 0, room)
        BY <2>2, <3>1, <3>2, <4>1 DEF PeekText, ReadSizes
      <4>3. QED
        BY <3>1, <3>2, <4>1, <4>2 DEF Smaller
    <3>4. PICK peeked : peeked = reader.peeked \o Offsets(pos, n)
      OBVIOUS
    <3>5. PICK all \in Nat : all = size + n
      BY <3>1, <3>3
    <3>6. reader' = [pos |-> all, peeked |-> peeked, idx |-> reader.idx, left |-> reader.left,
                     read |-> reader.read]
      <4>1. reader' = [reader EXCEPT !.peeked = peeked, !.pos = all]
        BY <2>2, <3>1, <3>4, <3>5 DEF PeekText
      <4>2. QED
        BY <1>1, <4>1 DEF ReaderInv
    <3>7. peeked = Offsets(0, all)
      <4>1. PICK zero \in Nat : zero = 0 /\ size = zero + size
        BY <3>1
      <4>2. Joins(zero, size, size, n, all)
        BY <3>3, <3>5, <4>1, OffsetsJoin
      <4>3. QED
        BY <1>1, <3>1, <3>4, <4>1, <4>2 DEF Joins, ReaderInv
    <3>8. Len(peeked) = all
      BY <3>7, OffsetsAre
    <3>9. all \in 0 .. PeekLen
      BY <3>2, <3>3, <3>5
    <3>10. ReaderInv' /\ Before'
      BY <1>1, <3>6, <3>7, <3>8, <3>9 DEF ReaderInv, Before
    <3>11. QED
      BY <3>1, <3>3, <3>5, <3>6, <3>10
  <2>3. QED
    BY <2>1, <2>2
<1>7. (\A k \in lengths' : k = serving'.length) => reader'.pos <= serving'.length
  <2>1. ASSUME \A k \in lengths' : k = serving'.length PROVE reader'.pos <= serving'.length
    <3>1. file.length = serving.length
      BY <1>1, <1>3, <2>1 DEF FileInv, Reading
    <3>2. reader.pos <= serving.length
      <4>1. Reading /\ serving.pc \in {"peek", "body"} /\ (\A k \in lengths : k = serving.length)
        BY <1>1, <1>3, <2>1 DEF Reading
      <4>2. QED
        BY <4>1 DEF DeliverInv, PlaceInv
    <3>3. QED
      BY <1>3, <1>6, <3>1, <3>2
  <2>2. QED
    BY <2>1
<1>8. QED
  BY <1>3, <1>4, <1>5, <1>6, <1>7, UnreadDelivers

-----------------------------------------------------------------------------
\* The range that was asked for, in the numbers that are compared.
LEMMA RangeIs ==
    ASSUME RequestInv, serving.pc # "idle", Ranged
    PROVE  /\ serving.method = "GET" /\ serving.asked # None
           /\ serving.range = ParseRange(serving.asked)
           /\ serving.asked[1] \in 0 .. MaxU64 /\ serving.asked[2] \in 0 .. MaxU64
  BY StaticAssumption DEF Ranged, RequestInv

\* A range is refused just when it is not inside the file.
LEMMA RefusedIfOutside ==
    ASSUME RequestInv, serving.pc # "idle", Ranged
    PROVE  /\ Unsatisfiable(serving.range[1], serving.range[2]) =>
                ~(serving.asked[1] <= serving.asked[2] /\ serving.asked[2] < serving.length)
           /\ ~Unsatisfiable(serving.range[1], serving.range[2]) => Inside
<1>1. PICK max \in Nat : max = MaxU64 /\ max > MaxLength
  BY StaticAssumption
<1>2. PICK a, b \in Nat :
        a = serving.asked[1] /\ b = serving.asked[2] /\ a <= max /\ b <= max
  BY <1>1, RangeIs
<1>3. PICK length \in Nat : length = serving.length /\ length < max
  BY <1>1, StaticAssumption DEF RequestInv
<1>4. PICK end \in Nat : end = (b + 1) % (max + 1)
  BY <1>1, <1>2
<1>5. serving.range = <<a, end>>
  BY <1>1, <1>2, <1>4, RangeIs DEF ParseRange
<1>6. end = IF b = max THEN 0 ELSE b + 1
  <2>1. CASE b = max
    BY <1>1, <1>4, <2>1
  <2>2. CASE b # max
    <3>1. b + 1 \in 0 .. max
      BY <1>1, <1>2, <2>2
    <3>2. QED
      BY <1>1, <1>2, <1>4, <2>2, <3>1
  <2>3. QED
    BY <2>1, <2>2
<1>7. Unsatisfiable(a, end) <=> end <= a \/ a >= length \/ end > length
  BY <1>3 DEF Unsatisfiable
<1>8. Unsatisfiable(a, end) => ~(a <= b /\ b < length)
  BY <1>1, <1>2, <1>3, <1>4, <1>6, <1>7
<1>9. ~Unsatisfiable(a, end) => a <= b /\ b < length /\ end = b + 1
  BY <1>1, <1>2, <1>3, <1>4, <1>6, <1>7
<1>10. QED
  BY <1>2, <1>3, <1>5, <1>8, <1>9 DEF Inside

\* The body is refused, or begins where it was asked for.
LEMMA CreateDelivers == ASSUME DeliverInv, CreateBody PROVE DeliverInv'
<1>1. /\ serving.pc = "body" /\ Whole13 /\ RequestInv /\ ReaderInv /\ Before /\ FileInv
      /\ UNCHANGED <<file, lengths>>
  BY DEF CreateBody, DeliverInv, RequestInv, PlaceInv, Sending
<1>2. Whole13
  BY <1>1
<1>3. PICK whole \in BOOLEAN : whole = serving.whole /\ ~whole
  BY <1>1 DEF RequestInv
<1>4. PICK start, end : start = serving.range[1] /\ end = serving.range[2]
  OBVIOUS
<1>5. FileInv' <=> (Reading' => file.length \in lengths)
  BY <1>1 DEF FileInv
<1>6. file.length \in lengths
  BY <1>1 DEF FileInv, Reading
<1>7. FileInv'
  BY <1>5, <1>6
<1>8. CASE serving.method = "HEAD"
  <2>1. reader' = reader
    BY <1>8 DEF CreateBody
  <2>2. PICK ok : ok = 200
    OBVIOUS
  <2>3. serving' = [serving EXCEPT !.pc = "done", !.status = ok, !.promised = serving.length]
    BY <1>8, <2>2 DEF CreateBody
  <2>4. serving' = Answered("done", ok, serving.length, serving.whole)
    BY <1>2, <2>3 DEF Answered, Whole13
  <2>5. /\ RequestInv' /\ serving'.pc = "done" /\ serving'.method = "HEAD"
    BY <1>1, <1>3, <1>8, <2>4, AnsweredRequest
  <2>6. ReaderInv' /\ reader'.read = <<>>
    BY <1>1, <2>1 DEF ReaderInv, Before
  <2>7. PlaceInv' /\ AnswerInv'
    BY <2>5, <2>6 DEF PlaceInv, AnswerInv, Sending, Reading, PromiseKept, RangeServedIfInside
  <2>8. QED
    BY <1>7, <2>5, <2>6, <2>7 DEF DeliverInv
<1>9. CASE serving.method # "HEAD" /\ ~Ranged
  <2>1. reader' = reader
    BY <1>9 DEF CreateBody, Ranged
  <2>2. serving' = Answered("prebuffer", serving.status, serving.length, serving.whole)
    BY <1>2, <1>9 DEF CreateBody, Ranged, Answered, Whole13
  <2>3. /\ RequestInv' /\ serving'.pc = "prebuffer"
        /\ ~serving'.whole /\ serving'.promised = serving.length
        /\ serving'.length = serving.length /\ serving'.method = serving.method
        /\ UNCHANGED <<Ranged, Start, Promise>>
    BY <1>1, <1>3, <2>2, AnsweredRequest
  <2>4. serving.method = "GET"
    BY <1>1, <1>9 DEF RequestInv
  <2>5. ReaderInv' /\ Before' /\ reader'.pos = reader.pos
    BY <1>1, <2>1 DEF ReaderInv, Before
  <2>6. During'
    <3>1. Start' = 0 /\ ~Ranged'
      BY <1>9, <2>3 DEF Start
    <3>2. reader'.read = Offsets(0, 0) /\ Len(reader'.read) = 0
      BY <2>5, OffsetsNone DEF Before
    <3>3. PICK size \in Nat : size = Len(reader'.peeked)
      BY <2>5, StaticAssumption DEF ReaderInv
    <3>4. Rest' = size /\ reader'.pos = size /\ reader'.idx = 0 /\ reader'.left = MaxU64
      <4>1. reader'.pos = size /\ reader'.idx = 0 /\ reader'.left = MaxU64
        BY <2>5, <3>3 DEF Before
      <4>2. Rest' = size - 0
        BY <3>3, <4>1 DEF Rest
      <4>3. QED
        BY <4>1, <4>2
    <3>5. QED
      BY <3>1, <3>2, <3>3, <3>4 DEF During
  <2>7. (\A n \in lengths' : n = serving'.length) => reader'.pos <= serving'.length
    BY <1>1, <2>3, <2>5 DEF DeliverInv, PlaceInv, Reading
  <2>8. PlaceInv'
    BY <1>9, <2>3, <2>4, <2>6, <2>7 DEF PlaceInv, Sending, Reading
  <2>9. AnswerInv'
    BY <1>9, <2>3 DEF AnswerInv, PromiseKept, RangeServedIfInside, Promise
  <2>10. QED
    BY <1>7, <2>3, <2>5, <2>8, <2>9 DEF DeliverInv
<1>10. CASE serving.method # "HEAD" /\ Ranged /\ Unsatisfiable(start, end)
  <2>1. PICK s : s = 416
    OBVIOUS
  <2>2. reader' = reader /\ serving' = [serving EXCEPT !.pc = "done", !.status = s]
    BY <1>4, <1>10, <2>1 DEF CreateBody, Ranged, Answer
  <2>3. serving' = Answered("done", s, serving.promised, serving.whole)
    BY <1>2, <2>2 DEF Answered, Whole13
  <2>4. /\ RequestInv' /\ serving'.pc = "done" /\ serving'.status = s
        /\ serving'.asked = serving.asked /\ serving'.length = serving.length
    BY <1>1, <1>3, <2>3, AnsweredRequest
  <2>5. ReaderInv' /\ reader'.read = <<>>
    BY <1>1, <2>2 DEF ReaderInv, Before
  <2>6. ~(serving.asked[1] <= serving.asked[2] /\ serving.asked[2] < serving.length)
    BY <1>1, <1>4, <1>10, RefusedIfOutside
  <2>7. PlaceInv'
    BY <2>4, <2>5 DEF PlaceInv, Sending, Reading
  <2>8. s # 206 /\ s # 200
    BY <2>1
  <2>9. AnswerInv'
    BY <2>4, <2>6, <2>8 DEF AnswerInv, Sending, PromiseKept, RangeServedIfInside
  <2>10. QED
    BY <1>7, <2>4, <2>5, <2>7, <2>9 DEF DeliverInv
<1>11. CASE serving.method # "HEAD" /\ Ranged /\ ~Unsatisfiable(start, end)
  <2>1. Inside
    BY <1>1, <1>4, <1>11, RefusedIfOutside
  <2>2. PICK first, last, length \in Nat :
          /\ first = serving.asked[1] /\ last = serving.asked[2] /\ length = serving.length
          /\ start = first /\ end = last + 1 /\ first <= last /\ last < length
          /\ length < MaxU64
    <3>1. serving.asked[1] \in Nat /\ serving.asked[2] \in Nat
      BY <1>1, <1>11, RangeIs, StaticAssumption
    <3>2. serving.length \in Nat /\ serving.length < MaxU64
      BY <1>1, StaticAssumption DEF RequestInv
    <3>3. QED
      BY <1>4, <2>1, <3>1, <3>2 DEF Inside
  <2>3. PICK sub \in Nat : sub = end - start /\ sub < MaxU64
    BY <2>2, StaticAssumption
  <2>4. /\ serving' = [serving EXCEPT !.pc = "prebuffer", !.promised = sub]
        /\ SeekTo(start, sub)
    BY <1>4, <1>11, <2>3 DEF CreateBody, Ranged
  <2>5. serving' = Answered("prebuffer", serving.status, sub, serving.whole)
    BY <1>2, <2>4 DEF Answered, Whole13
  <2>6. /\ RequestInv' /\ serving'.pc = "prebuffer"
        /\ ~serving'.whole /\ serving'.promised = sub
        /\ serving'.method = serving.method /\ serving'.range = serving.range
        /\ UNCHANGED <<Ranged, Start, Promise, Inside>>
    BY <1>1, <1>3, <2>5, AnsweredRequest
  <2>7. serving.method = "GET"
    BY <1>1, <1>11 DEF RequestInv
  <2>8. reader' = [pos |-> start, peeked |-> <<>>, idx |-> 0, left |-> sub, read |-> <<>>]
    <3>1. reader' = [reader EXCEPT !.pos = start, !.peeked = <<>>, !.idx = 0, !.left = sub]
      BY <2>4 DEF SeekTo
    <3>2. QED
      BY <1>1, <3>1 DEF ReaderInv, Before
  <2>9. Offsets(0, 0) = <<>> /\ Offsets(start, 0) = <<>> /\ Len(<<>>) = 0
    BY <2>2, OffsetsNone
  <2>10. sub \in 0 .. MaxU64 /\ 0 \in 0 .. PeekLen /\ start \in Nat
    BY <2>2, <2>3, StaticAssumption
  <2>11. ReaderInv'
    BY <2>8, <2>9, <2>10 DEF ReaderInv
  <2>12. During'
    <3>1. Start' = start /\ Ranged'
      BY <1>4, <1>11, <2>6 DEF Start
    <3>2. Rest' = 0
      BY <2>8, <2>9 DEF Rest
    <3>3. serving'.range[2] - serving'.range[1] = sub
      BY <1>4, <2>3, <2>6
    <3>4. QED
      BY <2>8, <2>9, <2>10, <3>1, <3>2, <3>3 DEF During
  <2>13. PlaceInv'
    BY <1>11, <2>1, <2>6, <2>7, <2>12 DEF PlaceInv, Sending, Reading
  <2>14. Promise = sub
    BY <1>4, <1>11, <2>3 DEF Promise
  <2>15. AnswerInv'
    BY <2>6, <2>14 DEF AnswerInv, PromiseKept, RangeServedIfInside
  <2>16. QED
    BY <1>7, <2>6, <2>11, <2>13, <2>15 DEF DeliverInv
<1>12. QED
  BY <1>8, <1>9, <1>10, <1>11 DEF Ranged

\* Reading the body.
LEMMA ReadDelivers ==
    ASSUME DeliverInv, Sending, ~serving.whole, UNCHANGED <<file, serving, lengths>>,
           NEW most \in Nat, NEW n \in BodySizes(most), n # 0, ReadBody(n)
    PROVE  DeliverInv'
<1>1. /\ RequestInv /\ ReaderInv /\ FileInv /\ During /\ (Ranged => Inside)
      /\ serving.method = "GET" /\ serving.pc # "idle"
  BY DEF DeliverInv, PlaceInv, Sending
<1>2. /\ ReaderInv' /\ During'
      /\ reader'.pos = reader.pos \/ reader'.pos <= file.length
  BY <1>1, BodyRead
<1>3. /\ UNCHANGED <<Ranged, Start, Promise, Inside, Sending, Reading, Status200>>
      /\ RequestInv' /\ FileInv'
  BY <1>1 DEF Ranged, Start, Promise, Inside, Sending, Reading, Status200, RequestInv, FileInv,
              Whole13
<1>4. ~Ranged /\ (\A k \in lengths : k = serving.length) => reader'.pos <= serving.length
  <2>1. ASSUME ~Ranged, \A k \in lengths : k = serving.length
        PROVE  reader'.pos <= serving.length
    <3>1. reader.pos <= serving.length
      BY <2>1 DEF DeliverInv, PlaceInv, Reading, Sending
    <3>2. file.length = serving.length
      BY <1>1, <2>1 DEF FileInv, Reading, Sending
    <3>3. QED
      BY <1>2, <3>1, <3>2
  <2>2. QED
    BY <2>1
<1>5. PlaceInv'
  BY <1>1, <1>2, <1>3, <1>4 DEF PlaceInv, Sending
<1>6. AnswerInv'
  BY <1>3 DEF DeliverInv, AnswerInv, Sending, PromiseKept, RangeServedIfInside
<1>7. QED
  BY <1>2, <1>3, <1>5, <1>6 DEF DeliverInv

\* The prebuffer is full, or what it has is the body.
LEMMA PrebufferDelivers == ASSUME DeliverInv, PrebufferEnds PROVE DeliverInv'
<1>1. /\ RequestInv /\ ReaderInv /\ FileInv /\ During /\ (Ranged => Inside) /\ Whole13
      /\ serving.method = "GET" /\ serving.pc = "prebuffer" /\ ~serving.whole
      /\ serving.promised = Promise
      /\ UNCHANGED <<file, reader, lengths>>
  BY DEF PrebufferEnds, DeliverInv, RequestInv, PlaceInv, AnswerInv, Sending
<1>2. Whole13
  BY <1>1
<1>3. PICK status : status = Status200
  OBVIOUS
<1>4. PICK whole, promised :
        /\ whole \in BOOLEAN /\ promised = IF whole THEN Len(reader.read) ELSE Promise
        /\ serving' = Answered("send", status, promised, whole)
  <2>1. CASE serving' = [serving EXCEPT !.pc = "send", !.status = Status200]
    <3>1. serving' = Answered("send", status, serving.promised, serving.whole)
      BY <1>2, <1>3, <2>1 DEF Answered, Whole13
    <3>2. serving.whole \in BOOLEAN
      BY <1>1 DEF RequestInv
    <3>3. QED
      BY <1>1, <3>1, <3>2
  <2>2. CASE serving' = WholeBody
    <3>1. PICK p : p = Len(reader.read)
      OBVIOUS
    <3>2. serving' = [serving EXCEPT !.pc = "send", !.status = status, !.whole = TRUE,
                                     !.promised = p]
      BY <1>3, <2>2, <3>1 DEF WholeBody
    <3>3. serving' = Answered("send", status, p, TRUE)
      BY <1>2, <3>2 DEF Answered, Whole13
    <3>4. QED
      BY <3>1, <3>3
  <2>3. QED
    BY <2>1, <2>2 DEF PrebufferEnds
<1>5. /\ RequestInv' /\ serving'.pc = "send" /\ serving'.status = status
      /\ serving'.promised = promised /\ serving'.whole = whole
      /\ serving'.method = serving.method /\ serving'.range = serving.range
      /\ serving'.length = serving.length /\ serving'.asked = serving.asked
      /\ UNCHANGED <<Ranged, Start, Promise, Inside>>
  BY <1>1, <1>4, AnsweredRequest
<1>6. UNCHANGED <<Rest, During, Status200>> /\ ReaderInv'
  BY <1>1, <1>5 DEF Rest, During, Status200, ReaderInv, Ranged
<1>7. FileInv'
  BY <1>1, <1>5 DEF FileInv, Reading
<1>8. PlaceInv'
  BY <1>1, <1>5, <1>6 DEF DeliverInv, PlaceInv, Sending, Reading
<1>9. AnswerInv'
  <2>1. serving'.promised = IF serving'.whole THEN Len(reader'.read) ELSE Promise'
    BY <1>1, <1>4, <1>5
  <2>2. serving'.status = Status200'
    BY <1>3, <1>5, <1>6
  <2>3. PromiseKept'
    BY <1>5 DEF PromiseKept
  <2>4. RangeServedIfInside'
    <3>1. serving.asked # None => Ranged
      <4>1. ParseRange(serving.asked) # None
        <5>1. PICK end : end = (serving.asked[2] + 1) % (MaxU64 + 1)
          OBVIOUS
        <5>2. Len(<<serving.asked[1], end>>) = 2 /\ Len(<<>>) = 0
          OBVIOUS
        <5>3. QED
          BY <5>1, <5>2 DEF ParseRange, None
      <4>2. QED
        BY <1>1, <4>1 DEF RequestInv, Ranged
    <3>2. Ranged => status = 206
      BY <1>3 DEF Status200, Ranged
    <3>3. QED
      BY <1>1, <1>5, <3>1, <3>2 DEF RangeServedIfInside, Inside
  <2>5. QED
    BY <2>1, <2>2, <2>3, <2>4 DEF AnswerInv
<1>10. QED
  BY <1>5, <1>6, <1>7, <1>8, <1>9 DEF DeliverInv

\* The length that was promised is sent.
LEMMA AllSent ==
    ASSUME DeliverInv, serving.pc = "send", serving.whole \/ 0 \in BodySizes(MaxLength),
           \/ serving.whole
           \/ \A n \in lengths : IF Ranged THEN n >= serving.range[2] ELSE n = serving.length
    PROVE  Len(reader.read) = serving.promised
<1>1. CASE serving.whole
  BY <1>1 DEF DeliverInv, AnswerInv, Sending
<1>2. CASE ~serving.whole
  <2>1. /\ RequestInv /\ ReaderInv /\ FileInv /\ During /\ (Ranged => Inside)
        /\ serving.promised = Promise /\ file.length \in lengths /\ MaxLength \in Nat
    BY <1>2, StaticAssumption DEF DeliverInv, FileInv, PlaceInv, AnswerInv, Sending, Reading
  <2>2. Takes(MaxLength) = 0 \/ (Rest = 0 /\ file.length <= reader.pos)
    BY <1>2, <2>1, BodySizesAre
  <2>3. PICK got, pos, rest, left \in Nat :
          got = Len(reader.read) /\ pos = reader.pos /\ rest = Rest /\ left = reader.left
    <3>1. Len(reader.read) \in Nat /\ reader.pos \in Nat /\ reader.left \in Nat
      BY <2>1, StaticAssumption DEF ReaderInv
    <3>2. PeekLen \in Nat
      BY StaticAssumption
    <3>3. Rest \in Nat
      BY <2>1, <3>2 DEF ReaderInv, Rest
    <3>4. QED
      BY <3>1, <3>3
  <2>4. PICK now, length \in Nat :
          now = file.length /\ length = serving.length /\ length <= MaxLength
    BY <2>1, StaticAssumption DEF FileInv, RequestInv
  <2>5. MaxLength = 0 \/ left = 0 \/ (rest = 0 /\ now <= pos)
    <3>1. Takes(MaxLength) = 0 => MaxLength = 0 \/ left = 0
      BY <2>1, <2>3 DEF Takes, Smaller
    <3>2. QED
      BY <2>2, <2>3, <2>4, <3>1
  <2>6. CASE ~Ranged
    <3>1. now = length /\ pos <= length
      BY <1>2, <2>1, <2>3, <2>4, <2>6 DEF DeliverInv, PlaceInv, Reading
    <3>2. pos = got + rest
      BY <2>1, <2>3, <2>6 DEF During, Start
    <3>3. left # 0
      BY <2>1, <2>3, <2>6, StaticAssumption DEF During
    <3>4. got = length
      BY <2>1, <2>3, <2>4, <2>5, <3>1, <3>2, <3>3
    <3>5. QED
      BY <2>1, <2>3, <2>4, <2>6, <3>4 DEF Promise
  <2>7. CASE Ranged
    <3>1. PICK first, last \in Nat : first = serving.asked[1] /\ last = serving.asked[2]
      BY <2>1, <2>7, RangeIs, StaticAssumption
    <3>2. /\ serving.range[1] = first /\ serving.range[2] = last + 1
          /\ first <= last /\ last < length
      BY <2>1, <2>4, <2>7, <3>1 DEF Inside
    <3>3. now >= last + 1
      BY <1>2, <2>1, <2>4, <2>7, <3>2
    <3>4. pos = first + got + rest /\ left + got = (last + 1) - first
      BY <2>1, <2>3, <2>7, <3>2 DEF During, Start
    <3>5. got = (last + 1) - first
      <4>1. MaxLength # 0
        BY <2>1, <2>4, <3>1, <3>2
      <4>2. CASE left = 0
        BY <2>3, <3>1, <3>4, <4>2
      <4>3. CASE rest = 0 /\ now <= pos
        <5>1. pos = first + got
          BY <2>3, <3>1, <3>4, <4>3
        <5>2. pos >= last + 1
          BY <2>3, <2>4, <3>1, <3>3, <4>3
        <5>3. got >= (last + 1) - first
          BY <2>3, <3>1, <5>1, <5>2
        <5>4. PICK size \in Int : size = (last + 1) - first
          BY <3>1
        <5>5. left + got = size
          BY <3>4, <5>4
        <5>6. got <= size /\ size <= got
          BY <2>3, <5>3, <5>4, <5>5
        <5>7. got = size
          BY <2>3, <5>4, <5>6
        <5>8. QED
          BY <5>4, <5>7
      <4>4. QED
        BY <2>5, <4>1, <4>2, <4>3
    <3>6. QED
      BY <2>1, <2>3, <2>7, <3>2, <3>5 DEF Promise
  <2>8. QED
    BY <2>6, <2>7
<1>3. QED
  BY <1>1, <1>2

LEMMA SentDelivers == ASSUME DeliverInv, SendEnds PROVE DeliverInv'
<1>1. /\ RequestInv /\ ReaderInv /\ FileInv /\ During /\ (Ranged => Inside) /\ Whole13
      /\ serving.method = "GET" /\ serving.pc = "send"
      /\ serving.whole \/ 0 \in BodySizes(MaxLength)
      /\ UNCHANGED <<file, reader, lengths>>
      /\ serving' = [serving EXCEPT !.pc = "done"]
  BY DEF SendEnds, DeliverInv, RequestInv, PlaceInv, Sending
<1>2. Whole13
  BY <1>1
<1>3. serving' = Answered("done", serving.status, serving.promised, serving.whole)
  BY <1>1, <1>2 DEF Answered, Whole13
<1>4. serving.whole \in BOOLEAN
  BY <1>1 DEF RequestInv
<1>5. /\ RequestInv' /\ serving'.pc = "done" /\ serving'.status = serving.status
      /\ serving'.promised = serving.promised /\ serving'.whole = serving.whole
      /\ serving'.method = serving.method /\ serving'.range = serving.range
      /\ serving'.length = serving.length /\ serving'.asked = serving.asked
      /\ UNCHANGED <<Ranged, Start, Promise, Inside>>
  BY <1>1, <1>3, <1>4, AnsweredRequest
<1>6. UNCHANGED <<Rest, During>> /\ ReaderInv'
  BY <1>1, <1>5 DEF Rest, During, ReaderInv
<1>7. FileInv'
  BY <1>1, <1>5 DEF FileInv, Reading
<1>8. PlaceInv'
  BY <1>1, <1>5, <1>6 DEF PlaceInv, Sending, Reading
<1>9. PromiseKept'
  <2>1. \/ serving.whole
        \/ \A n \in lengths : IF Ranged THEN n >= serving.range[2] ELSE n = serving.length
        => Len(reader.read) = serving.promised
    BY <1>1, AllSent
  <2>2. QED
    BY <1>1, <1>5, <2>1 DEF PromiseKept, Ranged
<1>10. RangeServedIfInside'
  BY <1>1, <1>5 DEF DeliverInv, AnswerInv, RangeServedIfInside
<1>11. AnswerInv'
  BY <1>5, <1>9, <1>10 DEF AnswerInv, Sending
<1>12. QED
  BY <1>5, <1>6, <1>7, <1>8, <1>11 DEF DeliverInv

LEMMA DeliverNext == DeliverInv /\ [StaticNext]_staticVars => DeliverInv'
<1> SUFFICES ASSUME DeliverInv, [StaticNext]_staticVars PROVE DeliverInv'
  OBVIOUS
<1>0. FileInv /\ MaxLength \in Nat
  BY StaticAssumption DEF DeliverInv
<1>1. ASSUME NEW state, NEW length \in 0 .. MaxLength, NEW mtime,
             FileChanges(state, length, mtime)
      PROVE  DeliverInv'
  <2>1. /\ UNCHANGED <<serving, reader>> /\ file'.length = length
        /\ lengths' = lengths \cup {length}
    BY <1>1 DEF FileChanges
  <2>2. QED
    BY <1>0, <1>1, <2>1, OthersDeliver DEF FileInv
<1>2. CASE Tick
  BY <1>0, <1>2, OthersDeliver DEF Tick, FileInv
<1>3. ASSUME NEW method, NEW target, NEW range \in Ranges \cup {None}, NEW since, NEW text,
             StaticRequest(method, target, range, since, text)
      PROVE  DeliverInv'
  BY <1>3, RequestDelivers
<1>4. CASE OpenFile
  BY <1>4, OpenDelivers
<1>5. ASSUME NEW n, PeekText(n) \/ PeekedText
      PROVE  DeliverInv'
  BY <1>5, PeekDelivers
<1>6. CASE CreateBody
  BY <1>6, CreateDelivers
<1>7. ASSUME NEW n, Prebuffer(n)
      PROVE  DeliverInv'
  <2>1. /\ serving.pc = "prebuffer" /\ ReaderInv /\ ~serving.whole
        /\ UNCHANGED <<file, serving, lengths>> /\ ReadBody(n)
    BY <1>7 DEF Prebuffer, DeliverInv, RequestInv
  <2>2. PICK most : most = PrebufferMax - Len(reader.read)
    OBVIOUS
  <2>3. n \in BodySizes(most) /\ n # 0 /\ Len(reader.read) < PrebufferMax
    BY <1>7, <2>2 DEF Prebuffer
  <2>4. most \in Nat
    <3>1. Len(reader.read) \in Nat /\ PrebufferMax \in Nat
      BY <2>1, StaticAssumption DEF ReaderInv
    <3>2. QED
      BY <2>2, <2>3, <3>1
  <2>5. QED
    BY <2>1, <2>3, <2>4, ReadDelivers DEF Sending
<1>8. CASE PrebufferEnds
  BY <1>8, PrebufferDelivers
<1>9. ASSUME NEW n, SendBody(n)
      PROVE  DeliverInv'
  <2>1. /\ serving.pc = "send" /\ ~serving.whole /\ n \in BodySizes(MaxLength) /\ n # 0
        /\ UNCHANGED <<file, serving, lengths>> /\ ReadBody(n)
    BY <1>9 DEF SendBody
  <2>2. QED
    BY <1>0, <2>1, ReadDelivers DEF Sending
<1>10. CASE SendEnds
  BY <1>10, SentDelivers
<1>11. CASE NextRequest
  BY <1>11, NextDelivers
<1>12. CASE UNCHANGED staticVars
  BY <1>0, <1>12, OthersDeliver DEF staticVars, FileInv
<1>13. QED
  BY <1>1, <1>2, <1>3, <1>4, <1>5, <1>6, <1>7, <1>8, <1>9, <1>10, <1>11, <1>12 DEF StaticNext

\* The reader of the body stays where what was sent and what was peeked say, and
\* within the range, for any ranges, reads and changes of the file.
THEOREM DeliveryCorrect == StaticSpec => []DeliverInv
<1>1. StaticInit => DeliverInv
  BY DeliverInit
<1>2. DeliverInv /\ [StaticNext]_staticVars => DeliverInv'
  BY DeliverNext
<1>3. QED
  BY <1>1, <1>2, PTL DEF StaticSpec

\* A request gets the bytes it asked for, each once and in order, and a range is
\* served just when it is inside the file.
THEOREM AskedIsDelivered == StaticSpec => []DeliversWhatWasAsked
<1>1. DeliverInv => DeliversWhatWasAsked
  <2> SUFFICES ASSUME DeliverInv PROVE DeliversInOrder /\ RangeServedIfInside
    BY DEF DeliversWhatWasAsked
  <2>1. RangeServedIfInside
    BY DEF DeliverInv, AnswerInv
  <2> DEFINE start == IF serving.range = None \/ serving.method # "GET" THEN 0
                                                                     ELSE serving.asked[1]
  <2>2. ASSUME serving.pc \in {"prebuffer", "send", "done"}
        PROVE  /\ reader.read = Offsets(start, Len(reader.read))
               /\ serving.range # None /\ reader.read # <<>> =>
                     start + Len(reader.read) <= serving.asked[2] + 1
    <3>1. RequestInv /\ ReaderInv /\ serving.pc # "idle"
      BY <2>2 DEF DeliverInv
    <3>2. reader.read = <<>> \/ (During /\ (Ranged => Inside))
      BY <2>2 DEF DeliverInv, PlaceInv, Sending
    <3>3. PICK from \in Nat : from = start
      BY <3>1, RangeIs, StaticAssumption DEF Ranged
    <3>4. CASE reader.read = <<>>
      <4>1. Len(reader.read) = 0
        BY <3>4
      <4>2. QED
        BY <3>3, <3>4, <4>1, OffsetsNone
    <3>5. CASE During /\ (Ranged => Inside)
      <4>1. Start = from
        BY <3>1, <3>3, <3>5, RangeIs DEF Start, Ranged, Inside
      <4>2. ASSUME Ranged PROVE from + Len(reader.read) <= serving.asked[2] + 1
        <5>1. PICK first, last \in Nat : first = serving.asked[1] /\ last = serving.asked[2]
          BY <3>1, <4>2, RangeIs, StaticAssumption
        <5>2. PICK got, left \in Nat : got = Len(reader.read) /\ left = reader.left
          BY <3>1, StaticAssumption DEF ReaderInv
        <5>3. serving.range[1] = first /\ serving.range[2] = last + 1 /\ from = first
          BY <3>5, <4>1, <4>2, <5>1 DEF Inside, Start
        <5>4. left + got = (last + 1) - first
          BY <3>5, <4>2, <5>2, <5>3 DEF During
        <5>5. \A a, b, c, d \in Nat : d + c = (b + 1) - a => a + c <= b + 1
          OBVIOUS
        <5>6. first + got <= last + 1
          BY <5>4, <5>5
        <5>7. QED
          BY <5>1, <5>2, <5>3, <5>6
      <4>3. QED
        BY <3>3, <3>5, <4>1, <4>2 DEF During, Ranged
    <3>6. QED
      BY <3>2, <3>4, <3>5
  <2>3. QED
    BY <2>1, <2>2 DEF DeliversInOrder
<1>2. QED
  BY <1>1, DeliveryCorrect, PTL

\* A response has the length it announced, unless the file changed under a body
\* that was too large to be read before.
THEOREM PromiseIsKept == StaticSpec => []PromiseKept
<1>1. DeliverInv => PromiseKept
  BY DEF DeliverInv, AnswerInv
<1>2. QED
  BY <1>1, DeliveryCorrect, PTL

\* What is peeked fits its buffer, and the reader keeps within its numbers.
THEOREM StaticTypes == StaticSpec => []StaticTypeOK
<1>1. DeliverInv => StaticTypeOK
  BY StaticAssumption DEF DeliverInv, RequestInv, ReaderInv, StaticTypeOK
<1>2. QED
  BY <1>1, DeliveryCorrect, PTL
=============================================================================
