---------------------------- MODULE StaticFiles ----------------------------
(***************************************************************************)
(* Serving a file (server/statik.rs) through its peeked and limited        *)
(* readers (server/peek.rs, server/limit.rs), until the response is sent   *)
(* (SendResponse::handle_response(), configure_response()), while others   *)
(* change the file.                                                        *)
(*                                                                         *)
(* A byte is known by its offset in the file.  Time is counted in ticks,   *)
(* TicksPerSecond of them in a second, the unit of the dates in headers;   *)
(* the file system keeps ticks.  One request after another is served.      *)
(***************************************************************************)
EXTENDS Integers, Sequences, FiniteSets

CONSTANTS
    TicksPerSecond,
    PeekLen,        \* PEEK_LEN
    PrebufferMax,   \* MAX_PREBUFFER
    MaxU64,         \* the largest u64
    DebugBuild,     \* overflow panics in a debug build, and wraps in a release
    MaxLength,      \* bound: length of the file
    MaxTime,        \* bound: the clock
    MaxChanges,     \* bound: changes of the file
    MaxRequests,    \* bound: requests
    Ranges          \* ranges that are requested, ends inclusive as in the header

ASSUME StaticAssumption ==
    /\ TicksPerSecond \in Nat \ {0} /\ PeekLen \in Nat /\ PrebufferMax \in Nat \ {0}
    /\ MaxU64 \in Nat /\ DebugBuild \in BOOLEAN /\ MaxLength \in 0 .. MaxU64 - 1
    /\ MaxTime \in Nat /\ MaxChanges \in Nat /\ MaxRequests \in Nat
    /\ \A r \in Ranges : r[1] \in 0 .. MaxU64 /\ r[2] \in 0 .. MaxU64

VARIABLES
    file,    \* state "file", "denied" or "gone"; length; mtime; version, for the properties
    clock,   \* ticks
    serving, \* the request that is served
    reader,  \* Peekable and ContentLengthRead over the open file
    copy,    \* what a client keeps of an earlier response, or NoCopy
    lengths, \* history: the lengths the file had since it was opened
    seen     \* history: the versions of it that were read from

staticVars == <<file, clock, serving, reader, copy, lengths, seen>>
-----------------------------------------------------------------------------
None == <<>>
NoCopy == [stamp |-> -1, mtime |-> 0, versions |-> {}]
Closed == [pos |-> 0, peeked |-> <<>>, idx |-> 0, left |-> MaxU64, read |-> <<>>]
Idle == [pc |-> "idle", served |-> 0]

Smaller(a, b) == IF a < b THEN a ELSE b
SecondOf(tick) == tick \div TicksPerSecond

\* What a request names: whether serve_dir() has no single parameter for it,
\* and what resolve_path() and is_dir() make of it.
Targets0 == {"params", "missing", "outside", "bad", "dir", "file"}

StaticInit ==
    /\ \E state \in {"file", "denied"}, length \in 0 .. MaxLength :
       \E mtime \in {TicksPerSecond - 1, TicksPerSecond} :
          file = [state |-> state, length |-> length, mtime |-> mtime, version |-> 0]
    /\ clock = TicksPerSecond /\ serving = Idle /\ reader = Closed /\ copy = NoCopy
    /\ lengths = {} /\ seen = {}

\* Others write, truncate or touch the file, or put back an older one, or
\* remove it; who has it open may still read it.
FileChanges(state, length, mtime) ==
    /\ file.state = "file" /\ file.version < MaxChanges
    /\ state = "gone" => length = file.length
    /\ file' = [state |-> state, length |-> length, mtime |-> mtime, version |-> file.version + 1]
    /\ lengths' = lengths \cup {length}
    /\ UNCHANGED <<clock, serving, reader, copy, seen>>

Tick ==
    /\ clock < MaxTime
    /\ clock' = clock + 1
    /\ UNCHANGED <<file, serving, reader, copy, lengths, seen>>

\* As if the end were exclusive already.
ParseRangeAsIs(range) == range

\* Dispatch::new(): the end is made exclusive, in an u64.
ParseRange(range) == <<range[1], (range[2] + 1) % (MaxU64 + 1)>>

Overflows(range) == DebugBuild /\ range[2] = MaxU64

Answer(status) == serving' = [serving EXCEPT !.pc = "done", !.status = status]

\* call(), handle() and Dispatch::new(), up to opening the file.
StaticRequest(method, target, range, since, text) ==
    /\ serving.pc = "idle" /\ serving.served < MaxRequests
    /\ LET got == [pc |-> "open", status |-> 0, method |-> method, asked |-> range,
                   range |-> IF method = "GET" /\ range # None THEN ParseRange(range) ELSE None,
                   since |-> since, text |-> text, served |-> serving.served + 1,
                   length |-> 0, mtime |-> 0, version |-> 0, promised |-> 0, whole |-> FALSE]
           done(status) == [got EXCEPT !.pc = "done", !.status = status]
       IN  serving' =
             CASE target = "params" -> done(500)
               [] target # "params" /\ method \notin {"GET", "HEAD"} -> done(405)
               [] OTHER ->
                    CASE target \in {"missing", "outside", "dir"} -> done(404)
                      [] target = "bad" -> done(400)
                      [] target = "file" /\ file.state = "gone" -> done(404)
                      [] OTHER -> IF method = "GET" /\ range # None /\ Overflows(range)
                                    THEN [got EXCEPT !.pc = "panic"] ELSE got
    /\ lengths' = {} /\ seen' = {} /\ reader' = Closed
    /\ UNCHANGED <<file, clock, copy>>

\* As if the difference in either direction counted.
NotModifiedEither(mtime, since) ==
    LET diff == mtime - since * TicksPerSecond
    IN  -TicksPerSecond < diff /\ diff < TicksPerSecond

\* modified.duration_since(since) is an error when since is later.
NotModified(mtime, since) ==
    LET diff == mtime - since * TicksPerSecond
    IN  0 <= diff /\ diff < TicksPerSecond

\* into_response_io(): the file is opened, and length and time are read, once.
OpenFile ==
    /\ serving.pc = "open"
    /\ IF file.state # "file" THEN Answer(IF file.state = "gone" THEN 404 ELSE 403)
       ELSE serving' =
              [serving EXCEPT !.length = file.length, !.mtime = file.mtime,
                 !.version = file.version,
                 !.pc = CASE serving.since >= 0 /\ NotModified(file.mtime, serving.since) -> "done"
                          [] serving.text -> "peek"
                          [] OTHER -> "body",
                 !.status = IF serving.since >= 0 /\ NotModified(file.mtime, serving.since)
                              THEN 304 ELSE 0]
    /\ lengths' = {file.length}
    /\ UNCHANGED <<file, clock, reader, copy, seen>>

\* What a read of the file may return: none at its end, else at least one byte.
ReadSizes(most) ==
    LET there == IF reader.pos < file.length THEN file.length - reader.pos ELSE 0
    IN  IF there = 0 THEN {0} ELSE 1 .. Smaller(there, most)

Offsets(from, n) == [i \in 1 .. n |-> from + i - 1]

Reads(n) == seen' = IF n > 0 THEN seen \cup {file.version} ELSE seen

\* peek(): one round, with as much as its buffer has room for.
PeekText(n) ==
    /\ serving.pc = "peek"
    /\ Len(reader.peeked) < Smaller(PeekLen, serving.length)
    /\ n \in ReadSizes(PeekLen - Len(reader.peeked))
    /\ reader' = [reader EXCEPT !.peeked = @ \o Offsets(reader.pos, n), !.pos = @ + n]
    /\ serving' = [serving EXCEPT !.pc = IF n = 0 THEN "body" ELSE @]
    /\ Reads(n)
    /\ UNCHANGED <<file, clock, copy, lengths>>

\* It has enough.
PeekedText ==
    /\ serving.pc = "peek"
    /\ Len(reader.peeked) >= Smaller(PeekLen, serving.length)
    /\ serving' = [serving EXCEPT !.pc = "body"]
    /\ UNCHANGED <<file, clock, reader, copy, lengths, seen>>

\* As if what was peeked were still handed out after a seek.
SeekToKeepsPeeked(start, sub) ==
    reader' = [reader EXCEPT !.pos = start, !.left = sub]

\* Peekable::poll_seek(), and ContentLengthRead::new()
SeekTo(start, sub) ==
    reader' = [reader EXCEPT !.pos = start, !.peeked = <<>>, !.idx = 0, !.left = sub]

Unsatisfiable(start, end) == end <= start \/ start >= serving.length \/ end > serving.length

\* create_body(); an empty body is all prebuffered, and needs no sending.
CreateBody ==
    /\ serving.pc = "body"
    /\ LET start == serving.range[1]
           end == serving.range[2]
       IN  IF serving.method = "HEAD" THEN
             /\ serving' = [serving EXCEPT !.pc = "done", !.status = 200, !.promised = serving.length]
             /\ UNCHANGED reader
           ELSE IF serving.range = None THEN
             /\ serving' = [serving EXCEPT !.pc = "prebuffer", !.promised = serving.length]
             /\ UNCHANGED reader
           ELSE IF Unsatisfiable(start, end) THEN Answer(416) /\ UNCHANGED reader
           ELSE
             /\ serving' = [serving EXCEPT !.pc = "prebuffer", !.promised = end - start]
             /\ SeekTo(start, end - start)
    /\ UNCHANGED <<file, clock, copy, lengths, seen>>

\* As if a range were not limited.
TakesUnlimited(most) == most

\* ContentLengthRead::poll_read()
Takes(most) == Smaller(most, reader.left)

\* What the reader of the body may return, through limit and peeked bytes.
BodySizes(most) ==
    LET max == Takes(most)
        peeked == Len(reader.peeked) - reader.idx
    IN  IF max = 0 THEN {0}
        ELSE IF peeked > 0 THEN {Smaller(peeked, max)}
        ELSE ReadSizes(max)

\* Peekable::poll_read(): peeked bytes first, then the file.
ReadBody(n) ==
    LET peeked == Len(reader.peeked) - reader.idx
        all == peeked > 0 /\ reader.idx + n = Len(reader.peeked)
    IN  /\ reader' =
             [reader EXCEPT
                !.read = @ \o IF peeked > 0 THEN SubSeq(reader.peeked, reader.idx + 1, reader.idx + n)
                                            ELSE Offsets(reader.pos, n),
                !.peeked = IF all THEN <<>> ELSE @,
                !.idx = IF all THEN 0 ELSE IF peeked > 0 THEN @ + n ELSE @,
                !.pos = IF peeked > 0 THEN @ ELSE @ + n,
                !.left = IF reader.left = MaxU64 THEN @ ELSE @ - n]
        /\ IF peeked > 0 THEN UNCHANGED seen ELSE Reads(n)

Status200 == IF serving.range = None THEN 200 ELSE 206

\* attempt_prebuffer() reads on until its buffer is full ...
Prebuffer(n) ==
    /\ serving.pc = "prebuffer"
    /\ Len(reader.read) < PrebufferMax
    /\ n \in BodySizes(PrebufferMax - Len(reader.read)) \ {0}
    /\ ReadBody(n)
    /\ UNCHANGED <<file, clock, serving, copy, lengths>>

\* As if the length that was announced stood.
WholeBodyKeepsLength == [serving EXCEPT !.pc = "send", !.status = Status200, !.whole = TRUE]

\* What was read is the whole body, and its length is announced.
WholeBody ==
    [serving EXCEPT !.pc = "send", !.status = Status200, !.whole = TRUE,
                    !.promised = Len(reader.read)]

\* ... or the reader ends.
PrebufferEnds ==
    /\ serving.pc = "prebuffer"
    /\ IF Len(reader.read) = PrebufferMax
         THEN serving' = [serving EXCEPT !.pc = "send", !.status = Status200]
         ELSE 0 \in BodySizes(PrebufferMax) /\ serving' = WholeBody
    /\ UNCHANGED <<file, clock, reader, copy, lengths, seen>>

\* handle_response(): what is buffered is sent, then what can be read.
SendBody(n) ==
    /\ serving.pc = "send" /\ ~serving.whole
    /\ n \in BodySizes(MaxLength) \ {0}
    /\ ReadBody(n)
    /\ UNCHANGED <<file, clock, serving, copy, lengths>>

\* The client keeps a response that is complete and no part.
SendEnds ==
    /\ serving.pc = "send"
    /\ serving.whole \/ 0 \in BodySizes(MaxLength)
    /\ serving' = [serving EXCEPT !.pc = "done"]
    /\ copy' = IF serving.status = 200 /\ Len(reader.read) = serving.promised
                 THEN [stamp |-> SecondOf(serving.mtime), mtime |-> serving.mtime,
                       versions |-> seen]
                 ELSE copy
    /\ UNCHANGED <<file, clock, reader, lengths, seen>>

\* The next request; nothing is left of the one before.
NextRequest ==
    /\ serving.pc = "done"
    /\ serving' = [pc |-> "idle", served |-> serving.served]
    /\ reader' = Closed /\ lengths' = {} /\ seen' = {}
    /\ UNCHANGED <<file, clock, copy>>

\* Requests that get as far as the file carry a range, a date or neither, and
\* the date is the one the client was given.
StaticNext ==
    \/ \E state \in {"file", "gone"}, length \in 0 .. MaxLength, mtime \in {clock - 1, clock} :
          FileChanges(state, length, mtime)
    \/ Tick
    \/ \E method \in {"GET", "POST"}, target \in Targets0 \ {"file"} :
          StaticRequest(method, target, None, -1, FALSE)
    \/ \E method \in {"GET", "HEAD"}, range \in Ranges \cup {None}, text \in BOOLEAN :
          StaticRequest(method, "file", range, -1, text)
    \/ copy # NoCopy /\ StaticRequest("GET", "file", None, copy.stamp, FALSE)
    \/ OpenFile
    \/ \E n \in 0 .. MaxLength : PeekText(n)
    \/ PeekedText
    \/ CreateBody
    \/ \E n \in 1 .. MaxLength : Prebuffer(n)
    \/ PrebufferEnds
    \/ \E n \in 1 .. MaxLength : SendBody(n)
    \/ SendEnds
    \/ NextRequest

StaticSpec == StaticInit /\ [][StaticNext]_staticVars
-----------------------------------------------------------------------------
\* Types; what is peeked fits the buffer of PEEK_LEN bytes, for which
\* UninitBuf panics (uninit.rs:133, server/peek.rs:43).
StaticTypeOK ==
    /\ serving.pc \in {"idle", "open", "peek", "body", "prebuffer", "send", "done", "panic"}
    /\ Len(reader.peeked) <= PeekLen /\ reader.idx <= Len(reader.peeked)
    /\ reader.pos \in Nat /\ reader.left \in 0 .. MaxU64

\* The bytes of a body are those that were asked for, each once and in order,
\* though the start of the file was read before to guess its charset, and none
\* past the range, whatever becomes of the file meanwhile
\* (server/statik.rs:391-393, 432-436, server/peek.rs:116-121).
DeliversInOrder ==
    serving.pc \in {"prebuffer", "send", "done"} =>
        LET start == IF serving.range = None \/ serving.method # "GET" THEN 0 ELSE serving.asked[1]
        IN  /\ reader.read = Offsets(start, Len(reader.read))
            /\ serving.range # None /\ reader.read # <<>> =>
                  start + Len(reader.read) <= serving.asked[2] + 1

\* A range is served exactly when it lies in the file that was opened; also an
\* end that wraps is refused (server/statik.rs:323, 427-431).
RangeServedIfInside ==
    serving.pc \in {"send", "done"} /\ serving.status \in {200, 206, 416}
        /\ serving.method = "GET" /\ serving.asked # None =>
        (serving.status = 206 <=> /\ serving.asked[1] <= serving.asked[2]
                                  /\ serving.asked[2] < serving.length)

\* A request gets what it asked for of the file, or is refused.
DeliversWhatWasAsked == DeliversInOrder /\ RangeServedIfInside

\* A response has the length it announced, unless the file changed under it and
\* the body was too large for the prebuffer: the length is read when the file is
\* opened, and what the file has is sent (server/statik.rs:352, 449, body.rs:567).
PromiseKept ==
    serving.pc = "done" /\ serving.status \in {200, 206} /\ serving.method = "GET"
        /\ (\/ serving.whole
            \/ \A n \in lengths : IF serving.range = None THEN n = serving.length
                                                          ELSE n >= serving.range[2])
        => Len(reader.read) = serving.promised

\* "Not modified" is said of another version than the client has only if both
\* were made in the same second, "The web format has a resultion of seconds",
\* also when an older file was put back (server/statik.rs:357-360).
NotModifiedIsCurrent ==
    serving.pc = "done" /\ serving.status = 304 /\ copy.versions \ {serving.version} # {} =>
        SecondOf(serving.mtime) = copy.stamp
=============================================================================
