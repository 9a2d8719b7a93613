---------------------------- MODULE BodyReading ----------------------------
(***************************************************************************)
(* How a body is read (body.rs, body_codec.rs, uninit.rs, charset.rs).  A  *)
(* source is read into the growing UninitBuf of a BodyReader; reads of the *)
(* Body take its bytes from there, directly or through a CharCodec, or     *)
(* from the copy that prebuffering made of the whole body.                 *)
(*                                                                         *)
(* Abstractions.  The source's bytes are the numbers 1 .. total; a         *)
(* character is the number of its last byte, and total also stands for one *)
(* cut off by the end, which decodes to a replacement character.  The      *)
(* source is external: a reader or an HTTP/1 body gives any number of      *)
(* bytes, HTTP/2 gives frames, and each may pend or fail at any time.      *)
(* gzip only changes which bytes there are and is left out, as are the     *)
(* counting for the bandwidth monitor and the choice of the charsets.      *)
(***************************************************************************)
EXTENDS Integers, Sequences, FiniteSets

CONSTANTS
    Totals,       \* the lengths of body to consider
    Ends,         \* the bytes that are the last of a character
    Width,        \* the bytes of a character in the output encoding
    DecodeRoom,   \* the characters one decoding has room for: 8192 bytes
    DecodeBelow,  \* it decodes when fewer are left of the decoded text: 128
    StartSize,    \* START_BUF_SIZE
    Prebuffer,    \* MAX_PREBUFFER
    Sizes,        \* the capacities from StartSize to Prebuffer, each twice the one before
    MaxSize,      \* MAX_BUF_SIZE
    FrameSize,    \* the largest DATA frame of HTTP/2
    ReadSizes,    \* the sizes of the buffers a caller reads into
    Headroom      \* the least by which read_to_end() extends its vector: 32

ASSUME BodyAssumption == Totals \subseteq Nat /\ Ends \subseteq Nat \ {0}
ASSUME CodecAssumption == {Width, DecodeRoom, DecodeBelow, Headroom} \subseteq Nat \ {0}
ASSUME BufferAssumption ==
    /\ {StartSize, Prebuffer, MaxSize} \subseteq Nat \ {0} /\ Prebuffer < MaxSize
    /\ StartSize \in Sizes /\ Sizes \subseteq 1 .. Prebuffer
    /\ \A size \in Sizes \ {Prebuffer} : 2 * size \in Sizes
ASSUME ReadAssumption == ReadSizes \subseteq Nat \ {0} /\ FrameSize \in Nat

VARIABLES
    total,        \* the length of the body
    framed,       \* the source is an HTTP/2 stream
    codec,        \* char_codec is there
    given,        \* how many bytes the source has given
    leftover,     \* h2_leftover_bytes
    buffer,       \* BodyReader's buffer: the safe bytes of its UninitBuf
    cap,          \* the capacity of the UninitBuf
    expand,       \* its expand
    consumed,     \* BodyReader's consumed
    prebufferTo,  \* its prebuffer_to
    finished,     \* its is_finished
    dec,          \* the last byte fed to the Decoder
    decoded,      \* CharCodec's decoded
    isEnd,        \* its is_end
    isPre,        \* prebuffered is there
    pre,          \* what is left of it, or what read_to_end() has so far
    deadline,     \* deadline_fut: "never", "armed" or "done"
    st,           \* what is done with the body
    loop,         \* where in a poll it is: "out" before, "in" poll_refill_buf()
                  \* looping, "filled" after it
    dst,          \* the room of the buffer read into
    out,          \* what the caller has read
    ended,        \* history: a read gave zero bytes
    empty         \* history: an empty DATA frame came before the end

sourceVars == <<total, framed, codec, given, leftover>>
growVars == <<cap, expand>>
readerVars == <<buffer, consumed, prebufferTo, finished>>
codecVars == <<dec, decoded, isEnd>>
callVars == <<isPre, pre, deadline, st, dst, out, ended>>
vars == <<sourceVars, growVars, readerVars, codecVars, callVars, loop, empty>>
-----------------------------------------------------------------------------
Smaller(a, b) == IF a < b THEN a ELSE b
Larger(a, b) == IF a > b THEN a ELSE b

\* The bytes from + 1 .. to.
Bytes(from, to) == [i \in 1 .. to - from |-> from + i]

IsLast(b) == b \in Ends

\* Those of the bytes that are in a set, in their order.
Among(set, bytes) ==
    LET at == {i \in DOMAIN bytes : bytes[i] \in set}
        nth(k) == CHOOSE i \in at : Cardinality({j \in at : j <= i}) = k
    IN  [k \in 1 .. Cardinality(at) |-> bytes[nth(k)]]

\* The characters a sequence of bytes completes, without and with the body's end.
Completed(bytes) == Among(Ends, bytes)
Text(bytes) == IF codec THEN Among(Ends \cup {total}, bytes) ELSE bytes

\* All that a reader of the body should get.
Whole == Text(Bytes(0, total))

UnitSize == IF codec THEN Width ELSE 1
Unconsumed == SubSeq(buffer, consumed + 1, Len(buffer))
-----------------------------------------------------------------------------
(* UninitBuf *)

\* reserve_if_needed(): Vec::reserve() doubles the capacity.
Grows == cap < MaxSize /\ (expand \/ Len(buffer) = cap)
\* As if Vec grew by another factor, which uninit.rs:34 does not rule out.
CapacityTripled == IF Grows THEN 3 * cap ELSE cap

Capacity == IF Grows THEN 2 * cap ELSE cap
NoHeadroom == Len(buffer) = cap /\ cap >= MaxSize

\* As if the whole buffer were offered, not what is free of it.
RoomOfAll == Capacity

Room == Capacity - Len(buffer)

\* poll_delegate() once the delegate gave bytes, and when it pends or fails.
Filled(bytes) ==
    /\ buffer' = buffer \o bytes
    /\ cap' = Capacity
    /\ expand' = (Len(buffer') = cap')
NotFilled ==
    /\ cap' = Capacity
    /\ expand' = (expand /\ ~Grows)
    /\ UNCHANGED buffer
-----------------------------------------------------------------------------
(* BodyReader *)

ReadEnough ==
    \/ prebufferTo > 0 /\ Len(buffer) = prebufferTo
    \/ prebufferTo = 0 /\ buffer # <<>>

\* A poll finds bytes that no one consumed, or nothing more to come.
UseBuffer ==
    /\ loop = "out" /\ ~isPre
    /\ st \in {"prebuffering", "slurping", "reading"}
    /\ \/ Unconsumed # <<>>
       \/ finished /\ ~codec /\ st # "prebuffering"
    /\ loop' = "filled"
    /\ UNCHANGED <<sourceVars, growVars, readerVars, codecVars, callVars, empty>>

\* As if the buffer were cleared and the consume index were not.
EnterRefillNoReset ==
    /\ loop = "out" /\ ~isPre
    /\ st \in {"prebuffering", "slurping", "reading"}
    /\ Unconsumed = <<>>
    /\ finished => codec \/ st = "prebuffering"
    /\ buffer' = <<>>
    /\ loop' = "in"
    /\ UNCHANGED <<sourceVars, growVars, consumed, prebufferTo, finished, codecVars,
                   callVars, empty>>

\* poll_refill_buf() up to its loop.
EnterRefill ==
    /\ loop = "out" /\ ~isPre
    /\ st \in {"prebuffering", "slurping", "reading"}
    /\ Unconsumed = <<>>
    /\ finished => codec \/ st = "prebuffering"
    /\ consumed' = 0
    /\ buffer' = <<>>
    /\ loop' = "in"
    /\ UNCHANGED <<sourceVars, growVars, prebufferTo, finished, codecVars, callVars, empty>>

\* Its return from the loop.
ExitRefill ==
    /\ loop = "in"
    /\ finished \/ ReadEnough
    /\ prebufferTo' = 0
    /\ loop' = "filled"
    /\ UNCHANGED <<sourceVars, growVars, buffer, consumed, finished, codecVars, callVars, empty>>

\* It goes on to poll_read_underlying(), through poll_delegate(), whose
\* reserve_if_needed() panics when there is no headroom: nothing happens then.
GoesOn == loop = "in" /\ ~finished /\ ~ReadEnough
Delegates == GoesOn /\ ~NoHeadroom

TakeLeftover ==
    /\ Delegates /\ leftover # <<>>
    /\ LET amount == Smaller(Len(leftover), Room) IN
       /\ Filled(SubSeq(leftover, 1, amount))
       /\ leftover' = SubSeq(leftover, amount + 1, Len(leftover))
    /\ UNCHANGED <<total, framed, codec, given, consumed, prebufferTo, finished,
                   codecVars, callVars, loop, empty>>

\* An AsyncRead, a Read or an HTTP/1 body gives some bytes.
SourceGives(n) ==
    /\ Delegates /\ ~framed
    /\ n <= Smaller(Room, total - given)
    /\ Filled(Bytes(given, given + n))
    /\ given' = given + n
    /\ UNCHANGED <<total, framed, codec, leftover, consumed, prebufferTo, finished,
                   codecVars, callVars, loop, empty>>

\* A DATA frame.  What does not fit is left for later; one of zero bytes looks
\* like the end.
FrameArrives(n) ==
    /\ Delegates /\ framed /\ leftover = <<>>
    /\ n <= total - given
    /\ LET amount == Smaller(n, Room) IN
       /\ Filled(Bytes(given, given + amount))
       /\ leftover' = Bytes(given + amount, given + n)
    /\ given' = given + n
    /\ finished' = (n = 0)
    /\ empty' = (empty \/ (n = 0 /\ given < total))
    /\ UNCHANGED <<total, framed, codec, consumed, prebufferTo, codecVars, callVars, loop>>

\* As if the source were asked although leftovers are there.
SourceEndsEarly ==
    /\ Delegates /\ given = total
    /\ Filled(<<>>)
    /\ finished' = TRUE
    /\ UNCHANGED <<sourceVars, consumed, prebufferTo, codecVars, callVars, loop, empty>>

\* As if a read of zero bytes did not finish the reader.
SourceEndsUnseen ==
    /\ Delegates /\ leftover = <<>> /\ given = total
    /\ Filled(<<>>)
    /\ UNCHANGED <<sourceVars, consumed, prebufferTo, finished, codecVars, callVars, loop, empty>>

SourceEnds ==
    /\ Delegates /\ leftover = <<>> /\ given = total
    /\ Filled(<<>>)
    /\ finished' = TRUE
    /\ UNCHANGED <<sourceVars, consumed, prebufferTo, codecVars, callVars, loop, empty>>

\* The poll ends; the next one starts over, at the deadline.
SourcePends ==
    /\ Delegates /\ leftover = <<>>
    /\ NotFilled
    /\ loop' = "out"
    /\ UNCHANGED <<sourceVars, consumed, prebufferTo, finished, codecVars, callVars, empty>>

\* An error is that of the read, or of the sending of which prebuffering is part.
AfterError == IF st = "reading" THEN "idle" ELSE "failed"

SourceFails ==
    /\ Delegates /\ leftover = <<>>
    /\ NotFilled
    /\ st' = AfterError
    /\ loop' = "out"
    /\ UNCHANGED <<sourceVars, consumed, prebufferTo, finished, codecVars,
                   isPre, pre, deadline, dst, out, ended, empty>>
-----------------------------------------------------------------------------
(* Body *)

\* configure() puts the deadline there; its caller tries to prebuffer, or not.
Configure(attempt, when) ==
    /\ st = "fresh"
    /\ deadline' = when
    /\ st' = IF attempt THEN "prebuffering" ELSE "idle"
    /\ UNCHANGED <<sourceVars, growVars, readerVars, codecVars,
                   isPre, pre, dst, out, ended, loop, empty>>

\* attempt_prebuffer() after its poll_fn(): with all the contents in the buffer
\* it reads them through poll_read(), into a vector of that capacity.
PrebufferDone ==
    /\ st = "prebuffering" /\ loop = "filled"
    /\ loop' = "out"
    /\ IF finished
         THEN /\ st' = "slurping"
              /\ dst' = IF Len(buffer) >= Headroom THEN Len(buffer)
                        ELSE Larger(2 * Len(buffer), Headroom)
         ELSE st' = "idle" /\ UNCHANGED dst
    /\ UNCHANGED <<sourceVars, growVars, readerVars, codecVars,
                   isPre, pre, deadline, out, ended, empty>>

\* poll_read() into a buffer of the caller's.  A deadline that has been reported
\* is a future that has completed: to poll it again panics.
StartRead(room) ==
    /\ st = "idle"
    /\ IF deadline = "done" THEN st' = "resumed" /\ UNCHANGED dst
                            ELSE st' = "reading" /\ dst' = room
    /\ UNCHANGED <<sourceVars, growVars, readerVars, codecVars,
                   isPre, pre, deadline, out, ended, loop, empty>>

TimedOut ==
    /\ st \in {"reading", "slurping"} /\ loop = "out"
    /\ deadline = "armed"
    /\ deadline' = "done"
    /\ st' = AfterError
    /\ UNCHANGED <<sourceVars, growVars, readerVars, codecVars,
                   isPre, pre, dst, out, ended, loop, empty>>

\* The end of read_to_end()'s vector; it is extended when there is none left.
RoomAfter(written) ==
    IF dst > UnitSize * Len(written) THEN dst - UnitSize * Len(written)
    ELSE Larger(UnitSize * Len(pre \o written), Headroom)

\* poll_read() is ready with these; zero bytes are the end to whoever reads.
Deliver(units) ==
    /\ loop' = "out"
    /\ ended' = (ended \/ units = <<>>)
    /\ \/ /\ st = "reading"
          /\ st' = "idle"
          /\ out' = out \o units
          /\ UNCHANGED <<isPre, dst>>
       \/ /\ st = "slurping"
          /\ st' = IF units = <<>> THEN "idle" ELSE st
          /\ isPre' = (units = <<>>)
          /\ dst' = RoomAfter(units)
          /\ UNCHANGED out
    /\ UNCHANGED <<deadline, empty>>

\* BodyReader::poll_read().
ReadPass ==
    /\ loop = "filled" /\ ~codec /\ st \in {"reading", "slurping"}
    /\ LET units == SubSeq(Unconsumed, 1, Smaller(dst, Len(Unconsumed))) IN
       /\ Deliver(units)
       /\ consumed' = consumed + Len(units)
       /\ pre' = IF st = "slurping" THEN pre \o units ELSE pre
    /\ UNCHANGED <<sourceVars, growVars, buffer, prebufferTo, finished, codecVars>>

\* The longest start of src whose characters one decoding has room for.
Decodable(src) ==
    CHOOSE n \in 0 .. Len(src) :
        /\ Len(Completed(SubSeq(src, 1, n))) <= DecodeRoom
        /\ \A m \in n + 1 .. Len(src) : Len(Completed(SubSeq(src, 1, m))) > DecodeRoom

\* The last byte the decoder has seen once it is fed these.
Fed(bytes) == IF bytes = <<>> THEN dec ELSE bytes[Len(bytes)]

\* decode_to_utf8(): what is incomplete stays in the decoder, until the last
\* call replaces it.
Decoded(bytes, last) ==
    Completed(bytes)
    \o (IF last /\ Fed(bytes) > 0 /\ ~IsLast(Fed(bytes)) THEN <<Fed(bytes)>> ELSE <<>>)

\* How many characters of a text fit into so much room.
Fitting(text, room) == Smaller(Len(text), room \div Width)

\* poll_codec() with decode_from_buf(): it decodes when little is left of the
\* decoded text or the end has come, and hands on the characters that fit.
ReadCodec ==
    /\ loop = "filled" /\ codec /\ st \in {"reading", "slurping"}
    /\ LET becameEnd == ~isEnd /\ Unconsumed = <<>>
           decodes == becameEnd \/ (~isEnd /\ Len(decoded) < DecodeBelow)
           bytes == SubSeq(Unconsumed, 1, IF decodes THEN Decodable(Unconsumed) ELSE 0)
           text == decoded \o Decoded(bytes, becameEnd)
           units == SubSeq(text, 1, Fitting(text, dst))
       IN
       /\ isEnd' = (isEnd \/ becameEnd)
       /\ dec' = Fed(bytes)
       /\ consumed' = consumed + Len(bytes)
       /\ decoded' = SubSeq(text, Len(units) + 1, Len(text))
       /\ pre' = IF st = "slurping" THEN pre \o units ELSE pre
       /\ Deliver(units)
    /\ UNCHANGED <<sourceVars, growVars, buffer, prebufferTo, finished>>

\* poll_read() from the prebuffered contents.
ReadPrebuffered ==
    /\ st = "reading" /\ loop = "out" /\ isPre
    /\ LET k == Smaller(dst, Len(pre)) IN
       /\ Deliver(SubSeq(pre, 1, k))
       /\ pre' = SubSeq(pre, k + 1, Len(pre))
    /\ UNCHANGED <<sourceVars, growVars, readerVars, codecVars>>
-----------------------------------------------------------------------------
Init ==
    /\ total \in Totals
    /\ framed \in BOOLEAN /\ codec \in BOOLEAN
    /\ prebufferTo \in {0, Prebuffer}
    /\ given = 0 /\ leftover = <<>>
    /\ buffer = <<>> /\ cap = StartSize /\ expand = FALSE
    /\ consumed = 0 /\ finished = FALSE
    /\ dec = 0 /\ decoded = <<>> /\ isEnd = FALSE
    /\ isPre = FALSE /\ pre = <<>> /\ deadline = "never"
    /\ st = "fresh" /\ loop = "out" /\ dst = 0 /\ out = <<>>
    /\ ended = FALSE /\ empty = FALSE

SourceAnswers ==
    \/ TakeLeftover
    \/ \E n \in 1 .. total : SourceGives(n)
    \/ \E n \in 0 .. FrameSize : FrameArrives(n)
    \/ SourceEnds

Poll ==
    \/ UseBuffer \/ EnterRefill \/ ExitRefill
    \/ PrebufferDone \/ ReadPass \/ ReadCodec \/ ReadPrebuffered

Next ==
    \/ \E attempt \in BOOLEAN, when \in {"never", "armed"} : Configure(attempt, when)
    \/ \E room \in ReadSizes : StartRead(room)
    \/ TimedOut
    \/ Poll \/ SourceAnswers
    \/ SourcePends \/ SourceFails

Spec == Init /\ [][Next]_vars

\* A poll runs on once it is called, and the source, asked again and again,
\* answers at last: Poll is the task's own code, the rest is its source's.
FairSpec == Spec /\ WF_vars(Poll) /\ SF_vars(SourceAnswers)
-----------------------------------------------------------------------------
Busy == {"prebuffering", "slurping", "reading"}

\* The variables' types.  The buffer stays within the capacity of its UninitBuf
\* and nothing is consumed that is not there, as BodyReader::consume() asserts.
TypeOK ==
    /\ total \in Totals /\ given \in 0 .. total
    /\ {framed, codec, expand, finished, isEnd, isPre, ended, empty} \subseteq BOOLEAN
    /\ {buffer, leftover, decoded, pre, out} \subseteq Seq(1 .. total)
    /\ cap \in Nat /\ dec \in 0 .. total /\ dst \in Nat
    /\ prebufferTo \in {0, Prebuffer}
    /\ Len(buffer) <= cap /\ consumed \in 0 .. Len(buffer)
    /\ deadline \in {"never", "armed", "done"}
    /\ st \in Busy \cup {"fresh", "idle", "failed", "resumed"}
    /\ loop \in {"out", "in", "filled"}

\* A character cut off by the end waits in the decoder until it is told so.
Held == IF codec /\ ~isEnd /\ dec = total /\ total > 0 /\ ~IsLast(dec) THEN <<dec>> ELSE <<>>

\* Nothing is lost, repeated or moved on the way through buffers and codec: what
\* the reader got, what is in between and what the source has yet to give are
\* always the whole body, but when an empty frame ended it early.  Decoded text
\* that prebuffering left behind counts as in between: see ZeroIsEnd.
NothingLost ==
    ~empty =>
      out \o pre \o decoded \o Held \o Text(Unconsumed \o leftover \o Bytes(given, total))
        = Whole

\* Prebuffering and growth never run into the panic of reserve_if_needed():
\* doubling hits prebuffer_to exactly, whatever the sizes the source gives.
NeverFull == GoesOn => ~NoHeadroom

\* Without a CharCodec a read gives zero bytes only when all of the body was
\* read or prebuffered, but for empty DATA frames: leftovers of a frame, bytes
\* not consumed and errors and timeouts in between do not end it early.
EndIsTheEnd == ended /\ ~empty /\ ~codec => out \o pre = Whole

\* A read, or prebuffering, returns when the source answers at last: neither
\* the refill loop nor read_to_end() goes round for ever.
ReadReturns == st \in Busy ~> st \notin Busy

\* "If the returned amount is `0`, the end of the body has been reached"
\* (body.rs:588), for every reader: a user, the loops that send a body, and the
\* read_to_end() of prebuffering.  A CharCodec breaks it.
ZeroIsEnd == ended => out \o pre = Whole
=============================================================================
