----------------------------- MODULE BodyResend -----------------------------
(***************************************************************************)
(* What is sent of a request's body over the redirects and retries of one  *)
(* call: send_req() and BodyBuf in client/conn.rs, with what do_send() in  *)
(* client/agent.rs does to the body between two requests.  BodyBuf retains *)
(* what was read of the body, up to its capacity, so that a 307 or 308 can *)
(* send it again; the rest of the body is handed back with return_body.    *)
(*                                                                         *)
(* Abstractions.  The body's bytes, as they leave its codecs, are the      *)
(* numbers 1 .. Length.  A read takes any number of bytes up to Chunk,     *)
(* which stands for the growing UninitBuf and for readers that return less *)
(* than asked for.  Which errors are retried is the matter of Agent.       *)
(***************************************************************************)
EXTENDS Integers, Sequences

CONSTANTS
    Length,         \* the length of the body
    Capacities,     \* the values of redirect_body_buffer to consider
    Chunk,          \* the most that one read returns
    MaxRedirects,   \* bound: the redirects a call follows
    MaxRetries      \* bound: the retries it makes

ASSUME LengthAssumption == Length \in Nat /\ Chunk \in Nat \ {0}
ASSUME CapacityAssumption == Capacities \subseteq Nat
ASSUME BoundAssumption == MaxRedirects \in Nat /\ MaxRetries \in Nat

VARIABLES
    sized,      \* the body knows its length
    body,       \* the body of the request, with what was read of it
    cap,        \* the capacity of the BodyBuf
    retains,    \* its vec is not None
    vec,        \* its vec, <<>> if None
    readIdx,    \* its read_idx
    returned,   \* its return_body, EmptyBody if None
    useBuf,     \* send_req: use_body_buf
    early,      \* send_req: early_response is there
    wire,       \* what this request has sent of the body
    pc,         \* where the call awaits
    redirects,  \* the redirects followed so far
    retries,    \* the retries made so far
    cleared,    \* history: a 301 or 302 was followed
    kept        \* history: the request began with all that was read retained

bufVars == <<cap, retains, vec, readIdx>>
countVars == <<redirects, retries, cleared>>
vars == <<sized, body, bufVars, returned, useBuf, early, wire, pc, countVars, kept>>
-----------------------------------------------------------------------------
Bytes == 1 .. Length

\* The bytes from .. to, without from itself.
Run(from, to) == [i \in 1 .. to - from |-> from + i]

\* The caller's body or an empty one.  An absent return_body leaves do_send()
\* with the empty body of clone_to_empty_body().
Body == [orig : BOOLEAN, read : 0 .. Length]
EmptyBody == [orig |-> FALSE, read |-> Length]

Left == Length - body.read
DefinitelyNoBody == ~body.orig \/ (sized /\ Length = 0)
BufferLeft == Len(vec) - readIdx

PC == {"start", "sending", "ending", "awaiting", "failed", "done"}

TypeOK ==
    /\ sized \in BOOLEAN /\ retains \in BOOLEAN /\ useBuf \in BOOLEAN
    /\ early \in BOOLEAN /\ cleared \in BOOLEAN /\ kept \in BOOLEAN
    /\ body \in Body /\ returned \in Body
    /\ cap \in Nat /\ vec \in Seq(Bytes) /\ Len(vec) <= cap
    /\ readIdx \in 0 .. Len(vec)
    /\ wire \in Seq(Bytes)
    /\ pc \in PC
    /\ redirects \in 0 .. MaxRedirects /\ retries \in 0 .. MaxRetries

Init ==
    /\ sized \in BOOLEAN
    /\ body = [orig |-> TRUE, read |-> 0]
    /\ cap \in Capacities
    /\ retains = (cap > 0) /\ vec = <<>> /\ readIdx = 0 /\ returned = EmptyBody
    /\ useBuf = TRUE /\ early = FALSE /\ wire = <<>> /\ pc = "start"
    /\ redirects = 0 /\ retries = 0 /\ cleared = FALSE /\ kept = TRUE
-----------------------------------------------------------------------------
(***************************************************************************)
(* BodyBuf.                                                                *)
(***************************************************************************)
\* As if the capacity was off by one.
BufAppendOver(bytes) ==
    LET fits == retains /\ Len(bytes) <= cap - Len(vec) + 1
    IN  /\ retains' = fits
        /\ vec' = IF fits THEN vec \o bytes ELSE <<>>
        /\ readIdx' = IF fits THEN readIdx ELSE 0
        /\ UNCHANGED cap

\* append(): what does not fit makes the buffer let go of everything.  Its
\* read_idx is not read again then.
BufAppend(bytes) ==
    LET fits == retains /\ Len(bytes) <= cap - Len(vec)
    IN  /\ retains' = fits
        /\ vec' = IF fits THEN vec \o bytes ELSE <<>>
        /\ readIdx' = IF fits THEN readIdx ELSE 0
        /\ UNCHANGED cap

\* As if read_idx stayed where the last request left it.
ResetKeepIdx ==
    /\ body' = returned
    /\ returned' = EmptyBody
    /\ UNCHANGED bufVars

\* reset(true): the data is there to be read from its start.
ResetKeep ==
    /\ readIdx' = 0
    /\ body' = returned
    /\ returned' = EmptyBody
    /\ UNCHANGED <<cap, retains, vec>>

\* As if only the body was forgotten, not the data.
ResetClearBody ==
    /\ readIdx' = 0
    /\ body' = EmptyBody
    /\ returned' = EmptyBody
    /\ UNCHANGED <<cap, retains, vec>>

\* reset(false)
ResetClear ==
    /\ readIdx' = 0
    /\ vec' = <<>>
    /\ body' = EmptyBody
    /\ returned' = EmptyBody
    /\ UNCHANGED <<cap, retains>>
-----------------------------------------------------------------------------
(***************************************************************************)
(* send_req().                                                             *)
(***************************************************************************)
\* The head is sent; with no body the response is next.
Begin ==
    /\ pc = "start"
    /\ pc' = IF DefinitelyNoBody /\ vec = <<>> THEN "awaiting" ELSE "sending"
    /\ useBuf' = TRUE /\ early' = FALSE
    /\ kept' = (retains \/ redirects = 0)
    /\ UNCHANGED <<sized, body, bufVars, returned, wire, countVars>>

\* One turn of the loop takes bytes from the buffer,
TakeBuffered(n) ==
    /\ pc = "sending" /\ useBuf
    /\ n <= BufferLeft
    /\ readIdx' = readIdx + n
    /\ UNCHANGED <<body, cap, retains, vec, useBuf>>

\* As if only the first request filled the buffer.
TakeNewFirstOnly(n) ==
    /\ pc = "sending" /\ (useBuf => BufferLeft = 0)
    /\ n <= Left
    /\ useBuf' = FALSE
    /\ body' = [body EXCEPT !.read = @ + n]
    /\ IF redirects = 0 THEN BufAppend(Run(body.read, body.read + n)) ELSE UNCHANGED bufVars

\* or, once that has none, from the body, and retains them.
TakeNew(n) ==
    /\ pc = "sending" /\ (useBuf => BufferLeft = 0)
    /\ n <= Left
    /\ useBuf' = FALSE
    /\ body' = [body EXCEPT !.read = @ + n]
    /\ BufAppend(Run(body.read, body.read + n))

SendBuffered(n) ==
    /\ TakeBuffered(n)
    /\ wire' = wire \o SubSeq(vec, readIdx + 1, readIdx + n)
    /\ UNCHANGED <<sized, returned, early, pc, countVars, kept>>

SendNew(n) ==
    /\ TakeNew(n)
    /\ wire' = wire \o Run(body.read, body.read + n)
    /\ UNCHANGED <<sized, returned, early, pc, countVars, kept>>

\* send_data() fails after the bytes were taken.
ShipFails(n) ==
    /\ TakeBuffered(n) \/ TakeNew(n)
    /\ pc' = "failed"
    /\ UNCHANGED <<sized, returned, early, wire, countVars, kept>>

\* The loop is over: the rest of the body goes back through the buffer.
EndLoop(isEarly) ==
    /\ pc = "sending"
    /\ returned' = body
    /\ early' = isEarly
    /\ pc' = "ending"
    /\ UNCHANGED <<sized, body, bufVars, useBuf, wire, countVars, kept>>

BodyEnds ==
    /\ useBuf => BufferLeft = 0
    /\ Left = 0
    /\ EndLoop(FALSE)

\* The top of the loop finds the response there, before all is sent.
EarlyResponse == EndLoop(TRUE)

\* send_end() is through.
EndSent ==
    /\ pc = "ending"
    /\ pc' = "awaiting"
    /\ UNCHANGED <<sized, body, bufVars, returned, useBuf, early, wire, countVars, kept>>

\* The head is not sent, the body's reader fails, the end is not sent, or
\* there is an error for a response.
Fail ==
    /\ pc \in {"start", "sending", "ending", "awaiting"}
    /\ pc' = "failed"
    /\ UNCHANGED <<sized, body, bufVars, returned, useBuf, early, wire, countVars, kept>>
-----------------------------------------------------------------------------
(***************************************************************************)
(* do_send(), between two requests.                                        *)
(***************************************************************************)
Follow ==
    /\ pc = "awaiting"
    /\ redirects < MaxRedirects
    /\ redirects' = redirects + 1
    /\ pc' = "start"
    /\ wire' = <<>>
    /\ UNCHANGED <<sized, useBuf, early, retries, kept>>

\* 307 and 308
FollowKeepingBody == Follow /\ ResetKeep /\ UNCHANGED cleared

\* 301 and 302
FollowDroppingBody == Follow /\ ResetClear /\ cleared' = TRUE

\* next_req has an empty body; the buffer is left as it is.
Retry ==
    /\ pc = "failed"
    /\ retries < MaxRetries
    /\ retries' = retries + 1
    /\ pc' = "start"
    /\ body' = EmptyBody
    /\ wire' = <<>>
    /\ UNCHANGED <<sized, bufVars, returned, useBuf, early, redirects, cleared, kept>>

\* The response or the error goes to the caller.
Finish ==
    /\ pc \in {"awaiting", "failed"}
    /\ pc' = "done"
    /\ UNCHANGED <<sized, body, bufVars, returned, useBuf, early, wire, countVars, kept>>

Next ==
    \/ Begin \/ BodyEnds \/ EarlyResponse \/ EndSent \/ Fail
    \/ \E n \in 1 .. Chunk : SendBuffered(n) \/ SendNew(n) \/ ShipFails(n)
    \/ FollowKeepingBody \/ FollowDroppingBody \/ Retry \/ Finish

Spec == Init /\ [][Next]_vars
-----------------------------------------------------------------------------
(***************************************************************************)
(* Properties.                                                             *)
(***************************************************************************)
\* Whatever was redirected or retried, a request never sends a byte of the
\* body twice, or out of order, or leaves one out between two (conn.rs:197-241).
SentInOrder == \A i \in 1 .. Len(wire) - 1 : wire[i + 1] = wire[i] + 1

\* A request that sent its body to the end sent all of it, the first one and
\* any that follows 307s and 308s while the buffer had not let go of what was
\* read, even if an earlier response came early (conn.rs:216-236, agent.rs:392).
ResendsWhole ==
    pc = "awaiting" /\ ~early /\ ~cleared /\ retries = 0 /\ kept => wire = Run(0, Length)

\* Once a 301 or 302 was followed nothing of the body is sent again, not by a
\* retry or a later 307 either (agent.rs:388-392, conn.rs:371-387).
NothingAfterClear == cleared => wire = <<>>

\* "This parameter sets how much body data we should retain in memory in case
\* of a re-send before 'letting go' and not being able to respond with a body to
\* 307/308." (reqb_ext.rs:304-306): a 307 or 308 gets the original body or none.
NoTruncatedBody ==
    pc = "awaiting" /\ ~early /\ retries = 0 => wire \in {<<>>, Run(0, Length)}
=============================================================================
