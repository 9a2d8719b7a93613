# A TLA+ development of hreq

hreq is an asynchronous HTTP client and server for Rust. This directory holds
TLA+ modules translated from its source, the TLC configurations that check
them on small instances, and proofs of their main properties for every value
of their constants, checked by TLAPS. Paths below are relative to `src/src/`.

## 1. The system

| component | state it keeps | operations | works with |
|---|---|---|---|
| Agent, `client/agent.rs` | pool of connections, cookie jar, redirect and retry settings; per call: budgets, the next request, the connection in use | setters, `send()`, the loop of `do_send()` | connect, Connection, Cookies, BodyBuf, Deadline |
| client Connection and BodyBuf, `client/conn.rs` | identity, host, protocol, count of unfinished requests; retained body bytes, read index, the returned body | `send_request`, `send_req`, `BodyBuf::{append, read, reset}` | Body, BodySender, the h1/h2 libraries |
| client connect, `client/mod.rs` | the task that drives the connection | `connect`, `open_stream` | runtime, TLS, bandwidth monitor |
| Cookies, `client/cookies.rs` | a jar for each domain | `add`, `get`, domain validation | URI helpers |
| Deadline, `deadline.rs` | start and timeout of a request | `race`, `delay_fut` | runtime timers |
| Body, BodyReader, codecs: `body.rs`, `body_codec.rs`, `uninit.rs`, `charset.rs`, `from_utf8.rs` | codec, charset decoder, prebuffered bytes, deadline, share in the connection's count | `configure`, `attempt_prebuffer`, `poll_read`, `read_to_*`, `read_and_discard` | h1/h2 receive streams, bandwidth monitor |
| BodySender, `body_send.rs` | stream to send on | `send_data`, `send_end` | h1/h2 |
| Bandwidth monitor, `bw.rs` | ping outstanding, bytes since it, the BDP estimate | `append_read_bytes`, `poll_window_update` | h2 pings |
| Server listener and Driver, `server/mod.rs`; ServerHandle, `server/serv_handle.rs` | listen, connection and request tasks; reference counts of `Driver` and `EndFut`; the signal | `do_listen`, `connect`, `handle_incoming`, `shutdown` | router, server connection, runtime |
| server Connection, `server/conn.rs` | the h1/h2 connection | `accept`, `send_response` | Body, BodySender, bandwidth monitor |
| Router, Route, ParsedPath, Chain, Reply: `server/router.rs`, `route.rs`, `path.rs`, `chain.rs` | endpoints in order, prefix, middlewares of a route | `at`, `reset`, `add_handler`, `middleware`, `router`, `run` | the server, handlers, middleware |
| Static, `server/statik.rs`, `server/limit.rs`, `server/peek.rs` | length and time of the open file, range, peeked bytes, bytes left | `call`, `handle`, `into_response_io`, `create_body`, `poll_read`, `poll_seek` | file system, Body |
| Runtime, `async_impl.rs`, `block_ext.rs` | three process-wide mutexes, poisoned or not | `make_default`, `spawn`, `block_on` | tokio, every other part |
| request parameters, `params.rs`, `client/reqb_ext.rs`, `server/serv_req_ext.rs`, `server/resb_ext.rs` | charset, compression and prebuffering settings of a message | setters, `CharsetConfig::resolve`, `Body::configure` | Body, both connections |
| URIs, TLS, errors | none | pure functions, configuration | all of them |

What is hard in it:

- **Ownership across awaits.** `send()` moves the cookie jar into its future
  and back. `do_send()` holds a connection of the pool while it awaits; a
  deadline or a dropped future stops it anywhere. A response body leaves the
  call and keeps a share of the connection's count until a read gives zero bytes.
- **Budgets.** Redirects and retries share a loop, each with an `i8` that is
  given as a `u8`, decremented and compared in two different ways.
- **Resending a body.** What a 307 sends is put together from a bounded buffer
  and the rest of a reader that was given back, over several redirects,
  retries and early responses.
- **Shutdown by reference counts.** Nothing counts the tasks of a server: the
  confirmation of a shutdown is a channel that breaks when the last clone of
  an `Arc` goes, in whichever task that is.
- **Boundaries of the readers.** A read of zero bytes means the end, at every
  layer; buffers grow by doubling to exact limits.
- **Estimates.** Bytes are counted by any reader between a ping and its pong,
  and the window that follows from them is given to a library that may refuse.
- **Locks over futures.** `block_on()` holds a mutex while a future of the
  caller runs, and that future may call hreq again, on the same thread.
- **Files that change.** Length and time are read once; the bytes are read
  later, past readers that peek, seek and limit.
- **Settings from four places.** What a text is converted from and to depends on
  the head, on calls at either end, on the kind of body and on defaults, and
  decides what length may be announced.

What makes the components correct: budgets are honoured whatever is mixed;
nothing is sent twice that must not be; no failed connection is pooled; cookies are neither lost nor late; a resent body is the
body; a confirmed shutdown means quiet, and comes; a reader delivers all bytes
in order and says the end once; a window only grows; the runtime's three mutexes
agree, what panics has a cause that is known, and threads block each other for
ever only where they switch runtimes or nest; a request goes to the earliest registration that
stands; a file's response is what was asked for, at the length it announced; a
text arrives, in the encoding asked for; what is no UTF-8 is replaced
and nothing else.

## 2. Modules

| module | what it is |
|---|---|
| `Agent` | the client's loop, its pool, its cookie jar |
| `AgentProofs` | theorems about `Agent` |
| `MCAgent` | `Agent` for TLC |
| `BodyResend` | `send_req()`, `BodyBuf` and the resending of a body |
| `BodyResendProofs` | theorems about `BodyResend` |
| `BodyReading` | the body's readers: buffer, prebuffering, transcoding, deadline |
| `BodyReadingProofs` | theorems about `BodyReading` |
| `Shutdown` | abstract: what a `ServerHandle` promises |
| `ServerLifecycle` | the listener, connection and request tasks, the reference counts, the shutdown |
| `ServerLifecycleProofs` | theorems about `ServerLifecycle`, the refinement of `Shutdown` included |
| `MCServerLifecycle` | `ServerLifecycle` for TLC |
| `Bandwidth` | the bandwidth monitor and the windows it gives to h2 |
| `Runtime` | the process-wide mutexes; threads that spawn, block and switch |
| `Routing` | registration of routes, and the dispatch of a request |
| `RoutingProofs` | theorems about `Routing` |
| `MCRouting` | `Routing` for TLC: the paths |
| `StaticFiles` | a request for a file, while the file changes |
| `StaticFilesProofs` | theorems about `StaticFiles` |
| `Message` | parameters, conversions, compression and length of a message from end to end |
| `MessageProofs` | theorems about `Message` |
| `LossyText` | the replacement of what is no UTF-8 |
| `MCParts` | `Bandwidth`, `Runtime`, `Routing`, `StaticFiles`, `Message` and `LossyText` for TLC |
| `PartsProofs` | theorems about `Bandwidth`, `Runtime` and `LossyText`, and about the types of all parts of `MCParts` |

`PROJECT.json` maps each definition to its lines. Definitions that begin with
"As if" in their comment and end in the name of a defect (`DecrNever`,
`AcceptNoClone`) are variants with a plausible bug, against which the
properties are tried; no specification uses them.

### Agent

One call of `send()` at a time, as `&mut self` demands. `pc` is where
`do_send()` awaits: `connect`, `sending` (`send_request`), `discard` (the body
of a redirect) or `backoff`. An action is what runs from one await to the next:

| code | action |
|---|---|
| `redirects()`, `retries()`, `pooling()`, `cookies()` | `SetRedirects`, `SetRetries`, `SetPooling`, `SetCookies` |
| `send()` to the first await | `Send` |
| `connect(..).await?` | `Connected` (with the push to the pool and the start of the request, which follow without an await), `ConnectFailed` |
| a response | `FinalResponse`, `RedirectsExhausted`, `BadLocation`, `FollowRedirect` |
| `read_and_discard()` and `retain` | `Discarded`, `DiscardFailed` |
| an error, `retries -= 1` | `RequestFailed`, `RetriesOverflow`, `RedirectsOverflow` |
| the backoff timer | `BackoffDone` |
| `deadline.race` | `DeadlinePassed` |
| the future of `send()` is dropped | `DropSend` |
| the user reads an earlier body to its end, or drops it | `BodyRead`, `BodyDropped` |
| a read of an earlier body gives zero bytes before its end | `ZeroRead` |

`unfin` is the strong count of `unfinished_reqs` less one. A connection's
`state` is what happened on it; the code has no such field. The two are not the
same: the body gives up its share of the count at the first read of zero bytes
(`body.rs:859`), which is not always the end. A buffer of no length gives
one, and so does a `CharCodec` that has part of a character (finding 5); for
the same reason `read_and_discard()` may stop early (`Discarded(FALSE)`).
`known` and `lost` are history. `reuse_from_pool()` has no effect on the loop,
because the code discards its result; its filter is `PoolMatch`, which
`PoolingReuses` is about. That the filter only offers connections that are free
is not stated, for it is not so (see below).
The request's body is left to `BodyResend`, which pays no attention to which
errors are retried: each has the other's choices as inputs, so `BodyResend`
allows every sequence of redirects and retries `Agent` can make.

### BodyResend

The bytes of the body are the numbers `1 .. Length`. A turn of the loop of
`send_req()` is `SendBuffered` or `SendNew`, `ShipFails` if `send_data()`
fails; the top of the loop may find an early response (`EarlyResponse`), the
end of the body is `BodyEnds`; `EndSent` is `send_end()`. `Follow...` and
`Retry` are what `do_send()` does to buffer and body before the next request:
`BodyBuf::reset(true)` for 307 and 308, `reset(false)` for 301 and 302, and
nothing for a retry, whose request has the empty body of
`clone_to_empty_body()`. `kept` is history.

### BodyReading

The bytes of a body are numbers, a character is the number of its last byte.
`st` is what is done with the body: `prebuffering` and `slurping` are the two
halves of `attempt_prebuffer()` (fill the reader's buffer; if that is all,
`read_to_end()` through the codec), `reading` is a read of the caller's, `idle`
between reads. `loop` is where in a poll it is, so that a poll that pends
(`SourcePends`) starts over, at the deadline (`TimedOut`), with whatever the
buffer has by then.

| code | action |
|---|---|
| `Body::configure()` | `Configure` |
| `Body::attempt_prebuffer()` | `PrebufferDone`, and `Deliver` while `slurping` |
| `Body::poll_read()` | `StartRead`, `TimedOut`, `ReadPrebuffered`, `Deliver` |
| `BodyReader::poll_refill_buf()` | `UseBuffer`, `EnterRefill`, `ExitRefill`, `Delegates` |
| `BodyReader::poll_read_underlying()` | `TakeLeftover`, `SourceGives`, `FrameArrives`, `SourceEnds`, `SourcePends`, `SourceFails` |
| `BodyReader::poll_read()`, `consume()` | `ReadPass` |
| `CharCodec::poll_codec()`, `decode_from_buf()` | `ReadCodec` |
| `UninitBuf::poll_delegate()`, `reserve_if_needed()` | `Filled`, `NotFilled`, `Capacity`, `NoHeadroom` |

The source is outside: HTTP/2 gives frames, of zero bytes too, everything else
any number of bytes. gzip is left out. Where `reserve_if_needed()` panics the
model stops, and `NeverFull` says that it does not. `Sizes` are the capacities
that doubling goes through from `StartSize` to `Prebuffer` (1 KiB to 256 KiB in
the code), which must be on that way; that is the assumption `NeverFull` needs.

### ServerLifecycle and Shutdown

A socket goes from the backlog to the `hello` of `connect()`, then to the loop
of `handle_incoming()`; a request is sent, run and answered. `EndFut::race`
polls its two futures in turn, and the signal may come between the two polls:
hence `accepting`/`asked` for the listener and `serving`/`asked` for a
connection (`AcceptPends`, `ListenerSleeps`, `ListenerStops`, and `ConnPends`,
`ConnSleeps`, `ConnStops`). `driverRefs` and `endRefs` are the strong counts
of `Arc<Driver>` and of the confirmation's `Arc<Sender>`, changed where the
code clones and drops. `Dial` and `SendRequest` are what clients do.
`Shutdown` forgets the counts and has a set of running tasks.

### Bandwidth

| code | action |
|---|---|
| `append_read_bytes()` | `DataRead` |
| `poll_window_update()` without a ping out | `SendPing`, which h2 may refuse |
| h2 | `PingReturns`, with a pong or an error |
| `poll_window_update()` with a pong, `Bdp::update()` | `SampleAtLimit`, `SampleSlower`, `SampleSmall`, `SampleRaises`, one for each of its returns |
| the new window in `connect()` and `do_listen()` | `GiveWindow`, in `SampleRaises` |

A round trip and a bandwidth are `f64` in the code and fractions here, compared
by cross-multiplication. `counted` and `samples` are history. A sample is what
was read since the pong before it: the bytes read after that pong and before
the next ping count too, though the comment of the field says "since
`ping_sent`" (`bw.rs:110`).

### Runtime

A thread is at the mutex it waits for, and an action goes from there to the
next wait: `SpawnReads` and `BlockReads` are `current()`, `Spawned` is the rest
of `spawn()`, `Drive` and `Driven` the start and the end of the future in
`block_on()`. In between, the thread makes further calls with `RUNTIME` held:
these are what the future does. `make_default()` is `SwitchStarts`,
`TakesRuntime`, `DropsHandle`, `Points`, `Puts`, one for each mutex it waits
for. A panic (`SpawnPanics`, `BlockPanics`, `SharePanics`, `PoisonPanics`)
poisons what the thread holds, and the next to lock that panics too. A future
that panics itself is `DrivenPanics`: it unwinds through `block_on()` with the
guard of `RUNTIME` (`async_impl.rs:284-286`). `nested` and `crashed` are history.

### Routing

A path is a sequence of pieces, and a matcher is the set of paths it matches;
the names of wildcards are forgotten by `Shape`, as by `Segment::eq()`, so that
registering `/:y` overwrites `/:x`. `At`, `AddMiddleware`, `Method`, `Mount`
and `Listen` are the calls of a program; `RouterRuns`, `MiddlewareRuns` and
`EndRuns` are the dispatch of a request, through a router that is mounted, too.
`log` is history: the properties say what happens to a request in terms of the
calls that were made, not of the endpoints the router keeps.

### StaticFiles

A byte is its offset in the file, so that a reader that seeks, peeks and limits
can be told from one that mixes them up.

| code | action |
|---|---|
| `call()`, `handle()`, `Dispatch::new()` | `StaticRequest`, with the errors of paths and methods and the overflow of a range's end |
| `into_response_io()` | `OpenFile` (errors, 304), `PeekText`, `PeekedText` |
| `create_body()`, `poll_seek()` | `CreateBody` |
| `attempt_prebuffer()` | `Prebuffer`, `PrebufferEnds` |
| `SendResponse::handle_response()` | `SendBody`, `SendEnds` |
| others | `FileChanges`, `Tick` |

Which path escapes the root, and what `resolve_path()` does to it, is an input:
`resolve_path()` is a function of the path and of the file system.

### Message

A text is what it is encoded in, how often it is compressed, its size, whether
it is still what it was, and whether the end of it is still there; so the wrong
conversion can be told from the right one. `Conversions` is what `CharCodec`
makes of a text until it first returns zero bytes: with a source that gives part
of a character, or a buffer with less room than one, that is before the end
(finding 5), so any size up to the full one may come out, at the sender, where
prebuffering and sending both read to the first zero, and at the receiver. A sender makes calls (`CharsetEncode`, `CharsetEncodeSource`,
`ContentEncode`, `PrebufferBody`), and composes and sends (`Compose`, `Send`,
whose `Framed` is `configure_request()` and `configure_response()`, with the 304
that gets no length, no transfer-encoding and no content-type); a receiver
makes calls (`CharsetDecode`, `CharsetDecodeTarget`, `ContentDecode`) before, if
it is a client, or after the message came, if it is a server, which undoes and
remakes the codecs each time; `Receive` and `Read` are the rest. `Read` is
`read_to_vec()` or `read_to_string()`; the latter takes the encoder away, so its
text is UTF-8 whatever the target, and it fails (`failed`) on bytes that no codec
converts and that are not UTF-8. `Asked`,
`DecodingOff` and `Target` read what was asked for off the list of calls, and
do not look at the parameters the code keeps.

### LossyText

`TextIsValid`, `ReplaceBytes` and `ReplaceAtEnd` are the three ways on from
`std::str::from_utf8()` in the loop of `from_utf8_lossy_replace()`, over bytes
of five kinds: ASCII, the starts of characters of two and of three bytes, their
continuations, and one that UTF-8 never has.

### MCParts

The six modules above share no state, so checking all their combinations would
multiply states and show nothing. `MCParts` runs them one at a time: in a
behaviour one part moves (`part`), from each of its initial states, and the
others stay where they are. Each property then speaks of one part, and each
part is explored in full. What does interact is modelled together: head, codecs
and body of a message at both its ends in `Message`; file, readers, prebuffer
and sending in `StaticFiles`; routers, middleware and the listening server's
copy in `Routing`; every thread of the program in `Runtime`.

## 3. Runs

| run | instance | shows |
|---|---|---|
| `agent` | 2 hosts, 2 connections, `i8` of 3 bits (-4..3), amounts 2 and 4, debug build | the safety of the client's loop |
| `agent_live` | 1 host, 2 connections, amounts 0 and 2, release build | calls return |
| `server_lifecycle` | 2 sockets, 2 requests | counts, quiet shutdown, refinement, `shutdown()` returns |
| `body_resend` | body of 4, reads of up to 2, buffers of 0, 2 and 4, 3 redirects, 2 retries | what is sent of a body |
| `body_reading` | bodies of 0, 3, 5 and 9 bytes with characters of 1 to 3 bytes, the last one cut off in that of 9; a buffer that doubles from 1 to a prebuffer of 4 and on to 8; frames of up to 3; reads of 1 and 3 | what is read of a body |
| `parts` | `MCParts`: windows up to 16, round trips of 1 and 20, reads of 1 and 4 up to 9 bytes, 3 samples; 3 threads, one inside tokio, 2 calls each, 1 switch; a server and one router to mount, 2 middlewares, 4 registrations; files of up to 3 bytes, buffers of 2, `u64` of 0..7, 1 change, 2 requests; 2 encodings, 2 settings; lossy bodies of up to 4 bytes | the parts that share no state |
| `pooling_reuses` | as `agent_live` | finding 1 |
| `retries_disabled` | as `agent_live` | finding 2 |
| `shutdown_exits` | as `server_lifecycle` | finding 3 |
| `body_truncated` | as `body_resend` | finding 4 |
| `zero_is_end` | as `body_reading`, reads of 2 and 3 | finding 5 |
| `nested_router` | `Routing` as in `parts` | finding 6 |

Why the bounds are enough. Two hosts tell a redirect to the same host from one
to another and cookies of one from the other's; two connections let an earlier
body hold one while a call uses the other, and a third would only repeat the
first. `Half = 4` makes the amount 4 the one that wraps to the least integer
and overflows at the first decrement, as 128 does for an `i8`, and 2 an
ordinary budget that can be spent. Two sockets and two requests give every
order in which the last holder of a count can be a listener, a connection or a
request, and two requests on one connection or on two. Buffers of 0, 2 and 4
for a body of 4 read in pieces of 1 or 2 hold nothing, let go in the middle,
and hold everything; three redirects allow a 307 after a 307 after a 301 in
any order. Bodies of 3, 5 and 9 bytes are less than the prebuffer of 4, more
than it, and more than all the buffer may grow to, so that each limit is met;
reads of 1 are smaller than a character of the output (2), reads of 3 hold one
and a half. The proofs have none of these bounds.

In `parts`: a limit of 16 is reached with samples that are small, large enough
and cut by it, and round trips of 1 and 20 put a slow one after a fast one.
Three threads let two block or switch while the third, inside tokio, makes
`TokioShared` the default; two calls let a future that is driven call again;
one switch is enough for every deadlock of `DeadlockNeedsSwitch`, which takes a
switch and a `block_on()`. Four registrations are what a mount with a handler
on each side needs, and what overwriting does, with two wildcards that differ
in their names; the router that is mounted has a path of its own and one that
takes anything; two middlewares on a route have an order. A file of 3 bytes is longer than the peek buffer and the prebuffer
of 2, and as long as neither; the ranges are one inside, one that ends before
it starts, and one whose end is the largest integer and wraps; two ticks a
second let a change come within the second of the one before; one change and two
requests let the copy of the first be asked about in the second. Two encodings and
two settings are an encoding switched off and on, or set and switched. Bodies
of four bytes of five kinds hold a character of three and a cut-off one.

`server_lifecycle`, `body_resend`, `body_reading` and `parts` do not check for
deadlock: a server whose sockets are used up and which was never told to stop
has nothing left to do, a call that returned is over, and so is a body whose
prebuffering failed, a thread that has made its calls, a request that was
answered and a text that was read. Deadlocks of the runtime's threads are what
`DeadlockNeedsSwitch` and `BlockReturns` are about.

Properties of the `agent` run: budgets (`RedirectBound`, `RetryBound`,
`RedirectsHonoured`), no resend of what is not idempotent
(`NonIdempotentOnce`), the pool (`NoFailedPooled`), the jar (`CookiesRestored`,
`CookiesSent`). `RetryBound` counts as the docs do by their example, which lists
four backoffs for the default of 5: `retries(n)` allows n - 1 retries, although
the comment at `agent.rs:98` speaks of the "number of retry attempts".

Properties of the `parts` run, by part: `WindowNeverShrinks` (Bandwidth);
`SingletonsAgree`, `FailuresHaveCause`, `DeadlockNeedsSwitch` and `BlockReturns`
(Runtime);
`DispatchFollowsRegistrations` and `ParamsRebuildPath` (Routing);
`DeliversWhatWasAsked`, `PromiseKept` and `NotModifiedIsCurrent` (StaticFiles);
`TextArrives` and `LengthIsTrue` (Message); `InvalidReplaced` (LossyText).
Several have a hypothesis that says where the code does not keep them, and
each is one of the divergences listed below: `PromiseKept` (the file changed
and the body was too long to prebuffer), `TextArrives` (`ConvertsText`, no
conversion of what is compressed or no text; and of what is converted, at either
end, the end may be missing), `FailuresHaveCause` and `BlockReturns` (a panic in a
driven future poisons `RUNTIME`), `InvalidReplaced` (no character
cut off by the end), `LengthIsTrue` (a redirect of unknown length),
`PanicOnlyUnderWildcard` (some router was mounted at a path with a wildcard:
which one need not be the one that panics, for the prefix that a router has
kept is looked for in a path that another one has put together).

### Fairness

- `Agent`: weak fairness of the two timers (`BackoffDone`, `DeadlinePassed`),
  which the runtime fires. Nothing of the network or the user. A call without
  a timeout may wait for ever, so `AnsweredSendReturns` states the network's
  fairness as its hypothesis.
- `ServerLifecycle`: weak fairness of the polls of each task and of the retry
  timer, since the runtime polls a task that was woken. Strong fairness of
  `PollAccept`: a poll of `accept()` may fail again and again without being
  continuously ready to succeed, but not for ever. `ShutdownReturns` has as
  hypotheses that handlers return (`HandlersFinish`) and that clients say
  hello or go away (`ClientsSpeak`); without the second it is false, which is
  finding 3. A finite number of connections is part of the model: the race
  polls `accept()` first, so an endless stream of connections could keep the
  listener from the signal.

- `BodyReading`: weak fairness of `Poll`, the code of the task that reads, and
  strong fairness of `SourceAnswers`: a source may pend time and again, but
  not for ever. Errors and the deadline need not come.

- `Runtime`: weak fairness of each thread once it is in a call: the operating
  system schedules threads, and the futures that are driven come to an end,
  for which `block_on()` waits by contract. Nobody has to make a call.
  `BlockReturns` has the hypotheses that nobody switches or nests, as threads can
  then wait for each other for ever, and that no driven future panics, as every
  later `block_on()` then panics. `DrivenPanics` is under no fairness: futures may
  never panic. Weak fairness of a thread does not
  promise it a mutex that others take again and again; calls are bounded, so
  here that cannot go on for ever, and the property asks for the moment when
  all have returned.

### Findings

1. `pooling_reuses`: `reuse_from_pool()` shadows what it found with `None`
   (`client/agent.rs:180`): connections are pooled and never reused.
2. `retries_disabled`: `retries(0)` does not disable retries
   (`client/agent.rs:100` against `:436`).
3. `shutdown_exits`: a client that connects and stays silent keeps
   `shutdown()` from returning (`server/serv_handle.rs:32` against
   `server/mod.rs:551`).
4. `body_truncated`: a 307 may be given the tail of a body as the body
   (`client/reqb_ext.rs:304` against `client/conn.rs:245`).
5. `zero_is_end`: a transcoded body reads as ended when the source gave part of
   a character, or when there is less room than the next character needs
   (`body.rs:588` against `charset.rs:119`). The second case needs no odd
   caller: `read_to_end()` in `attempt_prebuffer()` starts with a vector of as
   many bytes as the body has, and a text that grows in transcoding can leave
   one byte of it; what is left behind in `decoded` is then never sent.

6. `nested_router`: a router that is mounted at a path is reached by that path
   only, so the route `/much/hello/<name>` that `server/router.rs:44` promises
   is answered 404: the expression of the mount's path is anchored at its end
   (`server/path.rs`, `server/router.rs:126`).

Seen while modelling, without a run: a read after a read that reported the
deadline polls a future that has completed, and panics (the state `resumed`);
a 301 or 302 keeps the method, where `client/reqb_ext.rs:291` speaks of GET;
the headers of a hop carry the cookies of the hops before it; dropping the
future of `send()` loses the jar. And, with the parts of the `parts` run:

- Any read of zero bytes takes the body's share of the connection's count away
  (`body.rs:860`), with an empty buffer or before the end of a transcoded body
  too, and so does dropping a body unread. The pool's filter would then offer an
  HTTP/1 connection that is still in the middle of a response, where
  `body.rs:750` says "we can't reuse the connection until the previous body has
  been exhausted". As nothing is reused (finding 1), nothing comes of it yet.
- A panic in a future that is given to `block()` unwinds with the guard of
  `RUNTIME` (`async_impl.rs:284-286`), and from then on every `block()` of the
  process panics, on any thread; `spawn()` goes on working.
- A transcoded body may lose its tail on the way, by the reads of zero bytes of
  finding 5: at the sender, where the content-length of a prebuffered body is
  then that of what is left of it, and at the receiver.
- `read_to_string_lossy()` of a body that ends inside a character replaces the
  byte before it, which was valid, and then finds the same bytes again, for
  ever; with no byte before it the index underflows (`from_utf8.rs:27`).
- An outgoing body that is both converted and compressed is compressed first:
  `poll_read()` puts the conversion on top of the gzip encoder, and converts
  compressed bytes (`body.rs:848`). With `content_decode(false)` a receiver
  likewise converts what is still compressed.
- `charset_encode_source()` and `charset_decode_target()` also convert bodies
  that are no text, where the docs speak of `text/` only (`params.rs`).
- A label that is not known is ignored in a request's `charset_encode_source()`
  and panics in a response's (`server/resb_ext.rs:225`).
- A server's `charset_decode(false)` switches the target off, which a later
  `charset_decode_target()` switches on again; a client's does not.
- With a target that is the charset of the message and not UTF-8 there is no
  codec, so `read_to_string()` is given that charset, and fails.
- A redirect with a body of unknown length is sent on HTTP/1 with neither a
  content-length nor chunked (`server/conn.rs:268`).
- The range `bytes=0-18446744073709551615` panics in a debug build and is
  refused in a release build (`server/statik.rs:323`). A range of a file that
  shrank, when it was prebuffered, has a content-length shorter than its
  content-range.
- `block_on()` and `spawn()` that read `CURRENT_RUNTIME` before another thread's
  `make_default()` and `RUNTIME` or `HANDLE` in the middle of it find none, and
  panic (`async_impl.rs:223`); `block_ext.rs:13` names `TokioShared` alone.
- `read_to_vec(usize::MAX)` adds one to its limit (`body.rs:641`).
- A router mounted at a path with a wildcard trips the assertion of
  `server/router.rs:119`.

## 4. Proofs

Every safety invariant and every action property that a passing run checks is
also a theorem, and so is the refinement of `Shutdown`. A theorem holds for all
constants that satisfy the modules' assumptions, which TLC evaluates in the runs:

| module | assumed of its constants |
|---|---|
| `Agent` | `Half` is a positive number and the amounts fit twice it, the defaults are among them, `NoConn` is no connection, there is a host |
| `ServerLifecycle` | the sets of sockets and requests are finite, which cardinalities need |
| `BodyResend` | lengths and bounds are natural numbers, a read returns at least a byte |
| `BodyReading` | the last byte of a character has a positive number, as bytes are counted from 1, doubling from `StartSize` comes to `Prebuffer`, and `MaxSize` is larger |
| `Bandwidth` | the limit is even and round trips are positive |
| `Runtime` | `NoThread` is no thread |
| `Routing` | paths and targets are sequences of strings, a router is not called `"handler"`, a wildcard takes one piece or the rest and not both, and no path names a parameter twice, for which `Regex::new()` fails and `ParsedPath::parse()` panics |
| `StaticFiles` | a second has ticks, a range is of two `u64`, and no file is as long as the largest `u64` |
| `Message` | a text has a positive size in each encoding, and no encoding is called like a setting |

- **Agent.** The inductive invariant joins `TypeOK` to what each property
  needs to survive a step (`AgentProofs`): the redirects followed are those
  allowed less the budget left, and likewise the retries (`RedirectInv`,
  `RetryInv`); the call holds a busy connection exactly in `sending` and
  `discard` (`LocalsInv`); the cookies stored are in the jar or held by the running
  call (`CookieInv`). `RedirectsHonoured` is an action property, proved from
  the same invariant.
- **ServerLifecycle.** `RefCounts` is nearly inductive by itself: with it, the
  listener's life gives `endRefs`, and each step changes one task and one
  count. Two lemmas say what adding and removing an element does to the two
  cardinalities. `ConfirmedIsQuiet` follows because a confirmation needs
  `endRefs = 0`, hence no driver, hence no task, and no step starts a task
  when there is none and the listener is closed. The same facts show that
  each step is a step of `Shutdown` or a stutter.
- **BodyResend.** The invariant says that the buffer, when it retains, is the
  prefix of the body that was read, that the body at hand goes on where that
  prefix ends, and that the wire is a run of consecutive bytes that ends at
  the read index or at what was read. After a retry the body at hand may be
  the empty one, and only order is left; the invariant keeps the two cases
  apart. Sequences are related by two named operators on their elements so
  that the lemmas on concatenation and sub-sequences need no quantifier.

- **BodyReading.** `NeverFull` needs only that while it prebuffers the capacity
  is one of `Sizes`, and is not doubled once more when it is `Prebuffer`
  (`GrowInv`). The rest is said with two places in the body (`Placed`): up to
  `p1` the bytes were taken from the buffer, up to `p2` they are in it, and up
  to `given` they are leftovers of a frame. What was read, prebuffered or
  decoded is what is made of the first `p1` bytes (`Got`): with a codec the
  characters they complete and, once the decoder was told of the end, the one
  that is cut off; without one the bytes. `Control` says how far the flags and
  the place in a poll put `p1` and `p2`. Each step moves one of the places, so
  `NothingLost` holds with and without a codec, `TypeOK` with it, and a read of
  zero bytes means that both places are the end (`EndIsTheEnd`). What the codec
  needs is that the characters of two runs of bytes are those of the first and
  those of the second (`AmongConcat`): `Among` puts an element where the number
  of chosen ones before it says, so that the lemmas are about cardinalities; that
  each rank is taken (`NthIsThere`) is an argument about the least place up to
  which so many are counted (`Least`), where one would otherwise use induction.
- **Bandwidth.** Type correctness, the evenness of the estimate included, and
  with it that a sample that counts is at least two thirds of the estimate, so
  that its double is no less.
- **Runtime.** The invariant says which thread holds what where it is
  (`LockInv`), what `RUNTIME` and `HANDLE` have while `make_default()` is in the
  middle of its steps (`PointInv`) and before the first use (`UnsetInv`), and
  that without a switch nobody is in the middle of one, nor blocks inside tokio
  without a nested call (`CauseInv`). With these `FailuresHaveCause` is
  inductive: a driven future that panics leaves `RUNTIME` poisoned and nobody
  driving (`CrashPoisons`), and any other panic is of a thread that finds
  `RUNTIME` poisoned (`PanicHasCause`). `DeadlockNeedsSwitch` follows
  from who can hold what: a set of threads that wait for each other has one that waits for
  something held, whose holder is in the set, and following the holders through
  the three mutexes, of which only `RUNTIME` is held by a thread that is not
  switching, ends at a thread that drives a future.
- **StaticFiles.** What is delivered is followed along one reader (`DeliverInv`).
  `RequestInv` keeps what was asked and announced, `ReaderInv` says that the
  peeked bytes are the first of the file, and `PlaceInv` where the readers are:
  before the body nothing is read and the position is after what was peeked;
  while it is read, what was read is the run of bytes from the start of the
  range, what is left of the peeked bytes lies between it and the position, and
  the limit and what was read add up to the range. Hence
  `DeliversWhatWasAsked` whatever the file does meanwhile, and `PromiseKept`
  when it keeps its length or the body was prebuffered whole (`FileInv` and
  `AnswerInv` tie the announced length to what there is).
  `NotModifiedIsCurrent` holds for any clock and any changes: the date that is
  asked with is that of the client's copy, the copy stays until the response is
  over, and a difference of less than a second that is not negative puts both
  times into one second. Its reverse, a difference in either direction, is the
  mutant.
- **Message.** `LengthIsTrue`: a body that is prebuffered has the length of what
  the codecs made, one that is not and has no codec that of its source, and any
  other none; and a body of no length in advance is one of no bytes. `TextArrives` rests on `ArrivesInv`:
  the receiver's parameters are what the calls on record ask for, whatever
  their order (`OpsInv`); head, body and sender's parameters agree
  (`ComposedInv`, `SenderInv`); and the text on its way is the one that was
  composed, in the encoding that the head names, compressed as often as the
  head says (`Arriving`), of any size that a conversion may have left of it.
  Each codec is then one lemma about what it makes of such a text.
- **Routing.** `RoutingInv` ties what the code keeps to the history of calls.
  `Registered`: the endpoints of each router are those entries of the log that
  still stand (none that a later one overwrote, none from before a reset), in
  their order and with their path, method and middlewares. Every call makes the
  log one entry longer, and a lemma for each kind of entry says which others
  stop standing. `RouteInv` says the same of the route that is being
  configured, `ServedInv` of the copy that `listen()` took, for the log as it
  was then. `ReqInv` follows a request: the endpoint it goes to is the earliest
  that fits, what ran and what is still to run are its middlewares, what is
  left of the path is what no prefix took. `DispatchFollowsRegistrations` and
  `ParamsRebuildPath` follow, for any routers, mounted in each other however
  deep, any paths and any number of calls; the instance that TLC runs has one
  router to mount.
- **LossyText.** Up to `start_from` each byte is what it should become, after it
  each is as it was, and no whole character lies across (`LossyInv`). That
  `from_utf8()` reports the place it does, and that up to there all is whole, is
  again an argument about the least place that is not (`ErrorPlaceIs`). As
  `start_from` grows with every round, the rounds are bounded by the bytes.
- **MCParts.** `PartsTypeOK`, from the type invariants of the six parts: a step
  is one of the part that moves, and leaves the others alone.

Only model-checked are the liveness properties (`TimedSendReturns`,
`AnsweredSendReturns`, `ShutdownReturns`, `ReadReturns`, `BlockReturns`): fairness
and `ENABLED` are beyond the prover. So is induction over an operator, the
library's theorem for it being one with an operator as its parameter; over sets,
a least counterexample does as well, because the library proves that the finite
subsets of a set are well-founded. That is why `BodyReading` says what is made of
its bytes by ranks, and `LossyText` what is replaced by quantifiers, neither by
recursion.

## 5. Not modelled, and the plan

Not modelled for good: TLS, header configuration, error conversion, and
documentation (configuration and I/O); the `h1` and `h2` libraries, which appear
as what they may return; the bytes of gzip; what handlers return and how `Reply`
turns it into a response; which charset a text is guessed to be in.

Hazards that no property covers, with the reason at each in `PROJECT.json`: the
pool's filter on connections whose body gave up its share in the count early, a
307 to another host over a connection that has sent half a body, requests that are
answered after their connection went away at shutdown, decoded text that is held
back while the source is slow, and a read after one that reported the deadline.
Of none of them do the docs say what should happen.

Next, in this order:

1. URIs: `uri_ext.rs` as operators over parts of an URI, with the joining of a
   `Location`; the domain, path and secure rules of the cookie jar, on them.
2. HTTP/2's send capacity in `body_send.rs`, and the windows of `Bandwidth`
   on the other end of it.
3. The limit of `read_to_vec()`, and the deadline of a body as a clock that a
   read and its caller share.

Each with its invariants stated so that they can be proved from the start: as
places in what is sent or read, and with functions instead of recursion.
