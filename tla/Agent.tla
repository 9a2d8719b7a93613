------------------------------- MODULE Agent -------------------------------
(***************************************************************************)
(* The client's Agent (client/agent.rs): one value owned by the user, its  *)
(* setters, and the loop of do_send() that a call of send() runs.  The     *)
(* loop opens a connection, sends the request on it, follows redirects,    *)
(* retries failures with a backoff, and races the whole of it against the  *)
(* request's deadline.  The agent is used through &mut self: calls never   *)
(* overlap and setters run between calls; but the bodies of earlier        *)
(* responses stay with the user and end whenever the user lets them, and   *)
(* the future of a call can be dropped at any await.                       *)
(*                                                                         *)
(* Abstractions.  A host stands for a HostPort and for the cookies it      *)
(* sets: the jar is the set of hosts that have set one.  The request's     *)
(* data and its body are left out (they are BodyResend's subject).         *)
(* The identity of a closed connection is used again, which keeps the      *)
(* model finite; the code's counter (conn.rs) never repeats one.           *)
(***************************************************************************)
EXTENDS Integers, FiniteSets

CONSTANTS
    Hosts,             \* the host:port pairs requests can go to
    Conns,             \* identities of connections; bounds the pool
    NoConn,            \* no connection
    Half,              \* 2^7 for the i8 of the code: i8 is -Half .. Half-1
    Amounts,           \* the u8 arguments given to redirects() and retries()
    DefaultRedirects,  \* Agent::new(): 5
    DefaultRetries,    \* Agent::new(): 5
    OverflowChecks     \* TRUE for a debug build, where i8 overflow panics

ASSUME HalfAssumption == Half \in Nat \ {0}
ASSUME AmountsAssumption ==
    /\ Amounts \subseteq 0 .. 2 * Half - 1
    /\ DefaultRedirects \in Amounts
    /\ DefaultRetries \in Amounts
ASSUME FlagAssumption == OverflowChecks \in BOOLEAN
ASSUME NoConnAssumption == NoConn \notin Conns
ASSUME HostsAssumption == Hosts # {}

VARIABLES
    settings,  \* what the setters set; constant during a call
    pool,      \* Agent.connections
    conn,      \* what is known of each connection
    unfin,     \* Connection.unfinished_reqs: strong count less one
    jar,       \* Agent.cookies, taken by a call while it runs
    pc,        \* where do_send() awaits, "idle" between calls
    held,      \* the cookies the running call took from the jar
    call,      \* the other locals of do_send()
    outcome,   \* how the last call ended
    known,     \* history: hosts whose cookies were stored and not dropped
    lost       \* history: a call took the cookies and never gave them back

agentVars == <<settings, pool, conn, unfin>>
cookieVars == <<jar, held, known, lost>>
vars == <<settings, pool, conn, unfin, jar, pc, held, call, outcome, known, lost>>
-----------------------------------------------------------------------------
I8 == -Half .. Half - 1

\* As if the amount were kept as it is given.
AsI8Uncast(amount) == amount

\* `amount as i8`
AsI8(amount) == IF amount < Half THEN amount ELSE amount - 2 * Half

\* As if the budget were never spent.
DecrNever(x) == x

\* `x -= 1` on an i8 in a release build
Decr(x) == IF x = -Half THEN Half - 1 ELSE x - 1

\* ... which panics instead in a debug build
DecrPanics(x) == OverflowChecks /\ x = -Half

Settings == [redirects: Amounts, retries: Amounts, pooling: BOOLEAN, cookies: BOOLEAN]

(***************************************************************************)
(* A connection is "ready" when no request is unfinished on it, "busy"     *)
(* from the start of a request until its response body is read to the end, *)
(* "failed" when do_send() saw the request or the discarded body fail,     *)
(* "abandoned" when a deadline, a dropped future or a body that was let go *)
(* unread left its request half done, and "closed" when nobody holds it:   *)
(* neither the pool nor the call nor a body.  The count of unfinished      *)
(* requests is not the same: any read of zero bytes takes the body's share *)
(* of it away, also one before the end.                                    *)
(***************************************************************************)
ConnState == {"ready", "busy", "failed", "abandoned", "closed"}
Connection == [host: Hosts, http2: BOOLEAN, state: ConnState]

Awaits == {"connect", "sending", "discard", "backoff"}
Outcome == {"none", "ok", "redirect", "error", "timeout", "dropped", "panic"}

Call == [host: Hosts, idempotent: BOOLEAN, timed: BOOLEAN, header: SUBSET Hosts,
         redirects: I8, retries: I8, cur: Conns \cup {NoConn}, retain: BOOLEAN,
         hops: Nat, retried: Nat]

AnyHost == CHOOSE h \in Hosts : TRUE

Closed == [host |-> AnyHost, http2 |-> FALSE, state |-> "closed"]

NoCall == [host |-> AnyHost, idempotent |-> FALSE, timed |-> FALSE, header |-> {},
           redirects |-> 0, retries |-> 0, cur |-> NoConn, retain |-> TRUE,
           hops |-> 0, retried |-> 0]

Running == pc \in Awaits

\* The connections reuse_from_pool() finds for host h.
PoolMatch(h) ==
    {c \in pool : conn[c].host = h /\ (conn[c].http2 \/ unfin[c] = 0)}

\* As if a failed connection stayed pooled.
RemovedNever(c) == pool

\* self.connections.retain(|c| c.id() != conn_id)
Removed(c) == pool \ {c}

\* As if the budget ran out one redirect early.
NoRedirectLeftEarly == Decr(call.redirects) <= 0

\* redirects < 0 after its decrement
NoRedirectLeft == Decr(call.redirects) < 0

\* As if any method could be sent again.
GiveUpAnyMethod(retryable) == Decr(call.retries) = 0 \/ ~retryable

\* An error ends the call when the budget is spent, when the method is not
\* idempotent, and when the error is no broken connection.
GiveUp(retryable) ==
    Decr(call.retries) = 0 \/ ~call.idempotent \/ ~retryable

\* The cookies Cookies::get() returns for a request to h.
CookiesFor(h, cookies) == IF settings.cookies THEN cookies \cap {h} ELSE {}
-----------------------------------------------------------------------------
Init ==
    /\ settings = [redirects |-> DefaultRedirects, retries |-> DefaultRetries,
                   pooling |-> TRUE, cookies |-> TRUE]
    /\ pool = {}
    /\ conn = [c \in Conns |-> Closed]
    /\ unfin = [c \in Conns |-> 0]
    /\ jar = {} /\ held = {} /\ known = {} /\ lost = FALSE
    /\ pc = "idle" /\ call = NoCall /\ outcome = "none"

(***************************************************************************)
(* The setters, between calls.                                             *)
(***************************************************************************)
SetRedirects(amount) ==
    /\ pc = "idle"
    /\ settings' = [settings EXCEPT !.redirects = amount]
    /\ UNCHANGED <<pool, conn, unfin, pc, call, outcome, cookieVars>>

SetRetries(amount) ==
    /\ pc = "idle"
    /\ settings' = [settings EXCEPT !.retries = amount]
    /\ UNCHANGED <<pool, conn, unfin, pc, call, outcome, cookieVars>>

SetPooling(enabled) ==
    /\ pc = "idle"
    /\ settings' = [settings EXCEPT !.pooling = enabled]
    /\ IF enabled
         THEN UNCHANGED <<pool, conn>>
         ELSE /\ pool' = {}
              /\ conn' = [c \in Conns |-> IF conn[c].state = "busy" THEN conn[c] ELSE Closed]
    /\ UNCHANGED <<unfin, pc, call, outcome, cookieVars>>

SetCookies(enabled) ==
    /\ pc = "idle"
    /\ settings' = [settings EXCEPT !.cookies = enabled]
    /\ jar' = IF enabled THEN jar ELSE {}
    /\ known' = IF enabled THEN known ELSE {}
    /\ lost' = (lost /\ enabled)
    /\ UNCHANGED <<pool, conn, unfin, pc, held, call, outcome>>

(***************************************************************************)
(* send(): the cookies are taken out of the agent, then do_send() sets up  *)
(* its locals and runs to its first await.                                 *)
(***************************************************************************)
Send(h, idempotent, timed) ==
    /\ pc = "idle"
    /\ held' = jar
    /\ jar' = {}
    /\ call' = [host |-> h, idempotent |-> idempotent, timed |-> timed,
                header |-> CookiesFor(h, jar),
                redirects |-> AsI8(settings.redirects), retries |-> AsI8(settings.retries),
                cur |-> NoConn, retain |-> TRUE, hops |-> 0, retried |-> 0]
    /\ pc' = "connect"
    /\ outcome' = "none"
    /\ UNCHANGED <<agentVars, known, lost>>

\* As if cookies were added to the first request only.
LoopTopNoCookies ==
    /\ pc' = "connect"
    /\ call' = [call EXCEPT !.cur = NoConn, !.retain = TRUE]

\* The top of the loop: add cookies to what next_req already carries, connect.
LoopTop ==
    /\ pc' = "connect"
    /\ call' = [call EXCEPT !.header = @ \cup CookiesFor(call.host, held),
                            !.cur = NoConn, !.retain = TRUE]

\* do_send() returned: its locals are dropped and send() restores the cookies.
Finish(how, cookies) ==
    /\ pc' = "idle"
    /\ call' = NoCall
    /\ held' = {}
    /\ jar' = cookies
    /\ outcome' = how

\* The body's share in the count of c, which it may have given up already.
GivesUpShare(c) == unfin' = [unfin EXCEPT ![c] = IF @ > 0 THEN @ - 1 ELSE 0]

\* The request on c no longer counts; c goes on in state s if it is pooled.
Release(c, s, pooled) ==
    /\ GivesUpShare(c)
    /\ pool' = pooled
    /\ conn' = [conn EXCEPT ![c] = IF c \in pooled THEN [@ EXCEPT !.state = s] ELSE Closed]

(***************************************************************************)
(* reuse_from_pool() discards what it found and returns None: every hop    *)
(* and every retry connects.  Pushing the connection and starting the      *)
(* request on it follow connect() with no await between them.              *)
(***************************************************************************)
Connected(c, http2) ==
    /\ pc = "connect"
    /\ conn[c] = Closed
    /\ conn' = [conn EXCEPT ![c] = [host |-> call.host, http2 |-> http2, state |-> "busy"]]
    /\ pool' = IF settings.pooling THEN pool \cup {c} ELSE pool
    /\ unfin' = [unfin EXCEPT ![c] = @ + 1]
    /\ call' = [call EXCEPT !.cur = c]
    /\ pc' = "sending"
    /\ UNCHANGED <<settings, outcome, cookieVars>>

\* connect(...).await? leaves do_send() at once: no retry.
ConnectFailed ==
    /\ pc = "connect"
    /\ Finish("error", held)
    /\ UNCHANGED <<agentVars, known, lost>>

\* The cookies of a response are stored before its status is looked at.
Stored(cookies, setCookie) ==
    IF setCookie /\ settings.cookies THEN cookies \cup {call.host} ELSE cookies

StoreCookies(setCookie) == known' = Stored(known, setCookie) /\ UNCHANGED lost

\* A response that is no handled redirect goes to the user, body and all.
FinalResponse(setCookie) ==
    /\ pc = "sending"
    /\ StoreCookies(setCookie)
    /\ Finish("ok", Stored(held, setCookie))
    /\ UNCHANGED agentVars

\* 301, 302, 307 or 308 with no redirect left: that response is the answer.
RedirectsExhausted(setCookie) ==
    /\ pc = "sending"
    /\ ~DecrPanics(call.redirects)
    /\ NoRedirectLeft
    /\ StoreCookies(setCookie)
    /\ Finish("redirect", Stored(held, setCookie))
    /\ UNCHANGED agentVars

\* A redirect without a usable Location: the response is dropped unread.
BadLocation(setCookie) ==
    /\ pc = "sending"
    /\ ~DecrPanics(call.redirects)
    /\ ~NoRedirectLeft
    /\ Release(call.cur, "abandoned", pool)
    /\ StoreCookies(setCookie)
    /\ Finish("error", Stored(held, setCookie))
    /\ UNCHANGED settings

\* A redirect to h: next_req is amended, then the body is read and discarded.
FollowRedirect(setCookie, h, is307ish) ==
    /\ pc = "sending"
    /\ ~DecrPanics(call.redirects)
    /\ ~NoRedirectLeft
    /\ StoreCookies(setCookie)
    /\ held' = Stored(held, setCookie)
    /\ call' = [call EXCEPT
                  !.redirects = Decr(@), !.host = h, !.hops = @ + 1,
                  !.retain = ~(is307ish /\ ~conn[call.cur].http2 /\ conn[call.cur].host = h)]
    /\ pc' = "discard"
    /\ UNCHANGED <<agentVars, jar, outcome>>

\* read_and_discard() ends with a read of zero bytes: at the end of the body, or
\* before it when a CharCodec has no character to give yet.  The body is dropped.
Discarded(atEnd) ==
    /\ pc = "discard"
    /\ Release(call.cur, IF atEnd THEN "ready" ELSE "abandoned",
               IF call.retain THEN pool ELSE Removed(call.cur))
    /\ LoopTop
    /\ UNCHANGED <<settings, outcome, cookieVars>>

DiscardFailed ==
    /\ pc = "discard"
    /\ Release(call.cur, "failed", Removed(call.cur))
    /\ LoopTop
    /\ UNCHANGED <<settings, outcome, cookieVars>>

\* As if retries were not counted.
RequestFailedUncounted(retryable) ==
    /\ pc = "sending"
    /\ Release(call.cur, "failed", Removed(call.cur))
    /\ IF GiveUp(retryable)
         THEN Finish("error", held)
         ELSE /\ pc' = "backoff"
              /\ call' = [call EXCEPT !.cur = NoConn]
              /\ UNCHANGED <<jar, held, outcome>>
    /\ UNCHANGED <<settings, known, lost>>

\* send_request() returned an error; retryable is Error::is_retryable().
RequestFailed(retryable) ==
    /\ pc = "sending"
    /\ ~DecrPanics(call.retries)
    /\ Release(call.cur, "failed", Removed(call.cur))
    /\ IF GiveUp(retryable)
         THEN Finish("error", held)
         ELSE /\ pc' = "backoff"
              /\ call' = [call EXCEPT !.retries = Decr(@), !.cur = NoConn,
                                      !.retried = @ + 1]
              /\ UNCHANGED <<jar, held, outcome>>
    /\ UNCHANGED <<settings, known, lost>>

BackoffDone ==
    /\ pc = "backoff"
    /\ LoopTop
    /\ UNCHANGED <<agentVars, outcome, cookieVars>>
-----------------------------------------------------------------------------
(***************************************************************************)
(* Ways out of a call that do not pass through the loop.                   *)
(***************************************************************************)
\* The loop's future is dropped where it awaits, and its request with it.
DropLoop ==
    IF call.cur = NoConn
      THEN UNCHANGED <<pool, conn, unfin>>
      ELSE Release(call.cur, "abandoned", pool)

\* As if the timeout dropped the cookies with the loop.
DeadlinePassedCookies ==
    /\ Running
    /\ call.timed
    /\ DropLoop
    /\ Finish("timeout", {})
    /\ UNCHANGED <<settings, known, lost>>

\* As if only the request on an open connection were timed.
DeadlinePassedOpen ==
    /\ pc \in {"sending", "discard"}
    /\ call.timed
    /\ DropLoop
    /\ Finish("timeout", held)
    /\ UNCHANGED <<settings, known, lost>>

\* deadline.race() in send(): the connection in use stays in the pool.
DeadlinePassed ==
    /\ Running
    /\ call.timed
    /\ DropLoop
    /\ Finish("timeout", held)
    /\ UNCHANGED <<settings, known, lost>>

\* The cookies are in the future that goes away.
LoseCookies(how) ==
    /\ DropLoop
    /\ Finish(how, {})
    /\ lost' = (lost \/ held # {})
    /\ UNCHANGED <<settings, known>>

\* The user drops the future of send().
DropSend == Running /\ LoseCookies("dropped")

\* i8 overflow in a debug build, after the cookies of the response were added.
\* The response with its body, or the failed connection, unwinds.
RedirectsOverflow == pc = "sending" /\ DecrPanics(call.redirects) /\ LoseCookies("panic")

RetriesOverflow ==
    /\ pc = "sending"
    /\ DecrPanics(call.retries)
    /\ Release(call.cur, "failed", Removed(call.cur))
    /\ Finish("panic", {})
    /\ lost' = (lost \/ held # {})
    /\ UNCHANGED <<settings, known>>

\* A response that the user has, its body not read to its end.
WithUser(c) == conn[c].state = "busy" /\ c # call.cur

\* A read of zero bytes before the end, into a buffer of none or from a CharCodec
\* that has no character yet: the count forgets the request, the body goes on.
ZeroRead(c) ==
    /\ WithUser(c)
    /\ unfin[c] > 0
    /\ GivesUpShare(c)
    /\ UNCHANGED <<settings, pool, conn, pc, call, outcome, cookieVars>>

\* The user reads the body of an earlier response to its end.
BodyRead(c) ==
    /\ WithUser(c)
    /\ Release(c, "ready", pool)
    /\ UNCHANGED <<settings, pc, call, outcome, cookieVars>>

\* The user drops it before the end, or sees it fail.
BodyDropped(c) ==
    /\ WithUser(c)
    /\ Release(c, "abandoned", pool)
    /\ UNCHANGED <<settings, pc, call, outcome, cookieVars>>
-----------------------------------------------------------------------------
Setters ==
    \/ \E a \in Amounts : SetRedirects(a) \/ SetRetries(a)
    \/ \E b \in BOOLEAN : SetPooling(b) \/ SetCookies(b)

\* What the network brings the waiting loop.
Answer ==
    \/ \E c \in Conns, http2 \in BOOLEAN : Connected(c, http2)
    \/ ConnectFailed
    \/ \E setCookie \in BOOLEAN :
          \/ FinalResponse(setCookie)
          \/ RedirectsExhausted(setCookie)
          \/ BadLocation(setCookie)
          \/ \E h \in Hosts, is307ish \in BOOLEAN : FollowRedirect(setCookie, h, is307ish)
    \/ \E atEnd \in BOOLEAN : Discarded(atEnd)
    \/ DiscardFailed
    \/ \E retryable \in BOOLEAN : RequestFailed(retryable)
    \/ RedirectsOverflow
    \/ RetriesOverflow

Bodies == \E c \in Conns : ZeroRead(c) \/ BodyRead(c) \/ BodyDropped(c)

Next ==
    \/ Setters
    \/ \E h \in Hosts, idempotent, timed \in BOOLEAN : Send(h, idempotent, timed)
    \/ Answer
    \/ BackoffDone
    \/ DeadlinePassed
    \/ DropSend
    \/ Bodies

(***************************************************************************)
(* The runtime's timers fire.  Nothing is assumed of the network or of the *)
(* user.                                                                   *)
(***************************************************************************)
Timers == WF_vars(BackoffDone) /\ WF_vars(DeadlinePassed)

Spec == Init /\ [][Next]_vars /\ Timers
-----------------------------------------------------------------------------
(***************************************************************************)
(* Properties.                                                             *)
(***************************************************************************)
\* Every variable has its type, and the locals of a call fit where it awaits.
TypeOK ==
    /\ settings \in Settings
    /\ pool \in SUBSET Conns
    /\ conn \in [Conns -> Connection]
    /\ unfin \in [Conns -> Nat]
    /\ jar \in SUBSET Hosts /\ held \in SUBSET Hosts /\ known \in SUBSET Hosts
    /\ lost \in BOOLEAN
    /\ pc \in Awaits \cup {"idle"}
    /\ call \in Call
    /\ outcome \in Outcome

\* A call follows no more redirects than redirects() allows (agent.rs:366-376),
\* whatever retries come in between; the amounts an i8 cannot hold are aside.
RedirectBound ==
    Running /\ settings.redirects < Half => call.hops <= settings.redirects

\* A redirect response reaches the user only after exactly as many redirects
\* were followed as redirects() allows: none too few, none too many.
RedirectsHonoured ==
    [][Running /\ outcome' = "redirect" /\ settings.redirects < Half
         => call.hops = settings.redirects]_vars

\* retries(n) with n > 0 stands for n attempts that fail: the budget is one for
\* all the hops of the call, so at most n - 1 requests are sent again.
RetryBound ==
    Running /\ settings.retries \in 1 .. Half - 1 => call.retried < settings.retries

\* "Set to `0` to disable retries." (agent.rs:100)
RetriesDisabled == Running /\ settings.retries = 0 => call.retried = 0

\* A request whose method is not idempotent is never sent again after an error,
\* on whatever hop the error comes (agent.rs:290, 437).
NonIdempotentOnce == Running /\ ~call.idempotent => call.retried = 0

\* No connection on which do_send() saw a failure is in the pool, were it the
\* request that failed or the body of a redirect (agent.rs:411-421, 432-433).
NoFailedPooled == \A c \in pool : conn[c].state # "failed"

\* Between calls every cookie stored since cookies were last dropped is in the
\* jar, however the last call ended, unless its future was lost (agent.rs:233-239).
CookiesRestored == pc = "idle" /\ ~lost => jar = known

\* A request carries the cookies its host has set, those of the redirect that
\* led to it included (agent.rs:273-287, 345-361).
CookiesSent ==
    pc \in {"connect", "sending"} /\ settings.cookies /\ ~lost
        /\ call.host \in known => call.host \in call.header

\* "connections are pooled and cookies reused between repeated calls to
\* `send()`" (agent.rs:193): nothing is connected while the pool holds an http2
\* connection to that host, which "multiplexes over the same connection".
\* (The pool does not change between the question and the end of connect().)
PoolingReuses ==
    [][pc = "connect" /\ pc' = "sending" /\ settings.pooling
         => \A c \in PoolMatch(call.host) : ~conn[c].http2]_vars

\* A call with a timeout returns, whatever the network does (agent.rs:229-237).
TimedSendReturns == (Running /\ call.timed) ~> (pc = "idle")

\* A call without one returns if the network answers all it awaits: redirects
\* and retries cannot follow each other for ever.
AnsweredSendReturns == WF_vars(Answer) => (Running ~> (pc = "idle"))
=============================================================================
