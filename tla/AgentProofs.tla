---------------------------- MODULE AgentProofs ----------------------------
(***************************************************************************)
(* Safety of Agent for any hosts, connections, amounts and integer width.  *)
(* The invariants that matter are not inductive by themselves: the bounds  *)
(* on redirects and retries need the relation of the budget left to the    *)
(* steps taken, the pool needs to know which connection the call holds,    *)
(* and the cookies need to be followed out of the jar into the call and    *)
(* back.                                                                   *)
(***************************************************************************)
EXTENDS Agent, TLAPS

\* Which connection the call holds where it awaits, and nothing between calls.
LocalsInv ==
    /\ pc = "idle" => call = NoCall /\ held = {}
    /\ pc # "idle" => outcome = "none"
    /\ pc \in {"connect", "backoff"} => call.cur = NoConn
    /\ pc \in {"sending", "discard"} =>
          call.cur \in Conns /\ conn[call.cur].state = "busy"

\* What is left of the redirects is what was allowed less what was followed.
RedirectInv ==
    Running /\ settings.redirects < Half =>
        call.redirects >= 0 /\ call.hops = settings.redirects - call.redirects

RetryInv ==
    Running /\ settings.retries \in 1 .. Half - 1 =>
        call.retries >= 1 /\ call.retried = settings.retries - call.retries

\* Unless they were lost, the cookies are in the jar or in the running call.
CookieInv ==
    /\ ~settings.cookies => jar = {} /\ held = {} /\ known = {}
    /\ ~lost /\ pc = "idle" => jar = known
    /\ ~lost /\ Running => held = known

IInv ==
    /\ TypeOK
    /\ LocalsInv
    /\ RedirectInv
    /\ RetryInv
    /\ NonIdempotentOnce
    /\ NoFailedPooled
    /\ CookieInv
    /\ CookiesSent
-----------------------------------------------------------------------------
LEMMA I8Facts ==
    /\ \A a \in Amounts : AsI8(a) \in I8
    /\ \A a \in Amounts : a < Half => AsI8(a) = a
    /\ \A x \in I8 : Decr(x) \in I8
    /\ \A x \in I8 : x >= 0 => Decr(x) = x - 1
    /\ Amounts \subseteq Nat
BY HalfAssumption, AmountsAssumption DEF AsI8, Decr, I8

LEMMA NoCallType == NoCall \in Call /\ Closed \in Connection /\ AnyHost \in Hosts
<1>1. AnyHost \in Hosts
  BY HostsAssumption DEF AnyHost
<1>2. QED
  BY <1>1, HalfAssumption DEF NoCall, Call, Closed, Connection, ConnState, I8

\* A share given up leaves a count.
LEMMA ShareFacts ==
    ASSUME unfin \in [Conns -> Nat], NEW c \in Conns, GivesUpShare(c)
    PROVE  unfin' \in [Conns -> Nat]
<1>1. PICK n : n = IF unfin[c] > 0 THEN unfin[c] - 1 ELSE 0
  OBVIOUS
<1>2. unfin' = [unfin EXCEPT ![c] = n]
  BY <1>1 DEF GivesUpShare
<1>3. n \in Nat
  BY <1>1
<1>4. QED
  BY <1>2, <1>3

\* What the end of a request does to the connections, for any new pool.
LEMMA ReleaseFacts ==
    ASSUME TypeOK, NEW c \in Conns, NEW s \in ConnState,
           NEW pooled \in SUBSET Conns, Release(c, s, pooled)
    PROVE  /\ pool' = pooled
           /\ conn' \in [Conns -> Connection]
           /\ unfin' \in [Conns -> Nat]
           /\ \A d \in Conns \ {c} : conn'[d] = conn[d]
           /\ c \in pooled => conn'[c].state = s
<1>1. conn \in [Conns -> Connection] /\ unfin \in [Conns -> Nat]
  BY DEF TypeOK
<1>2. pool' = pooled
  BY DEF Release
<1>3. unfin' \in [Conns -> Nat]
  BY <1>1, ShareFacts DEF Release
<1>4. PICK r \in Connection : /\ c \in pooled => r.state = s
                              /\ conn' = [conn EXCEPT ![c] = r]
  <2>1. [conn[c] EXCEPT !.state = s] \in Connection
    BY <1>1 DEF Connection
  <2>2. [conn[c] EXCEPT !.state = s].state = s
    BY <1>1 DEF Connection
  <2>3. CASE c \in pooled
    BY <1>1, <2>1, <2>2, <2>3 DEF Release
  <2>4. CASE c \notin pooled
    BY <1>1, NoCallType, <2>4 DEF Release
  <2>5. QED
    BY <2>3, <2>4
<1>5. QED
  BY <1>1, <1>2, <1>3, <1>4

\* The same for a loop dropped where it awaits.
LEMMA DropLoopFacts ==
    ASSUME IInv, Running, DropLoop
    PROVE  /\ pool' = pool
           /\ conn' \in [Conns -> Connection]
           /\ unfin' \in [Conns -> Nat]
           /\ NoFailedPooled'
<1>1. CASE call.cur = NoConn
  BY <1>1 DEF DropLoop, IInv, TypeOK, NoFailedPooled
<1>2. CASE call.cur # NoConn
  <2>1. pc \in {"sending", "discard"} /\ call.cur \in Conns /\ conn[call.cur].state = "busy"
    BY <1>2 DEF IInv, LocalsInv, Running, Awaits
  <2>2. Release(call.cur, "abandoned", pool)
    BY <1>2 DEF DropLoop
  <2>3. "abandoned" \in ConnState /\ pool \in SUBSET Conns /\ TypeOK
    BY DEF ConnState, IInv, TypeOK
  <2>4. QED
    BY <2>1, <2>2, <2>3, ReleaseFacts DEF NoFailedPooled, IInv
<1>3. QED
  BY <1>1, <1>2
-----------------------------------------------------------------------------
(***************************************************************************)
(* Each action preserves the invariant.                                    *)
(***************************************************************************)
LEMMA SettersStep == IInv /\ Setters => IInv'
<1> SUFFICES ASSUME IInv, Setters PROVE IInv'
  OBVIOUS
<1>1. pc = "idle" /\ pc' = "idle" /\ ~Running /\ ~Running'
  BY DEF Setters, SetRedirects, SetRetries, SetPooling, SetCookies, Running, Awaits
<1>2. UNCHANGED <<held, call, unfin, outcome>>
  BY DEF Setters, SetRedirects, SetRetries, SetPooling, SetCookies, cookieVars
<1>3. TypeOK'
  BY NoCallType DEF IInv, TypeOK, Setters, SetRedirects, SetRetries, SetPooling, SetCookies, Settings, cookieVars
<1>4. LocalsInv' /\ RedirectInv' /\ RetryInv' /\ NonIdempotentOnce' /\ CookiesSent'
  BY <1>1, <1>2 DEF IInv, LocalsInv, RedirectInv, RetryInv, NonIdempotentOnce, CookiesSent
<1>5. NoFailedPooled'
  BY DEF IInv, TypeOK, NoFailedPooled, Closed, Setters, SetRedirects, SetRetries, SetPooling, SetCookies, cookieVars
<1>6. CookieInv'
  BY <1>1 DEF IInv, TypeOK, CookieInv, LocalsInv, Settings, Setters, SetRedirects, SetRetries, SetPooling, SetCookies, cookieVars
<1>7. QED
  BY <1>3, <1>4, <1>5, <1>6 DEF IInv

LEMMA SendStep ==
    ASSUME IInv, NEW h \in Hosts, NEW idempotent \in BOOLEAN, NEW timed \in BOOLEAN,
           Send(h, idempotent, timed)
    PROVE  IInv'
<1>1. TypeOK'
  BY NoConnAssumption, I8Facts DEF IInv, TypeOK, Send, agentVars, Call, CookiesFor, Awaits, Outcome, Settings
<1>2. call'.cur = NoConn /\ pc' = "connect" /\ UNCHANGED <<settings, pool, conn, unfin>>
  BY DEF Send, agentVars
<1>3. LocalsInv' /\ NoFailedPooled' /\ NonIdempotentOnce'
  BY <1>2 DEF IInv, LocalsInv, NoFailedPooled, NonIdempotentOnce, Send
<1>4. RedirectInv' /\ RetryInv'
  <2>1. settings.redirects \in Amounts /\ settings.retries \in Amounts /\ settings' = settings
    BY DEF IInv, TypeOK, Settings, Send, agentVars
  <2>2. /\ call'.redirects = AsI8(settings.redirects) /\ call'.hops = 0
        /\ call'.retries = AsI8(settings.retries) /\ call'.retried = 0
    BY DEF Send
  <2>3. /\ settings.redirects \in Nat /\ settings.retries \in Nat /\ Half \in Nat
        /\ settings.redirects < Half => AsI8(settings.redirects) = settings.redirects
        /\ settings.retries < Half => AsI8(settings.retries) = settings.retries
    BY <2>1, I8Facts, HalfAssumption
  <2>4. RedirectInv'
    BY <2>1, <2>2, <2>3 DEF RedirectInv
  <2>5. RetryInv'
    BY <2>1, <2>2, <2>3 DEF RetryInv
  <2>6. QED
    BY <2>4, <2>5
<1>5. CookieInv' /\ CookiesSent'
  BY DEF IInv, TypeOK, CookieInv, CookiesSent, LocalsInv, Send, agentVars, CookiesFor, Running, Awaits
<1>6. QED
  BY <1>1, <1>3, <1>4, <1>5 DEF IInv

\* A step that ends the call, from what it does to connections and cookies.
LEMMA FinishStep ==
    ASSUME IInv, NEW how \in Outcome, NEW cookies \in SUBSET Hosts,
           Finish(how, cookies), settings' = settings,
           pool' \in SUBSET Conns, conn' \in [Conns -> Connection], unfin' \in [Conns -> Nat],
           NoFailedPooled', known' \in SUBSET Hosts, lost' \in BOOLEAN,
           ~settings.cookies => cookies = {} /\ known' = {},
           ~lost' => cookies = known'
    PROVE  IInv'
<1>1. pc' = "idle" /\ ~Running' /\ call' = NoCall /\ held' = {} /\ jar' = cookies
  BY DEF Finish, Running, Awaits
<1>2. TypeOK'
  BY <1>1, NoCallType DEF IInv, TypeOK, Finish
<1>3. LocalsInv' /\ RedirectInv' /\ RetryInv' /\ NonIdempotentOnce' /\ CookiesSent'
  BY <1>1 DEF LocalsInv, RedirectInv, RetryInv, NonIdempotentOnce, CookiesSent
<1>4. CookieInv'
  BY <1>1 DEF CookieInv
<1>5. QED
  BY <1>2, <1>3, <1>4 DEF IInv

\* A step back to the top of the loop, from what it does to connections.
LEMMA LoopTopStep ==
    ASSUME IInv, Running, LoopTop, UNCHANGED <<settings, outcome, cookieVars>>,
           pool' \in SUBSET Conns, conn' \in [Conns -> Connection], unfin' \in [Conns -> Nat],
           NoFailedPooled'
    PROVE  IInv'
<1>1. /\ pc' = "connect" /\ Running'
      /\ UNCHANGED <<settings, outcome, jar, held, known, lost>>
  BY DEF LoopTop, Running, Awaits, cookieVars
<1>2. /\ call' \in Call /\ call'.cur = NoConn
      /\ call'.redirects = call.redirects /\ call'.hops = call.hops
      /\ call'.retries = call.retries /\ call'.retried = call.retried
      /\ call'.idempotent = call.idempotent /\ call'.host = call.host
      /\ call'.header = call.header \cup CookiesFor(call.host, held)
  <2>1. call \in Call /\ CookiesFor(call.host, held) \in SUBSET Hosts
    BY DEF IInv, TypeOK, CookiesFor
  <2>2. QED
    BY <2>1 DEF LoopTop, Call
<1>3. TypeOK'
  BY <1>1, <1>2 DEF IInv, TypeOK, Awaits
<1>4. LocalsInv'
  BY <1>1, <1>2 DEF IInv, LocalsInv, Running, Awaits
<1>5. RedirectInv' /\ RetryInv' /\ NonIdempotentOnce'
  BY <1>1, <1>2 DEF IInv, RedirectInv, RetryInv, NonIdempotentOnce
<1>6. CookieInv' /\ CookiesSent'
  BY <1>1, <1>2 DEF IInv, CookieInv, CookiesSent, CookiesFor
<1>7. QED
  BY <1>3, <1>4, <1>5, <1>6 DEF IInv

LEMMA ConnectedStep ==
    ASSUME IInv, NEW c \in Conns, NEW http2 \in BOOLEAN, Connected(c, http2)
    PROVE  IInv'
<1>1. /\ pc = "connect" /\ pc' = "sending" /\ Running /\ Running'
      /\ UNCHANGED <<settings, outcome, jar, held, known, lost>>
  BY DEF Connected, Running, Awaits, cookieVars
<1>2. /\ call' \in Call /\ call'.cur = c
      /\ call'.redirects = call.redirects /\ call'.hops = call.hops
      /\ call'.retries = call.retries /\ call'.retried = call.retried
      /\ call'.idempotent = call.idempotent /\ call'.host = call.host
      /\ call'.header = call.header
  BY DEF IInv, TypeOK, Connected, Call
<1>3. /\ conn' = [conn EXCEPT ![c] = [host |-> call.host, http2 |-> http2, state |-> "busy"]]
      /\ unfin' = [unfin EXCEPT ![c] = @ + 1] /\ pool' \in SUBSET Conns /\ pool' \subseteq pool \cup {c}
  BY DEF Connected, IInv, TypeOK
<1>4. conn \in [Conns -> Connection] /\ unfin \in [Conns -> Nat] /\ call.host \in Hosts
  BY DEF IInv, TypeOK, Call
<1>5. conn' \in [Conns -> Connection] /\ unfin' \in [Conns -> Nat] /\ conn'[c].state = "busy"
  BY <1>3, <1>4 DEF Connection, ConnState
<1>6. TypeOK' /\ LocalsInv'
  BY <1>1, <1>2, <1>3, <1>5 DEF IInv, TypeOK, LocalsInv, Awaits
<1>7. NoFailedPooled'
  <2>1. \A d \in Conns : conn'[d] = IF d = c THEN conn'[c] ELSE conn[d]
    BY <1>3, <1>4
  <2>2. QED
    BY <1>3, <1>5, <2>1 DEF IInv, NoFailedPooled
<1>8. RedirectInv' /\ RetryInv' /\ NonIdempotentOnce' /\ CookieInv' /\ CookiesSent'
  BY <1>1, <1>2 DEF IInv, RedirectInv, RetryInv, NonIdempotentOnce, CookieInv, CookiesSent
<1>9. QED
  BY <1>6, <1>7, <1>8 DEF IInv

\* What storing the cookies of a response keeps.
LEMMA StoredFacts ==
    ASSUME IInv, pc = "sending", NEW setCookie \in BOOLEAN, StoreCookies(setCookie)
    PROVE  /\ Stored(held, setCookie) \in SUBSET Hosts
           /\ known' \in SUBSET Hosts /\ lost' = lost
           /\ ~settings.cookies => Stored(held, setCookie) = {} /\ known' = {}
           /\ ~lost' => Stored(held, setCookie) = known'
<1>1. call.host \in Hosts
  BY DEF IInv, TypeOK, Call
<1>2. QED
  BY <1>1 DEF IInv, TypeOK, CookieInv, StoreCookies, Stored, Running, Awaits

LEMMA AnswerToUserStep ==
    ASSUME IInv, NEW setCookie \in BOOLEAN,
           FinalResponse(setCookie) \/ RedirectsExhausted(setCookie)
    PROVE  IInv'
<1>1. /\ pc = "sending" /\ StoreCookies(setCookie) /\ UNCHANGED agentVars
      /\ \E how \in Outcome : Finish(how, Stored(held, setCookie))
  BY DEF FinalResponse, RedirectsExhausted, Outcome
<1>2. /\ UNCHANGED <<settings, pool, conn, unfin>>
      /\ NoFailedPooled'
      /\ pool' \in SUBSET Conns /\ conn' \in [Conns -> Connection] /\ unfin' \in [Conns -> Nat]
  BY <1>1 DEF agentVars, IInv, TypeOK, NoFailedPooled
<1>3. lost' \in BOOLEAN
  BY <1>1, StoredFacts DEF IInv, TypeOK
<1>4. QED
  BY <1>1, <1>2, <1>3, StoredFacts, FinishStep

\* Where a request or a discarded body ends on the connection in use.
LEMMA CurFacts ==
    ASSUME IInv, pc \in {"sending", "discard"},
           NEW s \in ConnState, NEW pooled \in SUBSET Conns,
           Release(call.cur, s, pooled), pooled \subseteq pool,
           s = "failed" => call.cur \notin pooled
    PROVE  /\ pool' \in SUBSET Conns /\ conn' \in [Conns -> Connection]
           /\ unfin' \in [Conns -> Nat] /\ NoFailedPooled'
<1>1. TypeOK /\ call.cur \in Conns /\ conn[call.cur].state = "busy"
  BY DEF IInv, LocalsInv
<1>2. QED
  BY <1>1, ReleaseFacts DEF NoFailedPooled, IInv

LEMMA RemovedFacts == Removed(call.cur) \subseteq pool /\ call.cur \notin Removed(call.cur)
BY DEF Removed

LEMMA BadLocationStep ==
    ASSUME IInv, NEW setCookie \in BOOLEAN, BadLocation(setCookie)
    PROVE  IInv'
<1>1. /\ pc = "sending" /\ StoreCookies(setCookie) /\ settings' = settings
      /\ Release(call.cur, "abandoned", pool)
      /\ Finish("error", Stored(held, setCookie)) /\ "error" \in Outcome
      /\ "abandoned" \in ConnState /\ pool \in SUBSET Conns
  BY DEF BadLocation, Outcome, ConnState, IInv, TypeOK
<1>2. /\ pool' \in SUBSET Conns /\ conn' \in [Conns -> Connection]
      /\ unfin' \in [Conns -> Nat] /\ NoFailedPooled'
  BY <1>1, CurFacts
<1>3. lost' \in BOOLEAN
  BY <1>1, StoredFacts DEF IInv, TypeOK
<1>4. QED
  BY <1>1, <1>2, <1>3, StoredFacts, FinishStep

LEMMA FollowRedirectStep ==
    ASSUME IInv, NEW setCookie \in BOOLEAN, NEW h \in Hosts, NEW is307ish \in BOOLEAN,
           FollowRedirect(setCookie, h, is307ish)
    PROVE  IInv'
<1>1. /\ pc = "sending" /\ pc' = "discard" /\ Running /\ Running'
      /\ StoreCookies(setCookie) /\ held' = Stored(held, setCookie)
      /\ UNCHANGED <<settings, pool, conn, unfin, jar, outcome>>
  BY DEF FollowRedirect, agentVars, Running, Awaits
<1>2. call \in Call /\ Decr(call.redirects) \in I8 /\ Decr(call.redirects) >= 0
  <2>1. call \in Call /\ call.redirects \in I8
    BY DEF IInv, TypeOK, Call
  <2>2. Decr(call.redirects) \in I8 /\ Decr(call.redirects) \in Int
    BY <2>1, I8Facts DEF I8
  <2>3. QED
    BY <2>1, <2>2 DEF FollowRedirect, NoRedirectLeft
<1>3. /\ call' \in Call /\ call'.cur = call.cur
      /\ call'.redirects = Decr(call.redirects) /\ call'.hops = call.hops + 1
      /\ call'.retries = call.retries /\ call'.retried = call.retried
      /\ call'.idempotent = call.idempotent
  <2>1. PICK kept \in BOOLEAN :
          call' = [call EXCEPT !.redirects = Decr(call.redirects), !.host = h,
                               !.hops = call.hops + 1, !.retain = kept]
    BY DEF FollowRedirect
  <2>2. call \in Call /\ Decr(call.redirects) \in I8 /\ call.hops + 1 \in Nat
    BY <1>2 DEF Call
  <2>3. call' \in Call
    BY <2>1, <2>2 DEF Call
  <2>4. QED
    BY <2>1, <2>2, <2>3 DEF Call
<1>4. TypeOK'
  BY <1>1, <1>3, StoredFacts DEF IInv, TypeOK, Awaits
<1>5. LocalsInv' /\ NoFailedPooled' /\ NonIdempotentOnce' /\ CookiesSent'
  BY <1>1, <1>3 DEF IInv, LocalsInv, NoFailedPooled, NonIdempotentOnce, CookiesSent
<1>6. RedirectInv'
  <2>1. call.redirects \in I8 /\ call.hops \in Nat /\ settings.redirects \in Nat
    BY I8Facts DEF IInv, TypeOK, Call, Settings
  <2>2. call.redirects >= 0 => Decr(call.redirects) = call.redirects - 1
    BY <2>1, I8Facts
  <2>3. QED
    BY <1>1, <1>2, <1>3, <2>1, <2>2 DEF IInv, RedirectInv, I8
<1>7. RetryInv'
  BY <1>1, <1>3 DEF IInv, RetryInv
<1>8. CookieInv'
  BY <1>1, StoredFacts DEF IInv, CookieInv
<1>9. QED
  BY <1>4, <1>5, <1>6, <1>7, <1>8 DEF IInv

LEMMA DiscardedStep == ASSUME IInv, NEW atEnd \in BOOLEAN, Discarded(atEnd) PROVE IInv'
<1>1. /\ pc = "discard" /\ Running /\ LoopTop /\ UNCHANGED <<settings, outcome, cookieVars>>
  BY DEF Discarded, Running, Awaits
<1>2. PICK pooled \in SUBSET pool, s \in {"ready", "abandoned"} : Release(call.cur, s, pooled)
  BY RemovedFacts DEF Discarded
<1>3. s \in ConnState /\ s # "failed" /\ pooled \in SUBSET Conns
  BY DEF ConnState, IInv, TypeOK
<1>4. QED
  BY <1>1, <1>2, <1>3, CurFacts, LoopTopStep

LEMMA DiscardFailedStep == ASSUME IInv, DiscardFailed PROVE IInv'
<1>1. /\ pc = "discard" /\ Running /\ LoopTop /\ UNCHANGED <<settings, outcome, cookieVars>>
      /\ Release(call.cur, "failed", Removed(call.cur))
  BY DEF DiscardFailed, Running, Awaits
<1>2. "failed" \in ConnState /\ Removed(call.cur) \in SUBSET Conns
  BY DEF ConnState, IInv, TypeOK, Removed
<1>3. QED
  BY <1>1, <1>2, RemovedFacts, CurFacts, LoopTopStep

LEMMA BackoffDoneStep == ASSUME IInv, BackoffDone PROVE IInv'
<1>1. /\ Running /\ LoopTop /\ UNCHANGED <<settings, outcome, cookieVars>>
      /\ UNCHANGED <<pool, conn, unfin>>
  BY DEF BackoffDone, Running, Awaits, agentVars
<1>2. /\ pool' \in SUBSET Conns /\ conn' \in [Conns -> Connection]
      /\ unfin' \in [Conns -> Nat] /\ NoFailedPooled'
  BY <1>1 DEF IInv, TypeOK, NoFailedPooled
<1>3. QED
  BY <1>1, <1>2, LoopTopStep

LEMMA RequestFailedStep ==
    ASSUME IInv, NEW retryable \in BOOLEAN, RequestFailed(retryable)
    PROVE  IInv'
<1>1. /\ pc = "sending" /\ Running /\ UNCHANGED <<settings, known, lost>>
      /\ Release(call.cur, "failed", Removed(call.cur))
  BY DEF RequestFailed, Running, Awaits
<1>2. /\ pool' \in SUBSET Conns /\ conn' \in [Conns -> Connection]
      /\ unfin' \in [Conns -> Nat] /\ NoFailedPooled'
  <2>1. "failed" \in ConnState /\ Removed(call.cur) \in SUBSET Conns
    BY DEF ConnState, IInv, TypeOK, Removed
  <2>2. QED
    BY <1>1, <2>1, RemovedFacts, CurFacts
<1>3. CASE GiveUp(retryable)
  <2>1. Finish("error", held) /\ "error" \in Outcome /\ held \in SUBSET Hosts
    BY <1>3 DEF RequestFailed, Outcome, IInv, TypeOK
  <2>2. /\ ~settings.cookies => held = {} /\ known' = {}
        /\ ~lost' => held = known'
        /\ known' \in SUBSET Hosts /\ lost' \in BOOLEAN
    BY <1>1 DEF IInv, TypeOK, CookieInv
  <2>3. QED
    BY <1>1, <1>2, <2>1, <2>2, FinishStep
<1>4. CASE ~GiveUp(retryable)
  <2>1. /\ pc' = "backoff" /\ Running' /\ UNCHANGED <<jar, held, outcome>>
        /\ call' = [call EXCEPT !.retries = Decr(@), !.cur = NoConn, !.retried = @ + 1]
        /\ Decr(call.retries) # 0 /\ call.idempotent
    BY <1>4 DEF RequestFailed, GiveUp, Running, Awaits
  <2>2. call \in Call /\ call.retries \in I8 /\ call.retried \in Nat
    BY DEF IInv, TypeOK, Call
  <2>3. Decr(call.retries) \in I8 /\ (call.retries >= 0 => Decr(call.retries) = call.retries - 1)
    BY <2>2, I8Facts
  <2>4. /\ call' \in Call /\ call'.cur = NoConn
        /\ call'.redirects = call.redirects /\ call'.hops = call.hops
        /\ call'.retries = Decr(call.retries) /\ call'.retried = call.retried + 1
        /\ call'.idempotent = call.idempotent
    <3>1. call' = [call EXCEPT !.retries = Decr(call.retries), !.cur = NoConn,
                               !.retried = call.retried + 1]
      BY <2>1
    <3>2. call.retried + 1 \in Nat
      BY <2>2
    <3>3. call' \in Call
      BY <2>2, <2>3, <3>1, <3>2 DEF Call
    <3>4. QED
      BY <2>2, <3>1, <3>3 DEF Call
  <2>5. TypeOK' /\ LocalsInv'
    BY <1>1, <1>2, <2>1, <2>4 DEF IInv, TypeOK, LocalsInv, Awaits
  <2>6. RedirectInv' /\ NonIdempotentOnce' /\ CookieInv' /\ CookiesSent'
    BY <1>1, <2>1, <2>4 DEF IInv, RedirectInv, NonIdempotentOnce, CookieInv, CookiesSent
  <2>7. RetryInv'
    <3>1. settings.retries \in Nat
      BY I8Facts DEF IInv, TypeOK, Settings
    <3>2. QED
      BY <1>1, <2>1, <2>2, <2>3, <2>4, <3>1 DEF IInv, RetryInv, I8
  <2>8. QED
    BY <1>2, <2>5, <2>6, <2>7 DEF IInv
<1>5. QED
  BY <1>3, <1>4

LEMMA ConnectFailedStep == ASSUME IInv, ConnectFailed PROVE IInv'
<1>1. /\ Finish("error", held) /\ "error" \in Outcome /\ held \in SUBSET Hosts
      /\ UNCHANGED <<settings, pool, conn, unfin, known, lost>>
      /\ Running /\ known \in SUBSET Hosts /\ lost \in BOOLEAN
  BY DEF ConnectFailed, Outcome, IInv, TypeOK, agentVars, Running, Awaits
<1>2. /\ pool' \in SUBSET Conns /\ conn' \in [Conns -> Connection]
      /\ unfin' \in [Conns -> Nat] /\ NoFailedPooled'
  BY <1>1 DEF IInv, TypeOK, NoFailedPooled
<1>3. (~settings.cookies => held = {} /\ known' = {}) /\ (~lost' => held = known')
  BY <1>1 DEF IInv, CookieInv
<1>4. QED
  BY <1>1, <1>2, <1>3, FinishStep

LEMMA DeadlinePassedStep == ASSUME IInv, DeadlinePassed PROVE IInv'
<1>1. /\ Finish("timeout", held) /\ "timeout" \in Outcome /\ held \in SUBSET Hosts
      /\ UNCHANGED <<settings, known, lost>>
      /\ Running /\ DropLoop /\ known \in SUBSET Hosts /\ lost \in BOOLEAN
  BY DEF DeadlinePassed, Outcome, IInv, TypeOK
<1>2. pool' \in SUBSET Conns
  BY <1>1, DropLoopFacts DEF IInv, TypeOK
<1>3. (~settings.cookies => held = {} /\ known' = {}) /\ (~lost' => held = known')
  BY <1>1 DEF IInv, CookieInv
<1>4. QED
  BY <1>1, <1>2, <1>3, DropLoopFacts, FinishStep

\* The ways a call takes the cookies with it.
LEMMA LostFacts ==
    ASSUME IInv, Running, known' = known, lost' = (lost \/ held # {}), settings' = settings
    PROVE  /\ known' \in SUBSET Hosts /\ lost' \in BOOLEAN
           /\ ~settings.cookies => known' = {}
           /\ ~lost' => {} = known'
BY DEF IInv, TypeOK, CookieInv

LEMMA LoseCookiesStep ==
    ASSUME IInv, Running, NEW how \in Outcome, LoseCookies(how)
    PROVE  IInv'
<1>1. /\ Finish(how, {}) /\ {} \in SUBSET Hosts /\ settings' = settings
      /\ known' = known /\ lost' = (lost \/ held # {}) /\ DropLoop
  BY DEF LoseCookies
<1>2. pool' \in SUBSET Conns
  BY <1>1, DropLoopFacts DEF IInv, TypeOK
<1>3. QED
  BY <1>1, <1>2, DropLoopFacts, LostFacts, FinishStep

LEMMA RetriesOverflowStep == ASSUME IInv, RetriesOverflow PROVE IInv'
<1>1. /\ Finish("panic", {}) /\ "panic" \in Outcome /\ {} \in SUBSET Hosts
      /\ settings' = settings /\ known' = known /\ lost' = (lost \/ held # {})
      /\ Release(call.cur, "failed", Removed(call.cur)) /\ pc = "sending" /\ Running
  BY DEF RetriesOverflow, Outcome, Running, Awaits
<1>2. "failed" \in ConnState /\ Removed(call.cur) \in SUBSET Conns
  BY DEF ConnState, IInv, TypeOK, Removed
<1>3. /\ pool' \in SUBSET Conns /\ conn' \in [Conns -> Connection]
      /\ unfin' \in [Conns -> Nat] /\ NoFailedPooled'
  BY <1>1, <1>2, RemovedFacts, CurFacts
<1>4. QED
  BY <1>1, <1>3, LostFacts, FinishStep

LEMMA ZeroReadStep == ASSUME IInv, NEW c \in Conns, ZeroRead(c) PROVE IInv'
<1>1. UNCHANGED <<settings, pool, conn, pc, call, outcome, jar, held, known, lost>>
  BY DEF ZeroRead, cookieVars
<1>2. unfin' \in [Conns -> Nat]
  BY ShareFacts DEF ZeroRead, IInv, TypeOK
<1>3. TypeOK' /\ LocalsInv' /\ NoFailedPooled'
  BY <1>1, <1>2 DEF IInv, TypeOK, LocalsInv, NoFailedPooled
<1>4. RedirectInv' /\ RetryInv' /\ NonIdempotentOnce' /\ CookieInv' /\ CookiesSent'
  BY <1>1 DEF IInv, RedirectInv, RetryInv, NonIdempotentOnce, CookieInv, CookiesSent, Running
<1>5. QED
  BY <1>3, <1>4 DEF IInv

LEMMA BodyEndsStep ==
    ASSUME IInv, NEW c \in Conns, BodyRead(c) \/ BodyDropped(c)
    PROVE  IInv'
<1>1. PICK s \in {"ready", "abandoned"} : Release(c, s, pool)
  BY DEF BodyRead, BodyDropped
<1>2. /\ c # call.cur
      /\ UNCHANGED <<settings, pc, call, outcome, jar, held, known, lost>>
  BY DEF BodyRead, BodyDropped, WithUser, cookieVars
<1>3. TypeOK /\ pool \in SUBSET Conns /\ s \in ConnState /\ s # "failed"
  BY DEF IInv, TypeOK, ConnState
<1>4. /\ pool' = pool /\ conn' \in [Conns -> Connection] /\ unfin' \in [Conns -> Nat]
      /\ \A d \in Conns \ {c} : conn'[d] = conn[d]
      /\ c \in pool => conn'[c].state = s
  BY <1>1, <1>3, ReleaseFacts
<1>5. TypeOK' /\ NoFailedPooled'
  BY <1>2, <1>3, <1>4 DEF IInv, TypeOK, NoFailedPooled
<1>6. LocalsInv'
  BY <1>2, <1>4 DEF IInv, LocalsInv
<1>7. RedirectInv' /\ RetryInv' /\ NonIdempotentOnce' /\ CookieInv' /\ CookiesSent'
  BY <1>2 DEF IInv, RedirectInv, RetryInv, NonIdempotentOnce, CookieInv, CookiesSent, Running
<1>8. QED
  BY <1>5, <1>6, <1>7 DEF IInv
-----------------------------------------------------------------------------
LEMMA InitStep == Init => IInv
<1> SUFFICES ASSUME Init PROVE IInv
  OBVIOUS
<1>1. NoCall \in Call /\ conn \in [Conns -> Connection] /\ \A c \in Conns : conn[c] = Closed
  BY NoCallType DEF Init
<1>2. TypeOK
  BY <1>1, AmountsAssumption DEF Init, TypeOK, Settings, Outcome
<1>3. LocalsInv /\ RedirectInv /\ RetryInv /\ NonIdempotentOnce /\ CookiesSent /\ CookieInv
  BY DEF Init, LocalsInv, RedirectInv, RetryInv, NonIdempotentOnce, CookiesSent, CookieInv,
         Running, Awaits
<1>4. NoFailedPooled
  BY <1>1 DEF Init, NoFailedPooled
<1>5. QED
  BY <1>2, <1>3, <1>4 DEF IInv

LEMMA AnswerStep == IInv /\ Answer => IInv'
<1> SUFFICES ASSUME IInv, Answer PROVE IInv'
  OBVIOUS
<1>1. CASE \E c \in Conns, http2 \in BOOLEAN : Connected(c, http2)
  BY <1>1, ConnectedStep
<1>2. CASE ConnectFailed
  BY <1>2, ConnectFailedStep
<1>3. CASE \E setCookie \in BOOLEAN : FinalResponse(setCookie) \/ RedirectsExhausted(setCookie)
  BY <1>3, AnswerToUserStep
<1>4. CASE \E setCookie \in BOOLEAN : BadLocation(setCookie)
  BY <1>4, BadLocationStep
<1>5. CASE \E setCookie, is307ish \in BOOLEAN, h \in Hosts :
              FollowRedirect(setCookie, h, is307ish)
  BY <1>5, FollowRedirectStep
<1>6. CASE (\E atEnd \in BOOLEAN : Discarded(atEnd)) \/ DiscardFailed
  BY <1>6, DiscardedStep, DiscardFailedStep
<1>7. CASE \E retryable \in BOOLEAN : RequestFailed(retryable)
  BY <1>7, RequestFailedStep
<1>8. CASE RedirectsOverflow
  BY <1>8, LoseCookiesStep DEF RedirectsOverflow, Running, Awaits, Outcome
<1>9. CASE RetriesOverflow
  BY <1>9, RetriesOverflowStep
<1>10. QED
  BY <1>1, <1>2, <1>3, <1>4, <1>5, <1>6, <1>7, <1>8, <1>9 DEF Answer

LEMMA NextStep == IInv /\ [Next]_vars => IInv'
<1> SUFFICES ASSUME IInv, [Next]_vars PROVE IInv'
  OBVIOUS
<1>1. CASE Setters
  BY <1>1, SettersStep
<1>2. CASE \E h \in Hosts, idempotent, timed \in BOOLEAN : Send(h, idempotent, timed)
  BY <1>2, SendStep
<1>3. CASE Answer
  BY <1>3, AnswerStep
<1>4. CASE BackoffDone \/ DeadlinePassed
  BY <1>4, BackoffDoneStep, DeadlinePassedStep
<1>5. CASE DropSend
  BY <1>5, LoseCookiesStep DEF DropSend, Outcome
<1>6. CASE Bodies
  BY <1>6, ZeroReadStep, BodyEndsStep DEF Bodies
<1>7. CASE UNCHANGED vars
  BY <1>7 DEF vars, IInv, TypeOK, LocalsInv, RedirectInv, RetryInv,
              NonIdempotentOnce, NoFailedPooled, CookieInv, CookiesSent, Running
<1>8. QED
  BY <1>1, <1>2, <1>3, <1>4, <1>5, <1>6, <1>7 DEF Next
-----------------------------------------------------------------------------
\* The invariant holds in every reachable state, for every instance of Agent.
THEOREM Invariant == Spec => []IInv
BY InitStep, NextStep, PTL DEF Spec

\* Every variable keeps its type: the i8 counters stay i8, the connection a
\* call uses exists.
THEOREM TypeCorrect == Spec => []TypeOK
<1>1. IInv => TypeOK
  BY DEF IInv
<1>2. QED
  BY <1>1, Invariant, PTL

\* A call follows at most as many redirects as redirects() allows.
THEOREM RedirectsBounded == Spec => []RedirectBound
<1>1. ASSUME IInv PROVE RedirectBound
  <2>1. call.redirects \in I8 /\ call.hops \in Nat /\ settings.redirects \in Nat
    BY <1>1, I8Facts DEF IInv, TypeOK, Call, Settings
  <2>2. RedirectInv
    BY <1>1 DEF IInv
  <2>3. QED
    BY <2>1, <2>2 DEF RedirectInv, RedirectBound, I8
<1>2. QED
  BY <1>1, Invariant, PTL

\* A call sends again at most retries() - 1 times, over all its hops.
THEOREM RetriesBounded == Spec => []RetryBound
<1>1. IInv => RetryBound
  BY I8Facts DEF IInv, TypeOK, Settings, Call, RetryInv, RetryBound, I8
<1>2. QED
  BY <1>1, Invariant, PTL

\* A request that is not idempotent is never sent again after an error.
THEOREM NonIdempotentSentOnce == Spec => []NonIdempotentOnce
<1>1. IInv => NonIdempotentOnce
  BY DEF IInv
<1>2. QED
  BY <1>1, Invariant, PTL

\* No connection on which the loop saw a failure is in the pool.
THEOREM FailedNeverPooled == Spec => []NoFailedPooled
<1>1. IInv => NoFailedPooled
  BY DEF IInv
<1>2. QED
  BY <1>1, Invariant, PTL

\* Every end of a call but a lost future gives the cookies back.
THEOREM CookiesAreRestored == Spec => []CookiesRestored
<1>1. IInv => CookiesRestored
  BY DEF IInv, CookieInv, CookiesRestored
<1>2. QED
  BY <1>1, Invariant, PTL

\* Every request carries the cookies its host has set.
THEOREM CookiesAreSent == Spec => []CookiesSent
<1>1. IInv => CookiesSent
  BY DEF IInv
<1>2. QED
  BY <1>1, Invariant, PTL

\* A redirect response is handed over only when the allowance is used up.
THEOREM RedirectsAreHonoured == Spec => RedirectsHonoured
<1> DEFINE Exact == Running /\ outcome' = "redirect" /\ settings.redirects < Half
                       => call.hops = settings.redirects
<1>1. IInv /\ [Next]_vars => [Exact]_vars
  <2> SUFFICES ASSUME IInv, Next, Running, outcome' = "redirect", settings.redirects < Half
               PROVE  call.hops = settings.redirects
    BY DEF vars
  <2>1. pc # "idle" /\ outcome = "none"
    BY DEF IInv, LocalsInv, Running, Awaits
  <2>2. PICK setCookie \in BOOLEAN : RedirectsExhausted(setCookie)
    BY <2>1 DEF Next, Setters, SetRedirects, SetRetries, SetPooling, SetCookies, Send,
                Answer, Connected, ConnectFailed, FinalResponse, BadLocation,
                FollowRedirect, Discarded, DiscardFailed, RequestFailed, RedirectsOverflow,
                RetriesOverflow, BackoffDone, DeadlinePassed, DropSend, LoseCookies, Bodies,
                ZeroRead, BodyRead, BodyDropped, Finish
  <2>3. call.redirects \in I8 /\ call.hops \in Nat /\ settings.redirects \in Nat
    BY I8Facts DEF IInv, TypeOK, Call, Settings
  <2>4. call.redirects >= 0 /\ call.hops = settings.redirects - call.redirects
    BY DEF IInv, RedirectInv
  <2>5. Decr(call.redirects) = call.redirects - 1 /\ Decr(call.redirects) < 0
    BY <2>2, <2>3, <2>4, I8Facts DEF RedirectsExhausted, NoRedirectLeft
  <2>6. QED
    BY <2>3, <2>4, <2>5 DEF I8
<1>2. QED
  BY <1>1, Invariant, PTL DEF Spec, RedirectsHonoured
=============================================================================
