------------------------------ MODULE Routing ------------------------------
(***************************************************************************)
(* Routes of a server: how they are registered (server/router.rs,          *)
(* server/route.rs, server/path.rs) and how a request is dispatched        *)
(* through routers, middleware and handlers (server/chain.rs,              *)
(* Server::handle(), Server::do_listen()).                                 *)
(*                                                                         *)
(* A path is a sequence of pieces, each the text between two slashes.      *)
(* Some pieces are wildcards when they stand in a path that is registered: *)
(* ":x" takes one piece of a request, "*r" all that are left.  In a        *)
(* request they are pieces like others.  Paths start with a slash, no      *)
(* piece is a prefix of another.                                           *)
(***************************************************************************)
EXTENDS Integers, Sequences, FiniteSets, SequencesExt

CONSTANTS
    Routers,     \* the routers the program makes; one of them is
    Root,        \* the server's own
    Patterns,    \* paths that are registered in each router
    Singles,     \* the pieces that take one piece
    Rests,       \* the pieces that take the rest
    Nameless,    \* wildcards without a name
    Targets,     \* paths that are requested
    Methods,     \* methods of requests and handlers
    All,         \* RouteMethod::All
    Middlewares, \* middlewares
    MaxOps       \* bound: registrations

ASSUME RoutersAssumption == Root \in Routers /\ "handler" \notin Routers
ASSUME PatternsAssumption ==
    Patterns \in [Routers -> SUBSET Seq(STRING)] /\ Targets \subseteq Seq(STRING)
ASSUME WildcardsAssumption == Singles \cap Rests = {} /\ Nameless \subseteq Singles \cup Rests
ASSUME MethodsAssumption == All \notin Methods /\ MaxOps \in Nat

VARIABLES
    routers,  \* the routers as the program has them; the endpoints of a router
              \* are in the order of their ids, in which they were added
    mounted,  \* routers that were given to a route, and are part of it now
    route,    \* the Route that is being configured, or NoRoute
    served,   \* the routers a listening server has, or NotListening
    req,      \* the request that is dispatched, or NoRequest
    log       \* history: the registrations, and where listen() was called

routingVars == <<routers, mounted, route, served, req, log>>
-----------------------------------------------------------------------------
NoRoute == [router |-> "none"]
NotListening == <<>>
NoRequest == [pc |-> "none"]

Wild(piece) == piece \in Singles \cup Rests

\* Segment::from(): what follows a rest is left out.
Segments(path) ==
    LET rests == {i \in DOMAIN path : path[i] \in Rests}
    IN  IF rests = {} THEN path
        ELSE SubSeq(path, 1, CHOOSE i \in rests : \A j \in rests : i <= j)

NamedIn(segments) == {i \in DOMAIN segments : Wild(segments[i]) /\ segments[i] \notin Nameless}

\* No path names a parameter twice, for which Regex::new() would fail.
ASSUME NamesAssumption ==
    \A r \in Routers : \A path \in Patterns[r] :
        LET segments == Segments(path)
        IN  \A i, j \in NamedIn(segments) : segments[i] = segments[j] => i = j

\* What Segment::eq() sees: the names of wildcards are not considered.
Shape(path) ==
    LET segments == Segments(path)
    IN  [i \in DOMAIN segments |->
            IF segments[i] \in Singles THEN "/:" ELSE
            IF segments[i] \in Rests THEN "/*" ELSE segments[i]]

\* ParsedPath.matcher, which is anchored at both ends.
Matches(pattern, path) ==
    LET segments == Segments(pattern)
        n == Len(segments)
    IN  /\ IF n > 0 /\ segments[n] \in Rests THEN Len(path) >= n ELSE Len(path) = n
        /\ \A i \in DOMAIN segments : Wild(segments[i]) \/ segments[i] = path[i]

\* As if a rest were given its first piece.
ParamsFirst(pattern, path) ==
    LET segments == Segments(pattern)
    IN  [name \in {segments[i] : i \in NamedIn(segments)} |->
            LET i == CHOOSE k \in NamedIn(segments) : segments[k] = name IN <<path[i]>>]

\* path_match(): the named parameters.
Params(pattern, path) ==
    LET segments == Segments(pattern)
    IN  [name \in {segments[i] : i \in NamedIn(segments)} |->
            LET i == CHOOSE k \in NamedIn(segments) : segments[k] = name
            IN  IF name \in Rests THEN SubSeq(path, i, Len(path)) ELSE <<path[i]>>]

After(path, prefix) == SubSeq(path, Len(prefix) + 1, Len(path))

\* impl PartialEq<http::Method> for RouteMethod
Handles(method, requested) == method = All \/ method = requested
-----------------------------------------------------------------------------
RoutingInit ==
    /\ routers = [r \in Routers |-> [prefix |-> <<>>, endpoints |-> {}]]
    /\ mounted = {} /\ route = NoRoute
    /\ served = NotListening /\ req = NoRequest
    /\ log = <<>>

\* Router::reset()
WithoutPath(endpoints, path) ==
    {e \in endpoints : Shape(e.path) # Shape(path)}

Registers(entry) == Len(log) < MaxOps /\ log' = Append(log, entry)

\* Router::at(), Server::at(): endpoints of the path go, even if none comes.
At(r, path) ==
    /\ r \notin mounted
    /\ Registers([op |-> "at", router |-> r, path |-> path])
    /\ routers' = [routers EXCEPT ![r].endpoints = WithoutPath(@, path)]
    /\ route' = [router |-> r, path |-> path, mids |-> <<>>]
    /\ UNCHANGED <<mounted, served, req>>

\* middleware()
AddMiddleware(m) ==
    /\ route # NoRoute
    /\ Registers([op |-> "middleware", mid |-> m])
    /\ route' = [route EXCEPT !.mids = Append(@, m)]
    /\ UNCHANGED <<routers, mounted, served, req>>

\* Router::add_handler(), with the middlewares the route has by now.
AddHandler(method, end) ==
    routers' = [routers EXCEPT ![route.router].endpoints =
                  @ \cup {[method |-> method, path |-> route.path, mids |-> route.mids,
                           id |-> Len(log'), end |-> end]}]

\* method(), get(), ..., all(): the handler is known by its place in the log.
Method(method) ==
    /\ route # NoRoute
    /\ Registers([op |-> "handler", method |-> method])
    /\ AddHandler(method, "handler")
    /\ UNCHANGED <<mounted, route, served, req>>

\* router(): the router gets its prefix and moves into an endpoint.
Mount(r) ==
    /\ route # NoRoute
    /\ r \notin mounted \cup {Root, route.router}
    /\ Registers([op |-> "router", router |-> r])
    /\ routers' = [routers EXCEPT
          ![route.router].endpoints =
              @ \cup {[method |-> All, path |-> route.path, mids |-> route.mids,
                       id |-> Len(log'), end |-> r]},
          ![r].prefix = route.path]
    /\ mounted' = mounted \cup {r}
    /\ UNCHANGED <<route, served, req>>

\* listen(): the server's router is cloned, with all that is in it.
Listen ==
    /\ served = NotListening
    /\ Registers([op |-> "listen"])
    /\ served' = routers
    /\ route' = NoRoute
    /\ UNCHANGED <<routers, mounted, req>>
-----------------------------------------------------------------------------
(***************************************************************************)
(* A request.  pc is "router" when Router::run() is next, "chain" when the *)
(* middlewares of an endpoint and then its end are, and otherwise the      *)
(* answer: what the handler or a middleware made ("handled", "stopped"),   *)
(* or "404", or "panic".  Requests do not change the routers: one is       *)
(* dispatched, after any registrations.                                    *)
(***************************************************************************)
Pc == {"none", "router", "chain", "handled", "stopped", "404", "panic"}

\* As if the listening server shared the router with the program.
RoutersOfShared(socket) == routers

\* handle() uses the routers of the program, a listening server its own.
RoutersOf(socket) == IF socket THEN served ELSE routers

\* A request comes over a socket, or is given to handle().
Request(socket, method, path) ==
    /\ req = NoRequest
    /\ route' = NoRoute
    /\ socket => served # NotListening
    /\ req' = [pc |-> "router", socket |-> socket, method |-> method, path |-> path,
               router |-> Root, rest |-> path, todo |-> <<>>, ran |-> <<>>,
               ep |-> 0, end |-> "none", params |-> <<>>]
    /\ UNCHANGED <<routers, mounted, served, log>>

\* The endpoint a router uses: the first that fits, if one does.
FirstFit(endpoints, method, path) ==
    LET fits == {e \in endpoints : Handles(e.method, method) /\ Matches(e.path, path)}
    IN  {e \in fits : \A f \in fits : e.id <= f.id}

\* Router::run()
RouterRuns ==
    /\ req.pc = "router"
    /\ LET router == RoutersOf(req.socket)[req.router]
           path == After(req.path, router.prefix)
           use == FirstFit(router.endpoints, req.method, path)
       IN  IF ~IsPrefix(router.prefix, req.path) THEN req' = [req EXCEPT !.pc = "panic"]
           ELSE IF use = {} THEN req' = [req EXCEPT !.pc = "404", !.rest = path, !.ep = 0]
           ELSE \E ep \in use :
                  req' = [req EXCEPT !.pc = "chain", !.rest = path, !.ep = ep.id, !.todo = ep.mids,
                                     !.ran = <<>>, !.end = ep.end, !.params = Params(ep.path, path)]
    /\ UNCHANGED <<routers, mounted, route, served, log>>

\* A middleware calls next.run(), or answers by itself.
MiddlewareRuns(goesOn) ==
    /\ req.pc = "chain"
    /\ req.todo # <<>>
    /\ req' = [req EXCEPT !.todo = Tail(@), !.ran = Append(@, Head(req.todo)),
                          !.pc = IF goesOn THEN @ ELSE "stopped"]
    /\ UNCHANGED <<routers, mounted, route, served, log>>

\* End::run(): the handler, or the router that is mounted here.
EndRuns ==
    /\ req.pc = "chain"
    /\ req.todo = <<>>
    /\ req' = IF req.end = "handler" THEN [req EXCEPT !.pc = "handled"]
                                     ELSE [req EXCEPT !.pc = "router", !.router = req.end]
    /\ UNCHANGED <<routers, mounted, route, served, log>>

Registration ==
    \/ \E r \in Routers : \E path \in Patterns[r] : At(r, path)
    \/ \E m \in Middlewares : AddMiddleware(m)
    \/ \E method \in Methods \cup {All} : Method(method)
    \/ \E r \in Routers : Mount(r)
    \/ Listen

RoutingNext ==
    \/ req = NoRequest /\ Registration
    \/ \E socket \in BOOLEAN, method \in Methods, path \in Targets : Request(socket, method, path)
    \/ RouterRuns
    \/ \E goesOn \in BOOLEAN : MiddlewareRuns(goesOn)
    \/ EndRuns

RoutingSpec == RoutingInit /\ [][RoutingNext]_routingVars
-----------------------------------------------------------------------------
(***************************************************************************)
(* Dispatching as the registrations read: entry i of the log, a handler or *)
(* a router, belongs to the last at() before it, and stands until at() is  *)
(* called for the same path again.                                         *)
(***************************************************************************)
\* What was registered for the server that the request came to.
Known ==
    IF req.socket THEN SubSeq(log, 1, CHOOSE i \in DOMAIN log : log[i].op = "listen") ELSE log

\* The call of at() that entry i of a log is for.
AtOf(entries, i) ==
    CHOOSE j \in 1 .. i : entries[j].op = "at" /\ \A k \in j + 1 .. i : entries[k].op # "at"

Stands(entries, i) ==
    LET at == entries[AtOf(entries, i)]
    IN  /\ entries[i].op \in {"handler", "router"}
        /\ \A j \in i + 1 .. Len(entries) :
              ~(entries[j].op = "at" /\ entries[j].router = at.router
                  /\ Shape(entries[j].path) = Shape(at.path))

\* The entries that can take what the request is in router r.
Takers(r) ==
    {i \in DOMAIN Known :
        LET at == Known[AtOf(Known, i)]
        IN  /\ Stands(Known, i) /\ at.router = r
            /\ Known[i].op = "handler" => Handles(Known[i].method, req.method)
            /\ Matches(at.path, req.rest)}

\* Where the middlewares were added that the route of entry i had before it.
MiddlewaresOf(entries, i) ==
    {j \in AtOf(entries, i) .. i : entries[j].op = "middleware"}

\* All that were added at these places, in their order.
AddedAt(mids, entries, places) ==
    \E at \in [DOMAIN mids -> places] :
        /\ \A k \in DOMAIN mids : mids[k] = entries[at[k]].mid
        /\ \A k, l \in DOMAIN mids : k < l => at[k] < at[l]
        /\ \A j \in places : \E k \in DOMAIN mids : at[k] = j

\* Types; a request has a router to go to.
RoutingTypeOK ==
    /\ DOMAIN routers = Routers
    /\ mounted \in SUBSET (Routers \ {Root})
    /\ req.pc \in Pc
    /\ req # NoRequest => req.router \in mounted \cup {Root} /\ req.ep \in 0 .. Len(log)
    /\ Len(log) <= MaxOps

\* A request is handled by the earliest registration that fits it and was not
\* overwritten, "Reusing the same `path` will overwrite the previous config.",
\* and for a listening server by one that was there when listen() was called
\* (server/mod.rs:243, 256-258).
EarliestHandles ==
    /\ req.pc = "404" => Takers(req.router) = {}
    /\ req.pc = "chain" => /\ req.ep \in Takers(req.router)
                          /\ \A i \in Takers(req.router) : req.ep <= i

\* An endpoint is reached through the middlewares that its route had before it
\* was added, in their order, and through no other (server/route.rs:36,
\* server/router.rs:108-112).
MiddlewareInOrder ==
    req.pc = "chain" =>
        AddedAt(req.ran \o req.todo, Known, MiddlewaresOf(Known, req.ep))

\* The assertion on the prefix of a router fails only when one is mounted where
\* the path has a wildcard (server/router.rs:119, server/route.rs:51).
PanicOnlyUnderWildcard ==
    req.pc = "panic" =>
        \E r \in mounted : \E i \in DOMAIN routers[r].prefix : Wild(routers[r].prefix[i])

\* What becomes of a request is what the registrations say: who handles it, what
\* is in between, and that it is not lost in an assertion.
DispatchFollowsRegistrations == EarliestHandles /\ MiddlewareInOrder /\ PanicOnlyUnderWildcard

\* The parameters put back into the path that was registered give the path that
\* was requested: no piece is lost or given to another name (server/path.rs:39-53).
ParamsRebuildPath ==
    req.pc = "chain" =>
        LET segments == Segments(Known[AtOf(Known, req.ep)].path)
        IN  (\A i \in DOMAIN segments : segments[i] \notin Nameless) =>
              req.rest = FlattenSeq([i \in DOMAIN segments |->
                  IF Wild(segments[i]) THEN req.params[segments[i]] ELSE <<segments[i]>>])

\* "Resulting route is /much/hello/<name>" (server/router.rs:44): a route of a
\* router that is mounted at a plain path is found under that path.
NestedRouteFound ==
    req.pc = "404" /\ req.router = Root =>
        \A ep \in RoutersOf(req.socket)[Root].endpoints :
            (/\ ep.end # "handler"
             /\ \A k \in DOMAIN ep.path : ~Wild(ep.path[k])
             /\ IsPrefix(ep.path, req.path))
            => FirstFit(routers[ep.end].endpoints, req.method, After(req.path, ep.path)) = {}
=============================================================================
