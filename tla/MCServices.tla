----------------------------- MODULE MCServices -----------------------------
(* The services of the application for TLC: the hub, the database             *)
(* Broadcaster, the scheduler, the session's pipeline, the gate before it and *)
(* the routes behind it.                                                      *)
(* A behaviour is about one of them, chosen at the start; the state of the    *)
(* others stays as it was.                                                    *)
EXTENDS Hub, TLC

CONSTANTS
  Subscriptions, Publishers, Topics, BatchSize, TrimBatch, MaxRows, MaxDbFaults, \* DbBroadcaster
  Schedules, Second, Interval, Jitter, MaxClock, MaxScheduleFaults,              \* Scheduler
  Visitors, Requests, None, Keep, MaxTokens,                                     \* WebSession
  Clients, Proxies, Garbage, Limit, MaxPath, MaxLines, MaxEntries, MaxArrivals, \* RequestGate
  MaxMiddleware, MaxGroups, MaxRoutes                                            \* Routing

VARIABLES
  part,                       \* the part this behaviour is about
  rows, stale, lastRow, publish, cursor, loop, listeners, sub, backend, closing, dbFaults, owed,
  late, arrived,
  clock, due, ticked, nextRun, turn, tickTime, called, calls, enqueued, slow, tooSoon, restarts,
  scheduleFaults,
  stack, jar, page, request, stored, tokens, ideal, excused, madeFor,
  lines, path, stage, clientIP, counter, sent, served, refused, arrivals, split,
  arrays, router, groups, routes, made

Cast == INSTANCE DbBroadcaster WITH subs <- listeners
Sched == INSTANCE Scheduler
Web == INSTANCE WebSession
Gate == INSTANCE RequestGate
Routes == INSTANCE Routing

\* Two schedules, of a second and a half and of no interval at all, as a test has
\* it.
MCSchedules == <<"a", "b">>
MCInterval == [a |-> 3, b |-> 0]

castVars == <<rows, stale, lastRow, publish, cursor, loop, listeners, sub, backend, closing,
              dbFaults, owed, late, arrived>>
schedVars == <<clock, due, ticked, nextRun, turn, tickTime, called, calls, enqueued, slow, tooSoon,
               restarts, scheduleFaults>>
webVars == <<stack, jar, page, request, stored, tokens, ideal, excused, madeFor>>
gateVars == <<lines, path, stage, clientIP, counter, sent, served, refused, arrivals, split>>
routeVars == <<arrays, router, groups, routes, made>>
mcvars == <<part, vars, castVars, schedVars, webVars, gateVars, routeVars>>

MCInit ==
  /\ part \in {"hub", "cast", "sched", "web", "gate", "routes"}
  /\ Init /\ Cast!Init /\ Sched!Init /\ Gate!Init
  /\ Web!Init /\ (part # "web" => stack = <<"session", "csrf">>)
  /\ Routes!Init /\ (part # "routes" => arrays[1].cap = 1)

MCNext ==
  \/ part = "hub" /\ Next /\ UNCHANGED <<part, castVars, schedVars, webVars, gateVars, routeVars>>
  \/ part = "cast" /\ Cast!Next /\ UNCHANGED <<part, vars, schedVars, webVars, gateVars, routeVars>>
  \/ part = "sched" /\ Sched!Next /\ UNCHANGED <<part, vars, castVars, webVars, gateVars, routeVars>>
  \/ part = "web" /\ Web!Next /\ UNCHANGED <<part, vars, castVars, schedVars, gateVars, routeVars>>
  \/ part = "gate" /\ Gate!Next /\ UNCHANGED <<part, vars, castVars, schedVars, webVars, routeVars>>
  \/ part = "routes" /\ Routes!Next /\ UNCHANGED <<part, vars, castVars, schedVars, webVars, gateVars>>

MCSpec == MCInit /\ [][MCNext]_mcvars

-----------------------------------------------------------------------------
(* Bounds                                                                     *)

\* No property tells two connections, two Subscribe calls or two visitors (who are
\* the clients of RequestGate as well) apart.
Symmetry == Permutations(Conns) \cup Permutations(Calls) \cup Permutations(Visitors)

\* Bounds the search: two payloads are followed only while nothing has raced in the
\* hub and the Broadcaster is open, and nothing after a header of several lines.
Bound ==
  /\ published = 2 => ~raced /\ ~bclosed
  /\ ~split

\* The runs that show what one part does not keep follow that part alone.
OnlyCast == part = "cast"
OnlySched == part = "sched"

-----------------------------------------------------------------------------
(* The properties of the parts, each about the behaviours of its own.         *)

\* The Broadcaster skips no row but one that commits late, sends none twice and
\* none on a closed channel.
DeliveredOnce == Cast!DeliveredOnce
\* What Subscribe's comment promises: a late row as well.
EveryPayload == Cast!EveryPayload
\* Schedules run once each restart more than their Intervals say, give or take the
\* jitter of the ticker.
KeepsInterval == Sched!KeepsInterval
\* What Schedule's comment says: never sooner than an Interval after the last run.
IntervalKept == Sched!IntervalKept
\* Cookies carry each visitor's own session, unless httpcache sits outside.
SessionIsOnesOwn == Web!SessionIsOnesOwn
\* Unsafe methods need a token made for the visitor.
UnsafeIsVerified == Web!UnsafeIsVerified
\* The limit is the client's own.
LimitPerClient == Gate!LimitPerClient
\* A route runs the middleware of its own groups.
RouteRunsItsOwn == Routes!RouteRunsItsOwn
=============================================================================
