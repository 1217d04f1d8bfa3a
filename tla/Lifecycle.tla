----------------------------- MODULE Lifecycle -----------------------------
(***************************************************************************)
(* Trail.Run (trail.go): the HTTP server and every Runner, each in a       *)
(* goroutine of its own, until a signal, the end of the application's      *)
(* context, or the first error of any of them; then the shutdown.          *)
(***************************************************************************)
EXTENDS Naturals, Sequences, FiniteSets

CONSTANTS
  Runners,      \* TrailOptions.Runners
  Requests      \* requests that may come in

VARIABLES
  main,         \* where Run is
  server,       \* what ListenAndServe and Shutdown have made of the server
  runner,       \* the Runners' goroutines
  request,      \* requests: open ones keep their connection busy
  errs,         \* the errors in the channel, which has room for one of each
  cancelled,    \* the application's own context has ended
  stopped,      \* the context of Run and its Runners is done
  overtime,     \* the five seconds of Shutdown are over
  runErr        \* what Run will return; "" is nil

vars == <<main, server, runner, request, errs, cancelled, stopped, overtime, runErr>>

\* cap(errs)
Room == 1 + Cardinality(Runners)

Init ==
  /\ main = "select" /\ server = "listening"
  /\ runner = [r \in Runners |-> "running"]
  /\ request = [q \in Requests |-> "none"]
  /\ errs = <<>> /\ runErr = ""
  /\ cancelled = FALSE /\ stopped = FALSE /\ overtime = FALSE

-----------------------------------------------------------------------------
(* The server and its requests                                             *)

Arrive(q) ==
  /\ server = "listening" /\ request[q] = "none"
  /\ request' = [request EXCEPT ![q] = "open"]
  /\ UNCHANGED <<main, server, runner, errs, cancelled, stopped, overtime, runErr>>

Respond(q) ==
  /\ request[q] = "open"
  /\ request' = [request EXCEPT ![q] = "answered"]
  /\ UNCHANGED <<main, server, runner, errs, cancelled, stopped, overtime, runErr>>

\* ListenAndServe returns an error of its own, and sends it.
ServeFails ==
  /\ server = "listening" /\ Len(errs) < Room
  /\ server' = "failed"
  /\ errs' = Append(errs, "server")
  /\ UNCHANGED <<main, runner, request, cancelled, stopped, overtime, runErr>>

-----------------------------------------------------------------------------
(* The Runners                                                             *)

\* A Runner returns nil: when it likes, and when its context is done.
RunnerReturns(r) ==
  /\ runner[r] = "running"
  /\ runner' = [runner EXCEPT ![r] = "done"]
  /\ UNCHANGED <<main, server, request, errs, cancelled, stopped, overtime, runErr>>

\* ... or an error, which its goroutine has to send before it is done.
RunnerFails(r) ==
  /\ runner[r] = "running"
  /\ runner' = [runner EXCEPT ![r] = "sending"]
  /\ UNCHANGED <<main, server, request, errs, cancelled, stopped, overtime, runErr>>

SendError(r) ==
  /\ runner[r] = "sending" /\ Len(errs) < Room
  /\ errs' = Append(errs, "runner")
  /\ runner' = [runner EXCEPT ![r] = "done"]
  /\ UNCHANGED <<main, server, request, cancelled, stopped, overtime, runErr>>

-----------------------------------------------------------------------------
(* Run                                                                     *)

\* A signal comes.
Signal ==
  /\ ~stopped
  /\ stopped' = TRUE
  /\ UNCHANGED <<main, server, runner, request, errs, cancelled, overtime, runErr>>

\* The application cancels TrailOptions.Context, from which the others derive.
Cancel ==
  /\ ~cancelled
  /\ cancelled' = TRUE /\ stopped' = TRUE
  /\ UNCHANGED <<main, server, runner, request, errs, overtime, runErr>>

\* The select, whichever is ready.
SelectError ==
  /\ main = "select" /\ errs # <<>>
  /\ runErr' = Head(errs) /\ errs' = Tail(errs)
  /\ main' = "stop"
  /\ UNCHANGED <<server, runner, request, cancelled, stopped, overtime>>

SelectDone ==
  /\ main = "select" /\ stopped
  /\ main' = "stop"
  /\ UNCHANGED <<server, runner, request, errs, cancelled, stopped, overtime, runErr>>

\* Variant: the context ends with Run.
Stop_deferred ==
  /\ main = "stop"
  /\ server' = IF server = "listening" THEN "closing" ELSE server
  /\ main' = "shutdown"
  /\ UNCHANGED <<runner, request, errs, cancelled, stopped, overtime, runErr>>

\* stop(), then Shutdown closes the listener.
Stop ==
  /\ main = "stop"
  /\ stopped' = TRUE
  /\ server' = IF server = "listening" THEN "closing" ELSE server
  /\ main' = "shutdown"
  /\ UNCHANGED <<runner, request, errs, cancelled, overtime, runErr>>

Open == {q \in Requests : request[q] = "open"}

\* Five seconds pass.
TimeOut ==
  /\ main = "shutdown" /\ ~overtime
  /\ overtime' = TRUE
  /\ UNCHANGED <<main, server, runner, request, errs, cancelled, stopped, runErr>>

\* Shutdown returns nil: no connection is busy.
ShutdownOk ==
  /\ main = "shutdown" /\ Open = {}
  /\ main' = "wait"
  /\ UNCHANGED <<server, runner, request, errs, cancelled, stopped, overtime, runErr>>

\* Variant: the server is left alone.
ForceClose_never == UNCHANGED <<server, request, runErr>>

\* Shutdown gave up: close every connection, unless an error came before it.
ForceClose ==
  IF runErr = ""
  THEN /\ server' = "closed"
       /\ request' = [q \in Requests |-> IF q \in Open THEN "cut" ELSE request[q]]
       /\ runErr' = "shutdown"
  ELSE UNCHANGED <<server, request, runErr>>

\* Shutdown returns an error: its context is done, by time or from the start.
ShutdownFails ==
  /\ main = "shutdown" /\ Open # {} /\ (overtime \/ cancelled)
  /\ ForceClose
  /\ main' = "wait"
  /\ UNCHANGED <<runner, errs, cancelled, stopped, overtime>>

\* wg.Wait, and Run returns.
Return ==
  /\ main = "wait" /\ \A r \in Runners : runner[r] = "done"
  /\ main' = "returned"
  /\ UNCHANGED <<server, runner, request, errs, cancelled, stopped, overtime, runErr>>

MainStep == SelectError \/ SelectDone \/ Stop \/ TimeOut \/ ShutdownOk \/ ShutdownFails \/ Return

Next ==
  \/ Signal \/ Cancel \/ ServeFails \/ MainStep
  \/ \E q \in Requests : Arrive(q) \/ Respond(q)
  \/ \E r \in Runners : RunnerReturns(r) \/ RunnerFails(r) \/ SendError(r)

\* Goroutines keep running, and a Runner returns "once ctx is cancelled"; a
\* request may take for ever.
Fairness ==
  /\ WF_vars(MainStep)
  /\ \A r \in Runners :
       WF_vars(stopped /\ (RunnerReturns(r) \/ RunnerFails(r))) /\ WF_vars(SendError(r))

Spec == Init /\ [][Next]_vars /\ Fairness

-----------------------------------------------------------------------------
(* Properties                                                              *)

\* Run returns once it is told to stop or anything of it fails, however many
\* Runners fail at once and however long requests take: nobody is left waiting
\* for room in errs, for a context that nobody cancels, or for a request.
RunReturns == (stopped \/ errs # <<>>) ~> main = "returned"

\* When Run has returned, nothing of the application is left at work: "gives the
\* HTTP server 5 seconds to finish in-flight requests via Shutdown before
\* force-closing it, then waits for every Runner to return".
NothingLeftBehind ==
  main = "returned" => Open = {} /\ \A r \in Runners : runner[r] = "done"

\* It holds unless an error made Run stop and a request outlasted Shutdown; and
\* a request is only cut off by a Shutdown that had its five seconds, unless the
\* application's context ended.
LeftBehindOnlyAfterError ==
  /\ NothingLeftBehind \/ (runErr \in {"server", "runner"} /\ (overtime \/ cancelled))
  /\ (\E q \in Requests : request[q] = "cut") => runErr = "shutdown" /\ (overtime \/ cancelled)
=============================================================================
