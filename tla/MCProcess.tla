----------------------------- MODULE MCProcess -----------------------------
(* What runs inside one process of the application, for TLC: the in-process   *)
(* job backend, and Trail.Run.  A behaviour is about one of the two, chosen   *)
(* at the start; the state of the other stays as it was.                      *)
EXTENDS AsyncJobs

CONSTANTS k1, k2, p1, c1, w1, w2, r1, r2, Runners, Requests

VARIABLES
  part,   \* "jobs" or "trail"
  main, server, runner, request, errs, cancelled, stopped, overtime, runErr

-----------------------------------------------------------------------------
(* Two jobs of a key, one of them delayed, and a job that enqueues another;   *)
(* one or two workers.                                                        *)

MCJobs == {k1, k2, p1, c1}
MCSpawns == [j \in MCJobs |-> IF j = p1 THEN c1 ELSE NoJob]
MCPools == {{w1}, {w1, w2}}

Trail == INSTANCE Lifecycle

trailVars == <<main, server, runner, request, errs, cancelled, stopped, overtime, runErr>>
mcvars == <<part, vars, trailVars>>

MCInit ==
  /\ part \in {"jobs", "trail"}
  /\ Init /\ (part # "jobs" => worker[w2].pc = "exited")
  /\ Trail!Init

OfJobs(A) == part = "jobs" /\ A /\ UNCHANGED <<part, trailVars>>
OfTrail(A) == part = "trail" /\ A /\ UNCHANGED <<part, vars>>

MCNext ==
  \/ part = "jobs" /\ Next /\ UNCHANGED <<part, trailVars>>
  \/ part = "trail" /\ Trail!Next /\ UNCHANGED <<part, vars>>

\* The Fairness of the parts.  A behaviour is about one of them, so that fairness
\* of an action of one or an action of another is fairness of each.
MCFairness ==
  /\ \A x \in {<<w1, r1>>, <<w2, r2>>} :
       WF_mcvars(OfJobs(WorkerStep(x[1])) \/ OfTrail(Trail!SendError(x[2])))
  /\ \A x \in {<<k1, r1>>, <<k2, r2>>} :
       WF_mcvars(OfJobs(Fire(x[1]))
                 \/ OfTrail(stopped /\ (Trail!RunnerReturns(x[2]) \/ Trail!RunnerFails(x[2]))))
  /\ \A j \in {p1, c1} : WF_mcvars(OfJobs(Fire(j)))
  /\ \A j \in Jobs : SF_mcvars(OfJobs(Send(j))) /\ WF_mcvars(OfJobs(Drop(j)))
  /\ WF_mcvars(OfJobs(DrainReturns) \/ OfTrail(Trail!MainStep))

MCSpec == MCInit /\ [][MCNext]_mcvars /\ MCFairness

-----------------------------------------------------------------------------
(* The properties of the parts, each about the behaviours of its own.         *)

\* Accepted jobs are settled and Close returns.
JobsAndCloseEnd == AcceptedIsSettled /\ CloseReturns
\* Run returns once it is to stop.
RunReturns == part = "trail" => Trail!RunReturns
\* Nothing is left at work after Run: what its comment says.
NothingLeftBehind == Trail!NothingLeftBehind
\* Nothing is left at work after Run, but by an error before a Shutdown that fails.
LeftBehindOnlyAfterError == Trail!LeftBehindOnlyAfterError
=============================================================================
