---------------------------- MODULE MCCloudTask ----------------------------
(* The Cloud Tasks backend for TLC: two jobs pushed over two requests, or     *)
(* the chain of cleanup tasks under two Enqueue calls and two pushes.  A      *)
(* behaviour is about one of the two, chosen at the start; the state of the   *)
(* other stays as it was.                                                     *)
EXTENDS CloudTask

CONSTANTS j1, j2, s1, s2, Stamps, Enqueues, Zero, Sentinel, MaxChainFaults

VARIABLES
  part,                                             \* "jobs" or "chain"
  nextRunAt, past, tasks, enqs, passes, chainFaults \* the state of CleanupChain

\* Both jobs share a concurrency key, or neither has one.
MCKeyedSets == {Jobs, {}}

Chain == INSTANCE CleanupChain WITH
           MaxFaults <- MaxChainFaults, enq <- enqs, push <- passes, faults <- chainFaults

chainVars == <<nextRunAt, past, tasks, enqs, passes, chainFaults>>
mcvars == <<part, vars, chainVars>>

MCInit ==
  /\ part \in {"jobs", "chain"}
  /\ Init /\ (part = "chain" => keyed = {})
  /\ Chain!Init

MCNext ==
  \/ part = "jobs" /\ Next /\ UNCHANGED <<part, chainVars>>
  \/ part = "chain" /\ Chain!Next /\ UNCHANGED <<part, vars>>

OfJobs(A) == part = "jobs" /\ A /\ UNCHANGED <<part, chainVars>>
OfChain(A) == part = "chain" /\ A /\ UNCHANGED <<part, vars>>

\* CloudTask!Fairness and CleanupChain!Fairness.  A behaviour is about one of
\* them, so that fairness of one action or of another that belongs to the other
\* part is fairness of each.
MCFairness ==
  /\ \A x \in {<<j1, s1>>, <<j2, s2>>} :
       SF_mcvars(OfJobs(Deliver(x[1])) \/ OfChain(Chain!Deliver(x[2])))
  /\ \A s \in Stamps \ {s1, s2} : SF_mcvars(OfChain(Chain!Deliver(s)))
  /\ \A s \in Stamps : WF_mcvars(OfChain(Chain!Pass(s)))
  /\ \A p \in Pushes : WF_mcvars(OfJobs(HandlerStep(p)) \/ OfChain(Chain!PushStep(p)))
  /\ \A e \in Enqueues : WF_mcvars(OfChain(Chain!EnqueueStep(e)))
  /\ WF_mcvars(OfChain(\E e \in Enqueues : Chain!ClaimBootstrap(e)))

MCSpec == MCInit /\ [][MCNext]_mcvars /\ MCFairness

-----------------------------------------------------------------------------
(* The properties of the chain.                                               *)

\* The chain has one owner and one pass while nothing fails.
OnePassOwnsTheChain == Chain!OnePassOwnsTheChain
\* The chain is armed again unless the sentinel stays for good.
ArmedAgain == part = "chain" => Chain!ArmedAgain
=============================================================================
