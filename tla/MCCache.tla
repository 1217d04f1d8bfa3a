------------------------------ MODULE MCCache ------------------------------
(* Both backends of the cache for TLC.  A behaviour uses one of them, chosen  *)
(* at the start; the state of the other stays as it was.                      *)
EXTENDS DbCache

VARIABLES
  backend,                             \* "memory" or "database"
  entries, calls, sweepAt, running     \* the state of MemoryCache

\* Entries in memory expire one tick after their ttl, so they get one more.
Mem == INSTANCE MemoryCache WITH MaxTime <- MaxTime + 1

memoryOnly == <<entries, calls, sweepAt, running>>
databaseOnly == <<rowLocking, table, nextId, lock, call, sweep, faults, raced>>
mcvars == <<vars, memoryOnly, backend>>

MCInit ==
  /\ backend \in {"memory", "database"}
  /\ Init
  /\ Mem!Init
  /\ backend = "memory" => rowLocking

MCNext ==
  \/ backend = "memory" /\ Mem!Next /\ UNCHANGED <<databaseOnly, backend>>
  \/ backend = "database" /\ Next /\ UNCHANGED <<memoryOnly, backend>>

MCFairness ==
  /\ \A c \in Clients :
       /\ WF_mcvars(backend = "database" /\ Step(c) /\ UNCHANGED <<memoryOnly, backend>>)
       /\ WF_mcvars(backend = "memory" /\ Mem!Answer(c) /\ UNCHANGED <<databaseOnly, backend>>)
  /\ WF_mcvars(backend = "database" /\ SweepStep /\ UNCHANGED <<memoryOnly, backend>>)
  /\ WF_mcvars(backend = "memory" /\ Mem!StartSweep /\ UNCHANGED <<databaseOnly, backend>>)
  /\ WF_mcvars(backend = "memory" /\ Mem!Sweep /\ UNCHANGED <<databaseOnly, backend>>)

MCSpec == MCInit /\ [][MCNext]_mcvars /\ MCFairness

\* The entries of the backend in memory come, count, expire and go as the contract
\* of cache.Store says.
ImplementsStore == Mem!ImplementsStore

\* With either backend, while Run runs, an expired entry is removed or
\* restarted by Increment or Write, also when there are more than a batch.
ExpiredEntriesGo ==
  \A k \in Keys : (Sweepable(k) \/ Mem!Sweepable(k)) ~> ~(Sweepable(k) \/ Mem!Sweepable(k))
=============================================================================
