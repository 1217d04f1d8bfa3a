----------------------------- MODULE MemoryCache -----------------------------
(* The in-memory backend of the cache, cache/backend/memory: a map under one  *)
(* mutex, so that every call is a single step, and Run, which sweeps expired  *)
(* entries.  Counters are incremented by the rate limiter's middleware.       *)
EXTENDS CacheCallers

VARIABLES
  now,       \* the clock
  entries,   \* Backend.entries, None for a key it does not hold
  calls,     \* the call each client has under way and when it began, or None
  started,   \* calls so far
  sweepAt,   \* the clock reading of a sweep that waits for the mutex, or None
  running,   \* whether the context given to Run is alive
  window     \* the rate limiter's account of each counter

vars == <<now, entries, calls, started, sweepAt, running, window>>

Entry(value, expiresAt) == [value |-> value, expiresAt |-> expiresAt]

\* Expiry 0 stands for the zero time.  An entry still counts at the very
\* instant it expires.
expired(entry, t) == entry.expiresAt # 0 /\ t > entry.expiresAt

Init ==
  /\ now = 0
  /\ entries = [k \in Keys |-> None]
  /\ calls = [c \in Clients |-> None]
  /\ started = 0
  /\ sweepAt = None
  /\ running = TRUE
  /\ window = [k \in Counters |-> NoWindow]

Call(c, op, k) ==
  /\ calls[c] = None
  /\ started < MaxCalls
  /\ started' = started + 1
  /\ calls' = [calls EXCEPT ![c] = [op |-> op, key |-> k, at |-> now]]
  /\ UNCHANGED <<now, entries, sweepAt, running, window>>

Return(c) ==
  /\ calls' = [calls EXCEPT ![c] = None]
  /\ UNCHANGED <<now, started, sweepAt, running>>

Calls(c, op) == calls[c] # None /\ calls[c].op = op

Fresh(k) == entries[k] = None \/ expired(entries[k], now)

\* Variant: every increment extends the window.
IncrementSliding(c) ==
  /\ Calls(c, "inc")
  /\ LET k == calls[c].key
         next == Entry(IF Fresh(k) THEN 1 ELSE entries[k].value + 1, now + Period)
     IN /\ entries' = [entries EXCEPT ![k] = next]
        /\ window' = [window EXCEPT ![k] =
                        Account(window[k], next.value, next.expiresAt, now)]
  /\ Return(c)

\* The new count and expiry are also the answer, on which the rate limiter
\* decides.
Increment(c) ==
  /\ Calls(c, "inc")
  /\ LET k == calls[c].key
         next == IF Fresh(k) THEN Entry(1, now + Period)
                 ELSE Entry(entries[k].value + 1, entries[k].expiresAt)
     IN /\ entries' = [entries EXCEPT ![k] = next]
        /\ window' = [window EXCEPT ![k] =
                        Account(window[k], next.value, next.expiresAt, now)]
  /\ Return(c)

\* Read and Exist, which evict an expired entry.
Read(c) ==
  /\ Calls(c, "read")
  /\ LET k == calls[c].key
     IN entries' = IF Fresh(k) THEN [entries EXCEPT ![k] = None] ELSE entries
  /\ Return(c)
  /\ UNCHANGED window

\* The expiry is computed before the mutex is taken: by a clock reading of any
\* moment since the call.
Write(c) ==
  /\ Calls(c, "write")
  /\ \E v \in Values, expiresAt \in {0} \cup {t + Period : t \in calls[c].at .. now} :
       entries' = [entries EXCEPT ![calls[c].key] = Entry(v, expiresAt)]
  /\ Return(c)
  /\ UNCHANGED window

Remove(c, ks) ==
  /\ entries' = [k \in Keys |-> IF k \in ks THEN None ELSE entries[k]]
  /\ window' = [k \in Counters |-> IF k \in ks THEN NoWindow ELSE window[k]]
  /\ Return(c)

Delete(c) == Calls(c, "delete") /\ Remove(c, {calls[c].key})

Clear(c) == Calls(c, "clear") /\ Remove(c, Keys)

StartSweep ==
  /\ running
  /\ sweepAt = None
  /\ sweepAt' = now
  /\ UNCHANGED <<now, entries, calls, started, running, window>>

Sweep ==
  /\ sweepAt # None
  /\ entries' = [k \in Keys |->
                   IF entries[k] # None /\ expired(entries[k], sweepAt)
                   THEN None ELSE entries[k]]
  /\ sweepAt' = None
  /\ UNCHANGED <<now, calls, started, running, window>>

\* The application cancels the context: Run returns, after the sweep it is in.
Cancel ==
  /\ running
  /\ running' = FALSE
  /\ UNCHANGED <<now, entries, calls, started, sweepAt, window>>

Tick ==
  /\ now < MaxTime
  /\ now' = now + 1
  /\ UNCHANGED <<entries, calls, started, sweepAt, running, window>>

Answer(c) == Increment(c) \/ Read(c) \/ Write(c) \/ Delete(c) \/ Clear(c)

Next ==
  \/ \E c \in Clients, op \in Ops : \E k \in KeysOf(op) : Call(c, op, k)
  \/ \E c \in Clients : Answer(c)
  \/ StartSweep \/ Sweep \/ Cancel \/ Tick

Fairness ==
  /\ \A c \in Clients : WF_vars(Answer(c))
  /\ WF_vars(StartSweep)
  /\ WF_vars(Sweep)

Spec == Init /\ [][Next]_vars /\ Fairness

------------------------------------------------------------------------------
(* The mapping to the contract: entries are what the store holds, and a call  *)
(* is under way from the step that makes it to the step that answers it.      *)
Store == INSTANCE CacheStore WITH
  store <- entries,
  began <- [c \in Clients |-> IF calls[c] = None THEN None ELSE calls[c].at]

------------------------------------------------------------------------------
(* Properties.                                                                *)

EntryType(k) ==
  /\ entries[k] \in [value : Values \cup Nat, expiresAt : Nat]
  /\ k \in Counters => entries[k].value \in Nat

TypeOK ==
  /\ now \in Nat
  /\ DOMAIN entries = Keys
  /\ \A k \in Keys : entries[k] = None \/ EntryType(k)
  /\ DOMAIN calls = Clients
  /\ \A c \in Clients :
       \/ calls[c] = None
       \/ /\ calls[c] \in [op : Ops, key : Keys \cup {None}, at : 0 .. now]
          /\ calls[c].key \in KeysOf(calls[c].op)
  /\ started \in 0 .. MaxCalls
  /\ sweepAt = None \/ sweepAt \in 0 .. now
  /\ running \in BOOLEAN
  /\ window \in [Counters -> [expiresAt : Nat, admitted : Nat]]

\* The calls have their effect on the entries at once: the backend implements
\* the contract.  (The values that Read returns are not part of it.)
ImplementsStore == Store!Spec

\* At most Limit requests are let through in one window.
RateLimitEnforced == \A k \in Counters : window[k].admitted <= Limit

\* An open window is the life of the counter's entry, which has counted every
\* request that was let through.
WindowIsEntry ==
  \A k \in Counters :
    now < window[k].expiresAt =>
      /\ entries[k] # None
      /\ entries[k].expiresAt = window[k].expiresAt
      /\ window[k].admitted <= entries[k].value

\* An entry to be swept: it has expired, and Run runs.
Sweepable(k) ==
  /\ entries[k] # None
  /\ expired(entries[k], now)
  /\ running
=============================================================================
