------------------------------ MODULE DbCache ------------------------------
(* The SQL backend of the cache, cache/backend/database: a table with one row *)
(* per key, which any number of processes share.  Increment is a transaction  *)
(* that is tried again when it loses to another one; Read and Exist look a    *)
(* row up and then delete it if it has expired; Run sweeps expired rows by    *)
(* selecting their ids and then deleting those ids.  Every statement is a     *)
(* step of its own, so that those of other calls come in between.  With row   *)
(* locking (PostgreSQL, MySQL) a transaction locks the row it selected; with  *)
(* SQLite it holds the database's one write lock from its start, as the       *)
(* generated application's _txlock=immediate asks.                            *)
EXTENDS CacheCallers, FiniteSets

CONSTANTS
  Dialects,      \* values of Dialect.SupportsRowLocking to check
  MaxAttempts,   \* maxIncrementAttempts
  BatchSize,     \* Backend.sweepBatchSize
  MaxFaults      \* bound on the statements that fail

ASSUME DbCacheAssumption ==
  /\ Dialects \subseteq BOOLEAN /\ Dialects # {}
  /\ MaxAttempts \in Nat \ {0}
  /\ BatchSize \in Nat \ {0}
  /\ MaxFaults \in Nat

VARIABLES
  now,          \* the clock
  rowLocking,   \* Dialect.SupportsRowLocking of the database in use
  table,        \* the row of each key, or None
  nextId,       \* the id the next row gets
  lock,         \* the client whose transaction holds each key's row, or None
  call,         \* each client's call
  started,      \* calls so far
  sweep,        \* the sweep of Run
  faults,       \* statements that failed so far
  window,       \* the rate limiter's account of each counter
  raced         \* keys whose row was evicted though it had not expired

vars == <<now, rowLocking, table, nextId, lock, call, started, sweep, faults,
          window, raced>>

Row(id, value, expiresAt) == [id |-> id, value |-> value, expiresAt |-> expiresAt]

\* An entry no longer counts at the very instant it expires; 0 is never.
Expired(row, t) == row.expiresAt # 0 /\ row.expiresAt <= t

Pcs == {"idle", "begin", "select", "insert", "update",    \* Increment
        "read", "judge", "evict",                         \* Read, Exist
        "write", "delete", "clear"}

\* at: when the call began.  clock: the time.Now() of this attempt.  row: the
\* row a lookup has read.
Idle == [pc |-> "idle", key |-> None, at |-> 0, clock |-> 0, attempts |-> 0,
         row |-> None]

Resting == [pc |-> "rest", clock |-> 0, ids |-> {}]

Init ==
  /\ now = 0
  /\ rowLocking \in Dialects
  /\ table = [k \in Keys |-> None]
  /\ nextId = 1
  /\ lock = [k \in Keys |-> None]
  /\ call = [c \in Clients |-> Idle]
  /\ started = 0
  /\ sweep = Resting
  /\ faults = 0
  /\ window = [k \in Counters |-> NoWindow]
  /\ raced = {}

\* A statement on these rows waits for the transactions that hold them.
Unlocked(ks) == \A k \in IF rowLocking THEN ks ELSE Keys : lock[k] = None

Unlock(c) == lock' = [k \in Keys |-> IF lock[k] = c THEN None ELSE lock[k]]

At(c, pc) == call[c].pc = pc

Goto(c, pc) == call' = [call EXCEPT ![c].pc = pc]

Return(c) == call' = [call EXCEPT ![c] = Idle]

Fault ==
  /\ faults < MaxFaults
  /\ faults' = faults + 1

Call(c, op, k) ==
  /\ At(c, "idle")
  /\ started < MaxCalls
  /\ started' = started + 1
  /\ call' = [call EXCEPT ![c] =
                [Idle EXCEPT !.pc = IF op = "inc" THEN "begin" ELSE op,
                             !.key = k, !.at = now,
                             !.clock = IF op = "write" THEN now ELSE 0]]
  /\ UNCHANGED <<now, rowLocking, table, nextId, lock, sweep, faults, window, raced>>

------------------------------------------------------------------------------
(* Increment.                                                                 *)

\* incrementOnce reads the clock and starts a transaction.
Begin(c) ==
  /\ At(c, "begin")
  /\ \/ rowLocking /\ UNCHANGED lock
     \/ ~rowLocking /\ Unlocked(Keys) /\ lock' = [k \in Keys |-> c]
  /\ call' = [call EXCEPT ![c].pc = "select", ![c].clock = now]
  /\ UNCHANGED <<now, rowLocking, table, nextId, started, sweep, faults, window, raced>>

\* The locking read of the row.
Select(c) ==
  LET k == call[c].key IN
  /\ At(c, "select")
  /\ lock[k] \in {None, c}
  /\ \/ /\ table[k] = None
        /\ Goto(c, "insert")
        /\ UNCHANGED lock
     \/ /\ table[k] # None
        /\ Goto(c, "update")
        /\ lock' = [lock EXCEPT ![k] = c]
  /\ UNCHANGED <<now, rowLocking, table, nextId, started, sweep, faults, window, raced>>

\* The transaction has committed.  The answer reaches the rate limiter, which
\* lets the request through or not; or it is lost, and the call fails though
\* it was counted.
Answer(c, count, expiresAt) ==
  /\ \/ /\ window' = [window EXCEPT ![call[c].key] = Account(@, count, expiresAt, now)]
        /\ UNCHANGED faults
     \/ Fault /\ UNCHANGED window
  /\ Unlock(c)
  /\ Return(c)

\* The INSERT of a new row, committed at once.
Insert(c) ==
  LET k == call[c].key
      expiresAt == call[c].clock + Period
  IN
  /\ At(c, "insert")
  /\ table[k] = None
  /\ table' = [table EXCEPT ![k] = Row(nextId, 1, expiresAt)]
  /\ nextId' = nextId + 1
  /\ Answer(c, 1, expiresAt)
  /\ UNCHANGED <<now, rowLocking, started, sweep, raced>>

\* Variant: every increment extends the window.
UpdateSliding(c) ==
  LET k == call[c].key
      row == table[k]
      count == IF Expired(row, call[c].clock) THEN 1 ELSE row.value + 1
      expiresAt == call[c].clock + Period
  IN
  /\ At(c, "update")
  /\ table' = [table EXCEPT ![k] = Row(row.id, count, expiresAt)]
  /\ Answer(c, count, expiresAt)
  /\ UNCHANGED <<now, rowLocking, nextId, started, sweep, raced>>

\* The UPDATE of the locked row, committed at once.  It restarts a counter
\* that has expired in the row it already has.
Update(c) ==
  LET k == call[c].key
      row == table[k]
      fresh == Expired(row, call[c].clock)
      count == IF fresh THEN 1 ELSE row.value + 1
      expiresAt == IF fresh THEN call[c].clock + Period ELSE row.expiresAt
  IN
  /\ At(c, "update")
  /\ table' = [table EXCEPT ![k] = Row(row.id, count, expiresAt)]
  /\ Answer(c, count, expiresAt)
  /\ UNCHANGED <<now, rowLocking, nextId, started, sweep, raced>>

\* Variant: a transaction that fails is not rolled back.
RetryHoldingLock(c) ==
  /\ LET again == [call[c] EXCEPT !.pc = "begin", !.attempts = @ + 1, !.clock = 0]
     IN call' = [call EXCEPT ![c] =
                   IF call[c].attempts + 1 < MaxAttempts THEN again ELSE Idle]
  /\ UNCHANGED lock

\* The transaction is rolled back and tried again, up to maxIncrementAttempts.
Retry(c) ==
  /\ LET again == [call[c] EXCEPT !.pc = "begin", !.attempts = @ + 1, !.clock = 0]
     IN call' = [call EXCEPT ![c] =
                   IF call[c].attempts + 1 < MaxAttempts THEN again ELSE Idle]
  /\ Unlock(c)

\* Another call inserted the row first: ErrUniqueViolation.
InsertConflict(c) ==
  /\ At(c, "insert")
  /\ table[call[c].key] # None
  /\ Retry(c)
  /\ UNCHANGED <<now, rowLocking, table, nextId, started, sweep, faults, window, raced>>

\* A statement or the commit fails: with ErrSerializationFailure (a deadlock,
\* a lock timeout, SQLITE_BUSY) the transaction is tried again, with any other
\* error the call fails.
IncrementError(c) ==
  /\ call[c].pc \in {"begin", "select", "insert", "update"}
  /\ Fault
  /\ \/ Retry(c)
     \/ Unlock(c) /\ Return(c)
  /\ UNCHANGED <<now, rowLocking, table, nextId, started, sweep, window, raced>>

------------------------------------------------------------------------------
(* The other calls.                                                           *)

\* lookup reads the row...
Lookup(c) ==
  /\ At(c, "read")
  /\ call' = [call EXCEPT ![c].pc = "judge", ![c].row = table[call[c].key]]
  /\ UNCHANGED <<now, rowLocking, table, nextId, lock, started, sweep, faults, window, raced>>

\* ...and then the clock.  An expired row is to be deleted.
Judge(c) ==
  /\ At(c, "judge")
  /\ \/ /\ call[c].row # None
        /\ Expired(call[c].row, now)
        /\ call' = [call EXCEPT ![c].pc = "evict", ![c].row = None]
     \/ /\ call[c].row # None => ~Expired(call[c].row, now)
        /\ Return(c)
  /\ UNCHANGED <<now, rowLocking, table, nextId, lock, started, sweep, faults, window, raced>>

\* Rows go: those of ks that are there.
DeleteRows(ks) == table' = [k \in Keys |-> IF k \in ks THEN None ELSE table[k]]

\* Keys of ks whose row has not expired.
Live(ks) == {k \in ks : table[k] # None /\ ~Expired(table[k], now)}

\* The DELETE of an expired row names its key only.
Evict(c) ==
  /\ At(c, "evict")
  /\ Unlocked({call[c].key})
  /\ DeleteRows({call[c].key})
  /\ raced' = raced \cup Live({call[c].key})
  /\ Return(c)
  /\ UNCHANGED <<now, rowLocking, nextId, lock, started, sweep, faults, window>>

\* The upsert, atomic in the database; its expiry was computed by the clock
\* reading at the start of the call.
Write(c) ==
  LET k == call[c].key IN
  /\ At(c, "write")
  /\ Unlocked({k})
  /\ \E v \in Values, expiresAt \in {0, call[c].clock + Period} :
       table' = [table EXCEPT ![k] =
                   Row(IF @ = None THEN nextId ELSE @.id, v, expiresAt)]
  /\ nextId' = IF table[k] = None THEN nextId + 1 ELSE nextId
  /\ Return(c)
  /\ UNCHANGED <<now, rowLocking, lock, started, sweep, faults, window, raced>>

Remove(c, ks) ==
  /\ Unlocked(ks)
  /\ DeleteRows(ks)
  /\ window' = [k \in Counters |-> IF k \in ks THEN NoWindow ELSE window[k]]
  /\ Return(c)
  /\ UNCHANGED <<now, rowLocking, nextId, lock, started, sweep, faults, raced>>

Delete(c) == At(c, "delete") /\ Remove(c, {call[c].key})

Clear(c) == At(c, "clear") /\ Remove(c, Keys)

\* A statement of one of these calls fails, and the call with it; a failed
\* eviction is only logged.
CallError(c) ==
  /\ call[c].pc \in {"read", "evict", "write", "delete", "clear"}
  /\ Fault
  /\ Return(c)
  /\ UNCHANGED <<now, rowLocking, table, nextId, lock, started, sweep, window, raced>>

------------------------------------------------------------------------------
(* Run: the sweep.                                                            *)

\* The ticker fires, and sweep reads the clock once for all its batches.
StartSweep ==
  /\ sweep.pc = "rest"
  /\ sweep' = [pc |-> "select", clock |-> now, ids |-> {}]
  /\ UNCHANGED <<now, rowLocking, table, nextId, lock, call, started, faults, window, raced>>

\* Ids of the rows the sweep is to delete, and the batch it takes: the first.
StaleIds == {table[k].id : k \in {x \in Keys : table[x] # None /\ Expired(table[x], sweep.clock)}}

\* Variant: the sweep ends when the batch is not full, before deleting it.
SweepSelectFullBatches ==
  /\ sweep.pc = "select"
  /\ sweep' =
       IF Cardinality(StaleIds) <= BatchSize THEN Resting
       ELSE [sweep EXCEPT !.pc = "delete",
               !.ids = {i \in StaleIds : Cardinality({j \in StaleIds : j < i}) < BatchSize}]
  /\ UNCHANGED <<now, rowLocking, table, nextId, lock, call, started, faults, window, raced>>

SweepSelect ==
  /\ sweep.pc = "select"
  /\ sweep' =
       IF StaleIds = {} THEN Resting
       ELSE [sweep EXCEPT !.pc = "delete",
               !.ids = {i \in StaleIds : Cardinality({j \in StaleIds : j < i}) < BatchSize}]
  /\ UNCHANGED <<now, rowLocking, table, nextId, lock, call, started, faults, window, raced>>

\* The DELETE names ids only.  A full batch may not have been the last.
SweepDelete ==
  LET ks == {k \in Keys : table[k] # None /\ table[k].id \in sweep.ids} IN
  /\ sweep.pc = "delete"
  /\ Unlocked(ks)
  /\ DeleteRows(ks)
  /\ raced' = raced \cup Live(ks)
  /\ sweep' = IF Cardinality(sweep.ids) < BatchSize THEN Resting
              ELSE [sweep EXCEPT !.pc = "select", !.ids = {}]
  /\ UNCHANGED <<now, rowLocking, nextId, lock, call, started, faults, window>>

\* A statement fails: logged, and the sweep is over until the ticker fires.
SweepError ==
  /\ sweep.pc \in {"select", "delete"}
  /\ Fault
  /\ sweep' = Resting
  /\ UNCHANGED <<now, rowLocking, table, nextId, lock, call, started, window, raced>>

\* The context is cancelled: Run returns, its statement under way failing.
Cancel ==
  /\ sweep.pc # "stopped"
  /\ sweep' = [Resting EXCEPT !.pc = "stopped"]
  /\ UNCHANGED <<now, rowLocking, table, nextId, lock, call, started, faults, window, raced>>

Tick ==
  /\ now < MaxTime
  /\ now' = now + 1
  /\ UNCHANGED <<rowLocking, table, nextId, lock, call, started, sweep, faults, window, raced>>

------------------------------------------------------------------------------
IncrementStep(c) == Begin(c) \/ Select(c) \/ Insert(c) \/ Update(c) \/ InsertConflict(c)

Step(c) ==
  \/ IncrementStep(c) \/ Lookup(c) \/ Judge(c) \/ Evict(c)
  \/ Write(c) \/ Delete(c) \/ Clear(c)

SweepStep == StartSweep \/ SweepSelect \/ SweepDelete

Next ==
  \/ \E c \in Clients, op \in Ops : \E k \in KeysOf(op) : Call(c, op, k)
  \/ \E c \in Clients : Step(c) \/ IncrementError(c) \/ CallError(c)
  \/ SweepStep \/ SweepError \/ Cancel \/ Tick

\* Every statement sent is answered, and the ticker keeps firing.
Fairness ==
  /\ \A c \in Clients : WF_vars(Step(c))
  /\ WF_vars(SweepStep)

Spec == Init /\ [][Next]_vars /\ Fairness

------------------------------------------------------------------------------
(* The mapping to the contract: the store holds what the rows say.            *)
Store == INSTANCE CacheStore WITH
  store <- [k \in Keys |->
              IF table[k] = None THEN None
              ELSE [value |-> table[k].value, expiresAt |-> table[k].expiresAt]],
  began <- [c \in Clients |-> IF At(c, "idle") THEN None ELSE call[c].at]

------------------------------------------------------------------------------
(* Properties.                                                                *)

TypeOK ==
  /\ now \in Nat
  /\ rowLocking \in BOOLEAN
  /\ \A k \in Keys :
       \/ table[k] = None
       \/ /\ table[k].id \in 1 .. (nextId - 1)
          /\ table[k].value \in (IF k \in Counters THEN 1 .. MaxCalls ELSE Values)
          /\ table[k].expiresAt \in 0 .. (MaxTime + Period)
  /\ \A k, l \in Keys :
       k # l /\ table[k] # None /\ table[l] # None => table[k].id # table[l].id
  /\ lock \in [Keys -> Clients \cup {None}]
  /\ \A c \in Clients :
       /\ call[c].pc \in Pcs
       /\ At(c, "update") => lock[call[c].key] = c /\ table[call[c].key] # None
       /\ call[c].attempts \in 0 .. (MaxAttempts - 1)
  /\ sweep.pc \in {"rest", "select", "delete", "stopped"}
  /\ faults \in 0 .. MaxFaults
  /\ raced \subseteq Keys

\* The rate limiter lets at most Limit requests through in one window.  In the
\* words of package ratelimit: "once the configured limit is exceeded within
\* the configured period, the request is rejected".
RateLimitEnforced == \A k \in Counters : window[k].admitted <= Limit

\* The same, for every counter whose row no eviction has taken while it still
\* counted: transactions, retries, lost answers and clock readings that are
\* old by the time the row is locked cost no count.
LimitUnlessRaced ==
  \A k \in Counters : window[k].admitted <= Limit \/ k \in raced

\* As long as no eviction has taken a row that still counted, every statement
\* is a step of the contract of cache.Store or changes nothing of the store:
\* calls look atomic to each other, though they take several statements and
\* may be retried, and only rows that have expired go by themselves.
ContractUnlessRaced == [][raced' = {} => [Store!Next]_(Store!vars)]_vars

\* Every call returns: none waits forever for a lock or retries forever.
CallReturns == \A c \in Clients : ~At(c, "idle") ~> At(c, "idle")

\* A row to be swept: it has expired, and Run runs.
Sweepable(k) ==
  /\ table[k] # None
  /\ Expired(table[k], now)
  /\ sweep.pc # "stopped"
=============================================================================
