# A TLA+ verification of trails

trails is a web framework in Go: an HTTP application object with middleware, an
ORM (`pack`) with migrations, background jobs, realtime channels, a cache, and
the usual helpers for sessions, mail and assets. This directory holds TLA+ models
of the parts whose correctness depends on the order of events (job queues, cache
stores, the realtime hub and its broadcasters, shutdown, sessions, transactions,
migrations) or on an algorithm with many cases (query building, forwarded
addresses, middleware chains), the TLC configurations that check them on small
instances, and TLAPS proofs that hold for every size.

Contents: [inventory](#inventory), [modules](#modules-and-the-code-they-model),
[runs](#runs), [bounds](#bounds), [fairness](#fairness), [proofs](#proofs),
[findings](#findings), [what is not modelled](#not-modelled), [plan](#plan).

## Inventory

| Part | State it keeps | Operations | Works with | What is hard |
|---|---|---|---|---|
| `jobs` (enqueue, registry, options) | name → decoder map | `Enqueue`, `Register` | every backend | nothing concurrent |
| `jobs` scheduler | next run of each schedule | `Run`, `tick`, `due` | a backend's `Enqueue` | ticks that come late, an enqueue that fails or outlasts ticks after the next run was advanced |
| `jobs/backend/dbqueue` | job rows in SQL; per process a batch, a semaphore, goroutines | `Enqueue`, claim, dispatch, finish, fail, cleanup | shared table, several processes | interleaved transactions, crashes after a claim, attempts computed from copies |
| `jobs/backend/cloudtask` | job rows, lock rows per key, one schedule row; tasks in Cloud Tasks | `Enqueue`, push handler, cleanup handler | Cloud Tasks delivers at least once | duplicate and late deliveries, timeouts, ambiguous answers, a chain of tasks that can die |
| `jobs/backend/async` | bounded channel, workers, slots per key, a WaitGroup, timers | `Enqueue`, dispatch, `Drain`, `Close` | goroutines | jobs that enqueue on a full channel, slots that expire under a running job, shutdown |
| `jobs/backend/inline`, `jobstest` | none | call `Perform`, record | | nothing |
| `channels` hub, SSE | connections, subscriptions, fan-outs, outboxes | `Connect`, `Subscribe`, `Perform`, `StreamFrom`, `Disconnect` | a `Broadcaster`; application callbacks run without the lock | disconnects in the middle of a subscription, full outboxes |
| `channels/backend/memory` | subscriptions per topic, buffers | publish, subscribe, close | the hub | full buffers |
| `channels/backend/database` | message rows, a cursor per process, subscriptions with buffers | publish, subscribe, poll, deliver, trim, close | the hub; other processes on the same table | rows that commit out of id order, `Close` under a delivery |
| `cache` stores (memory, database) | entries with expiry | `Read`, `Write`, `Delete`, `Exist`, `Increment`, `Clear`, sweep | rate limiter, `Fetch`, `httpcache` | counters shared between processes, evictions that race restarts |
| `cache` Fetch, fragments, httpcache | none of their own | read, compute, write | a store | an invalidation between computing and writing |
| `ratelimit` | none of its own | middleware | a store's `Increment` | rests on the store's atomicity |
| `trail.go` | server, runners, an error channel | `Run` | everything that is a `Runner` | order of cancel, shutdown, waiting |
| router, group | routes, slices of middleware | `Use`, `NewGroup`, `HandleFunc` | net/http | slices that share an array |
| context, bind, render, errors | none of their own | one request at a time | net/http | the order of middleware, error handler and first write |
| session, csrf, httpcache | a cookie; stored pages | middleware | each other, through the response writer | overlapping requests, what is committed or recorded when |
| allowedhosts, trustedproxy | none | middleware | ratelimit counts by the address found | headers that others fill |
| cors, secureheaders, auth | none | middleware | | one request, one answer |
| `mail`, `assets`, CLI, templates, generators | files | build-time or I/O | | nothing concurrent |
| `pack` queries, writes, transactions | a database handle, savepoint counter, Go values with their keys | `Create`, `CreateAll`, `Save`, `Update`, `Delete`, `Tx`, query chains, `Preload` | database/sql and its pool | nested scopes, keys of a batch, shared slices, connections held while asking for another |
| `pack/migrate` | `schema_migrations` | `Up`, `Down`, table rebuild | a database | failure between a migration and its record, two runners |

What makes each modelled part correct:

- queues: a job is run by one holder at a time; attempts are counted exactly and
  bounded; settled rows stay settled; the concurrency limit of a key; every due
  job is eventually recorded; nothing is lost without a fault;
- async: the in-flight count is exact, so `Drain` means what it says; `Close`
  returns; accepted jobs are settled;
- hub: no subscription survives its connection; `Unsubscribed` is called once;
  messages arrive in order and are lost only where a buffer is full;
- cache: each call takes effect at once; a counter's window is kept until it
  ends; hence the rate limit; expired entries go;
- lifecycle: `Run` returns, and leaves nothing at work;
- broadcaster: every row that commits before the cursor passes its id is sent once,
  in order;
- scheduler: runs come as often as the interval says, over time;
- web: a visitor's session is the visitor's own, no unsafe handler runs without the
  token of a form made for that visitor, a limit is the client's own, a route runs its
  own middleware;
- pack: scopes nest, a value has the key of its own row, a statement says what the chain says,
  a preload attaches the right rows, calls return; the record of migrations is
  the schema's, and a rebuilt table is whole.

The full list of hazards, each at its line, is `hazards` in `PROJECT.json`.

## Modules and the code they model

`map` in `PROJECT.json` gives the lines of every definition. Every module keeps
the control of the code (each state change, guard, early return and error path)
and abstracts data: a job, key or message is a model value; payloads, SQL text,
logging and names are left out.

**DbQueue** (`jobs/backend/dbqueue`). `rows` is the table. Each process has a
`Run` loop with a program counter, the batch it claimed (`claimed`, copies of
rows), and the jobs it runs (`running`, at most `Slots`). `StartPoll`,
`claimOneLocking`/`CommitClaim` or `claimOneSQLite`, `EndClaim`, `HandOff` are
`poll` and `claim` statement by statement: with row locking the candidate's
SELECT and its UPDATE are two steps of one transaction, during which other
transactions see neither; with SQLite it is one UPDATE. `DispatchStep` is
the goroutine's end (`Finish`, `Fail`, or an outcome that cannot be recorded).
`StartCleanup`/`EndCleanup` are the two statements of `cleanup`. `ClaimError`,
`RecordError`, `Cancel`, `Crash` and `Restart` are what can go wrong.

**CloudTask** (`jobs/backend/cloudtask`: enqueue, push, claim, finish, cleanup of
rows). The service is external: the model keeps which jobs have a queued task,
and lets `Deliver` push one, again after a failure or a timeout, or twice. A push
is a process: it claims the row under the key's lock row (lock, count and commit are
separate steps), is told of the commit (or loses that answer, `ClaimAnswerLost`),
performs (`Dispatch`), records, answers. A crash between any two of these leaves what
was committed. After `Timeout` the handler continues but its statements fail, as with
a cancelled request context.

**CleanupChain** (`schedule.go`, `cleanup.go` of the same backend). The schedule
row's `NextRunAt` is a time stamp or the sentinel; cleanup tasks carry the stamp
they were made for. `Enqueue` starts or heals the chain; a delivered task claims
the row with the sentinel, runs a pass, creates the next task and records it.

**AsyncJobs** (`jobs/backend/async`). The channel is a sequence of length at most
`QueueSize`; a send that finds it full blocks. Workers take, acquire the slot of
the key or requeue with a timer, perform (which may enqueue another job), release.
`Drain` and `Close` happen at any time.

**Hub** (`channels/hub.go`, `conn.go`, `sse.go`, `backend/memory`). Each section
that holds `Hub.mu` is one step; callbacks of the application, pump goroutines and
requests run in between. One channel name and one topic are modelled: others
share only the mutex with them.

**DbBroadcaster** (`channels/backend/database`). An `INSERT` takes its id in
`Insert` and is seen from `Commit` on, so ids commit out of order. `PollSelect` and
`Deliver` are the two halves of `poll`; what runs under `Backend.mu` is one step.
A row that commits owes itself to every subscription of its topic, also when the
cursor has passed its id already (`late`).
`Close` takes the subscriptions away under the lock and closes their channels
afterwards, one by one. `TrimElsewhere` is another process's trim. The history
variables `owed` (rows a subscription must still get), `late` and `arrived` state
the properties.

**Scheduler** (`jobs/scheduler.go`). A ticker with room for one tick, which carries the
time at which it was sent, at or after the time it was due; a tick goes through the
schedules one after the other, each `Enqueue` taking as long as it likes. The clock
has a finer unit than the second, and an interval may be any number of units, 0
included.

**Lifecycle** (`trail.go`, `Run`). `main` is where `Run` is; the server, each runner
and each request are goroutines; `errs` is the buffered channel. `Stop` to `Return`
are the shutdown, statement by statement.

**WebSession** (`session`, `csrf`, `cache/httpcache`, the router's shim and method
override). `stack` is the order of the middleware. A request carries the cookie it
was sent with, and its answer replaces the browser's or not; `ideal` is the session
the visitor's requests ought to have made, `madeFor` whose request each token was
made for; what a form submits is compared with both. A handler shows the page, fails, logs in
or out. Tokens are numbers; sealing is the identity on what it protects.

**RequestGate** (`allowedhosts`, `trustedproxy`, `ratelimit`). A request comes over
a path of hosts. A host that is not a trusted proxy sends any header to begin with
(lines of entries), and each host on the way adds an entry to `X-Forwarded-For`, in
the last line or as a line of its own; `resolveClientIP` is the walk from the right.

**Routing** (`router.go`, `group.go`). Slices of middleware as Go has them: an array,
a length, and `append` into the array's room. `said` is what each route's makers
were given, `runs` what it was chained with.

**NestedTx** is the abstract specification of `pack`'s transactions: frames of
rows, each part of the one around it when it ends well. **PackTx** (`pack/tx.go`)
is shown to implement it: savepoints with generated names on one connection,
Postgres' aborted transactions, lost connections, panics and recovery.

**PackWrite** (`create.go`, `create_all.go`, `keyed.go`, `write*.go`, `hooks.go`,
`insert.go`). Two goroutines with Go values that remember their key; every
statement is a step, may fail, or may lose its answer. Conflict clauses, batches,
dialects with and without RETURNING, defaulted columns. Any call may be given any
value: `Create` and `CreateAll` insert one that has a key again (`again` notes it),
only `Save` looks.

**SqlBuild** (`sqlbuild`, the dialects, `col.go`): predicates as trees, rendered to
a sequence of words with placeholders and arguments; `Reads` is the database's
reading of that sequence, by precedence of connectives. **PackQuery**
(`query.go`, `join.go`) builds queries by chains on queries the program keeps, with
Go's slices, and compares what each of six statements states with what the
calls said.

**Preload** (`preload.go`): the batched query and the map from keys to parents,
checked over every small set of parents and children. **QueryPool** (`query.go`,
`scanning.go`, `preload.go`): which call holds a connection while it asks for one.

**Migrate** (`pack/migrate/runner.go`, `migrate.go`, `column.go`): `Up` and `Down`
by two processes, statement by statement. **TableRebuild**
(`sqlite_rebuild.go`): the rebuild on a pinned connection with foreign keys off.

**CacheStore** is the contract of `cache/store.go` as an abstract specification:
calls act at once at a moment between call and return, by a clock reading from
in between; `Increment` keeps the expiry of an entry that counts; only expired
entries go by themselves. The instant of expiry is left open, since the two
backends differ there (`After` in memory, `<=` in SQL) and the interface is silent.

**CacheCallers** holds what both backends share: the calls made, and the
rate limiter's decision, with an account per key of the window and the
requests let through.

**MemoryCache** (`cache/backend/memory`) and **DbCache**
(`cache/backend/database`) are the two backends. Each contains the mapping to
`CacheStore` (`Store == INSTANCE CacheStore WITH ...`): entries or rows are the
store, and a call is under way from its first to its last step. In memory every
call is one step under the mutex. In the database every statement is a step:
`Begin`, `Select`, `Insert` or `Update` for `Increment`, with `InsertConflict`
and `IncrementError` leading to `Retry`; `Lookup`, `Judge`, `Evict` for `Read` and
`Exist`, which are the same there; `SweepSelect` and `SweepDelete` for the sweep.

**MC modules** instantiate the parts for TLC. `MCCloudTask` (CloudTask and
CleanupChain), `MCProcess` (AsyncJobs and Lifecycle), `MCServices` (Hub,
DbBroadcaster, Scheduler, WebSession, RequestGate, Routing), `MCCache` (both
cache backends) and `MCPack` (PackTx, PackWrite, PackQuery, Preload, QueryPool,
Migrate, TableRebuild) hold several parts: a behaviour is about one of them,
chosen at the start in `part` (`backend` in `MCCache`), and the state of the others
stays as it was. The parts share no state in the code either, except through the
calls that the modules already contain.

`MCPack` takes the parts that need no recursion from **PackParts**, which
`PackProofs` proves about. The constants of these modules get their values in the
`.cfg` files only, so that what is proved holds for every value.

**DbQueueProofs**, **CloudTaskProofs**, **ProcessProofs**, **HubProofs**,
**CacheProofs**, **ServicesProofs**, **WebProofs**, **PackProofs**: see
[Proofs](#proofs).

Definitions whose comment begins with "Variant" or "Mutant" are deliberate errors, one for
each checked property; with the definition that follows replaced by its variant
the property is violated, so each property does depend on the code it is about.

## Runs

`tlc -workers 2 -config <cfg> <module>`. A *pass* run finds no error; a
*violation* run checks one statement of the documentation that the code does not
keep.

| Run | Checks | Shows |
|---|---|---|
| `dbqueue` (`MCDbQueue.cfg`) | `OneHolder`, `AttemptsAccount`, `WindowLimit`, `NoOrphanWithoutFault`, `SettledStays`, `DueIsRecorded`, `TypeOK` | Two processes on one table: no double claim under either dialect, exact attempts, rows orphaned only by a fault; the window's count exceeds the limit by at most one per other process when the dialect locks rows, and never with SQLite |
| `dbqueue_limit` (violation) | `ConcurrencyLimitEnforced` | With row locks two processes claim two jobs of a key with limit 1 |
| `cloudtask` (`MCCloudTask.cfg`) | `NoConcurrentPerform`, `AttemptsExact`, `WindowLimit`, `EventuallySettled`; `OnePassOwnsTheChain`, `ArmedAgain` | Duplicate deliveries do not run a job twice at once nor spend attempts; the lock row does keep the limit here; jobs settle unless a fault strands them. The cleanup chain is armed again through every fault but one: a sentinel nobody owns |
| `cloudtask_retry` (violation) | `RetriedUntilExhausted` | A fault at the wrong moment leaves a job that may still be tried without a task |
| `cleanup_chain_heal` (violation) | `SentinelOwned` | A crash during a pass leaves the sentinel, which `Enqueue` takes for a running pass forever |
| `process` (`MCProcess.cfg`) | `DrainWaitsForAll`, `LimitUntilOverrun`, `JobsAndCloseEnd`; `LeftBehindOnlyAfterError`, `RunReturns` | In-process jobs: accounting and shutdown are right, jobs stall only if every worker enqueues on the full channel, the limit holds until a job outlives its slot. `Trail.Run` returns whatever fails, and leaves something at work only if an error stopped it and a request outlasted `Shutdown` |
| `services` (`MCServices.cfg`) | `TornDownUnlessRaced`, `OneSubscription`, `NoSilentLoss`, `InOrder`; `DeliveredOnce`; `KeepsInterval`; `SessionIsOnesOwn`, `UnsafeIsVerified`; `LimitPerClient`; `RouteRunsItsOwn` | Hub: teardown is complete except for the races named in the property; delivery is ordered and loses only to full buffers. Broadcaster: no row that commits in time is skipped, none is sent twice, and no channel is used after it is closed. Scheduler: over time never too often, and put off by no more than a tick as long as ticks are done in time. Web: sessions, tokens, limits and middleware are what they should be, with the exceptions below |
| `services_late` (violation) | `EveryPayload` | A row that commits after one with a higher id, which the poll has seen, is never sent |
| `hub_leak` (violation) | `TornDownAfterDisconnect` | A disconnect between the two halves of `Subscribe` leaves a live subscription |
| `cache` (`MCCache.cfg`) | `ContractUnlessRaced`, `ImplementsStore`, `LimitUnlessRaced`, `CallReturns`, `ExpiredEntriesGo` | The memory store implements the contract; the database store does too as long as no eviction takes a row that still counts, and then keeps the rate limit; no call hangs; the sweep reaches everything |
| `pack` (`MCPack.cfg`) | `TxNests`, `OwnRow`, `StatementMeansQuery`, `PreloadAttaches`, `CallsReturn`, `AppliedAsRecorded`, `RebuildIsSafe` | `Tx` in `Tx` implements nested transactions; keys written back are the row's own; statements, preloads, migrations and rebuilds are right with the exceptions below |
| `pack_raw` (violation) | `WhereRawConjoins` | A raw fragment with an OR lets in rows that the conditions before it exclude |

Four more configurations show an exception below at work; TLC finds each violated in
seconds:

- `MCCacheLimit.cfg` (`MCCache`), `RateLimitEnforced`: the sweep deletes a counter that
  was restarted in its row, and more than the limit get through.
- `MCServicesInterval.cfg` (`MCServices`), `IntervalKept`: a late run and a punctual one
  after it are less than the interval apart.
- `MCProcessLeft.cfg` (`MCProcess`), `NothingLeftBehind`: after an error, a request that
  outlasts `Shutdown` is not cut off and is at work after `Run` has returned.
- `MCPackProject.cfg` (`MCPack`), `ProjectKeepsRows`: `Project` makes a query without the
  GROUP BY, or the SKIP LOCKED, of the one it projects.

Exceptions that the passing properties state, each a place where the code does less
than a reader might expect:

- `LeftBehindOnlyAfterError`: after an error of the server or a runner, `Run` does
  not force-close a server whose `Shutdown` timed out (`trail.go:236`). A cancelled
  application context ends `Shutdown`'s five seconds at once (`trail.go:233`). The
  comment of `Run` (`trail.go:182`) promises more.
- `AttemptsExact`: the attempt is counted before the job runs, so that a row whose
  claim was committed and not dispatched is one ahead.
- `DeliveredOnce`: a row that commits after the cursor has passed its id is never
  delivered (`services_late`).
- `KeepsInterval`: a tick that is late, or an `Enqueue` slower than a tick, delays the
  schedules behind it, and two runs may then be closer than the interval although
  `registry.go:19` calls it the minimum; since ticks do not come at even distances, a
  tick just before the next run's time is passed over, and the run waits for the one
  after it; a run whose `Enqueue` fails is lost; a restart runs everything once more.
- `SessionIsOnesOwn`: of two overlapping requests the later answer's cookie wins; a
  change after the first write is lost; `httpcache` outside the session's middleware
  records the `Set-Cookie` header with the page, so it must sit inside.
- `UnsafeIsVerified`: the same order of `httpcache` and session hands one visitor's
  session to another.
- `LimitPerClient`: of several `X-Forwarded-For` lines only the first is read, whoever
  began the second: a client that sends two, of which proxies extend the last, chooses
  the address it is counted for.
- `RouteRunsItsOwn`: groups made of one slice of the program that has room share its
  array (`Router.NewGroup` keeps the slice; `Group.NewGroup` copies).
- `OwnRow`: after a lost answer, a conflict or `DoNothing` the program cannot know. A
  value with a key that is given to `Create` or `CreateAll` again, as a retry after an
  error of `AfterInsert` or of a later batch does, gets a second row, and its key.
- `StatementMeansQuery`: raw fragments with bare connectives (see `pack_raw`),
  fragments whose placeholders are out of order on MySQL, and the GROUP BY
  and `SKIP LOCKED` that `Project` drops.
- `PreloadAttaches`: with a pointer as key field nothing is attached.
- `CallsReturn`: `First` with a preload, a query in the body of `Rows` or in an
  `AfterInsert` hook holds a connection while it asks for another; a pool can run
  out on such calls.
- `AppliedAsRecorded`: a call that ends between a migration and its record, or two
  calls at once, can leave the two apart; only the order of the records survives.
- `RebuildIsSafe`: a call that returns an error, the failed foreign key check
  included, gives its connection back with enforcement off. The pool is taken to
  enforce foreign keys at first, which is a matter of the DSN: the driver
  (`sqlite.go:27`) sets no PRAGMA.

## Bounds

Every bound is a named constant used in a guard (or, in `MCServices`, in the
constraint `Bound`, which follows two payloads in the hub only while nothing has
raced, and nothing after a header of several lines, of which no property speaks).
In `MCPack` symmetry is over Go values, which occur neither in its fairness nor in its
liveness property. The constraints `OnlyCast` and `OnlySched` choose a part.

- `dbqueue`: two processes, two jobs, two attempts, batch of two, one slot, one
  fault, a clock of one tick. Two jobs fill a batch while one slot makes the
  second wait; two processes are what a race needs; two attempts give one retry
  and one exhaustion. `Setups` covers jobs with a key under both claims and jobs
  without. Limit 1 is the tightest.
- `cloudtask`: two jobs, two open pushes, two attempts, one fault, with and
  without a key. Two pushes suffice for a duplicate delivery of one job, and for a
  race of two jobs for one key. The chain: two enqueuers, two open pushes, two
  faults, four stamps; a stamp is reused once nothing refers to it, so that
  behaviours are unbounded.
- `process`: pools of one and of two workers, a channel of one, two jobs with a
  key (one delayed) and a job that enqueues another: the smallest instance in which
  all workers can block on the channel. Two runners and two requests: both runners
  can fail at once, one request can be answered while the other stays.
- `services`: the hub with two connections, two `Subscribe` calls, outbox and buffer
  of one, two messages, two fan-outs, with symmetry over connections and calls (no
  liveness property there). The broadcaster with two publishers, three rows and a
  batch of two: a second batch, and two ids that commit in either order. Two schedules
  over seven units of half a second, one with an interval of three of them and one
  with interval 0, ticks sent up to any time after they are due, of which one unit
  counts as in time: a tick may come so late that the next run is just ahead of it,
  and a run is late or lost behind another. Two visitors, three requests, two tokens:
  an overlap of one visitor's requests beside the other's. Two clients and a proxy on
  paths of up to three hosts, two requests, limit 1, headers of up to two lines of two
  entries: a second line, and a forged entry beside an address of a proxy. Four
  middleware, three groups, a route: a group in a group beside its sibling.
- `cache`: two clients and the sweep, one counter, one page, three calls, one
  fault, a batch of one, two attempts. Three calls are a first window, its restart
  and the request after it; two expired entries need two batches. Entries in
  memory count at the instant they expire and get a clock one tick longer.
- `pack`: transactions three deep with three rows and one fault, so that a name can
  come up again after a rollback; two goroutines, three values, batches of two,
  three writes, one fault; chains of up to three calls on any earlier query, from a
  set with each kind of predicate, join, lock and raw fragment, over all rows with
  two columns of two values; up to two parents and two children with keys among
  zero and two others; two callers on one or two connections; two migrations, two
  processes, three calls, one fault; two connections, two rows, two indexes, three
  rebuilds, one fault.

`CHECK_DEADLOCK FALSE` stands where the system may stop: the cleanup chain can die,
the in-process backend is done when it is closed or jammed, `Run` when it has
returned, and the other parts when their calls, rows or clocks are used up.

## Fairness

Weak fairness of a process's own steps says that goroutines run, statements are
answered and jobs return; the code has no other way to stop between steps. What
goes beyond that:

- `DbQueue`: `RunStep` and `DispatchStep` of a live process. The polling ticker
  keeps firing. `DueIsRecorded` is claimed only while nothing fails.
- `CloudTask`, `CleanupChain`: strong fairness of `Deliver`, because Cloud Tasks
  retries a queued task until it is answered, also when a delivery is possible only
  now and then. In `CleanupChain` the application keeps enqueuing, which is what
  the code relies on to heal the chain, and time passes.
- `AsyncJobs`: strong fairness of `Send`, because Go serves goroutines blocked on a
  channel in order; timers fire.
- `Lifecycle`: `Run`'s own steps, and a runner returns once its context is done,
  which the `Runner` interface asks of it. Nothing is assumed of requests, which
  may take for ever; that `Shutdown` ends is due to its timeout, which is part of
  `Run`'s step.
- `QueryPool`: strong fairness of a call's steps, because `database/sql` hands free
  connections to those who wait in turn.
- `MCCache`: the calls' own steps and the sweep, whose ticker keeps firing.
- `Hub`, `DbBroadcaster`, `Scheduler`, the web modules and the rest of `pack` have no
  liveness property and no fairness.

In a module that holds several parts a behaviour is about one of them, so that
steps of the others are never enabled, and weak or strong fairness of a disjunction
of steps of two parts is fairness of each. `MCCloudTask` and `MCProcess` pair
conditions in this way to keep their number small.

Faults (failing statements, crashes, timeouts, cancellation, duplicates) are never
fair: they may happen, up to their bound.

## Proofs

TLAPS checks the eight proof modules for every value of the constants, where TLC
checks one small instance. The bounds of the runs (numbers of calls, faults, rows)
are constants like the others, so a theorem holds for every bound. A proof module
extends the module of its run, or the component itself, and proves about the very
instance that TLC explores. Each inductive invariant was first checked by TLC as an
invariant of the run. A proof has one step per action, and under it one per part of
the invariant that the action can disturb.

What is assumed: `DbQueueAssumption`, `CloudTaskAssumption`, `AsyncAssumption`,
`HubAssumption`, `CacheAssumption`, `DbCacheAssumption` and `NoneAssumption` (counts
are natural numbers, sets of jobs and workers that are counted are finite, `None` is
none of the values it stands beside), which TLC evaluates on the runs; and, as
hypotheses of the theorem where a module holds several parts, `SentinelDistinct` (the
sentinel is no time stamp), `GateConstants` (clients are not proxies, garbage is no
address, and the limit and the bounds of a header are numbers), `SchedConstants`
(schedules have names of their own, a second is at least one unit of the clock and
longer than `Jitter`; intervals are any natural numbers), `WebConstants` (what stands
for nothing is no visitor, token or session), `CastConstants` (`BatchSize` is at least
1; the default is 100, and `WithBatchSize` does not check what it is given)
`MigrateConstants` (`N` is a number) and `WriteConstants` (finitely many values, and
at least one row in a batch of `CreateAll`, which takes its default where
`WithBatchSize` asks for none or fewer).

**DbQueueProofs.** `IInv` is `TypeOK`, `OneHolder`, `AttemptsAccount` and three
facts that make them inductive: `HeldRows` (a row in a process's hands is
executing, and the copy agrees with it), `LockedRows` (a row locked by a claim
in progress is available, and one transaction locks it), `DoomedRows` (what a cleanup
has selected is settled and stays so). `OneHolder` alone is not inductive: a claim
preserves it only because a held row is not claimable (`HeldRows`) and a candidate
is locked by one transaction (`LockedRows`).

- `TypeCorrect`, `NeverClaimedTwice` (`OneHolder`), `AttemptsAreExact`
  (`AttemptsAccount`), and `SettledRowsStay` (`SettledStays`, an action property).
- `NoneLeftBehind` (`NoOrphanWithoutFault`): a row is executing only in the hands of
  a process, with `NoneCancelled`: nothing is cancelled where nothing has failed.
- `LimitHolds` (`WindowLimit`): the jobs counted and those about to be claimed,
  `Pending`, stay within `Bound`; a claim that counted below the limit adds at most
  one, and each other process with row locks may have one under way unseen.

**CloudTaskProofs.** `IInv` adds to the two properties `ClaimRows` (the row of an open
claim is pending with an attempt left and locked by that push), `PerformedRows` (the
row of a job that was claimed or runs is executing with the push's attempts, which are
one more than the dispatches until the job is dispatched), `UnknownBefore`,
`DoomedRows` and `SlotLock` (the slot row has one owner from the count to the commit).

- `TypeCorrect`, `NoConcurrentPerformAlways`, `AttemptsExactAlways`.
- `WindowLimitAlways` from `LimitInv`: what the holder of the slot row has counted
  is still what the window holds (`CountHolds`).
- `OnePass` (`OnePassOwnsTheChain`, about CleanupChain): while nothing has failed
  the sentinel stands exactly as long as a pass is at work, there is one at most, and
  nobody takes a claim back (`Owned`).

**ProcessProofs.** For AsyncJobs `IInv` says where a job is, in the channel once or
with one worker; with that, `InFlightCounts` and `SlotCounts` equate the WaitGroup
and the slot with the cardinality of the jobs they count.

- `TypeCorrect`, `DrainWaits` (`DrainWaitsForAll`), `LimitHolds` (`LimitUntilOverrun`).
- `LeftBehind` (`LeftBehindOnlyAfterError`, about Lifecycle), for any number of
  runners and requests: what `Stopped` and `Closed` say has ended by each point of
  `Run`.

**HubProofs.** Requests interleave wherever the code gives up `Hub.mu`, so `SubInv`
says, for each place a subscriber can be referred to from (`Conn.subs`, a teardown, a
callback, a fan-out, a pump's copy), what the other places then hold.

- `TypeCorrect`, `SubscribedOnce` (`OneSubscription`), `NothingLeftBehind`
  (`TornDownUnlessRaced`).
- `NothingLostSilently` (`NoSilentLoss`) with `Owing`: a payload is owed only to
  subscribers of a fan-out that is there.
- `DeliveredInOrder` (`InOrder`, an action property) from `OrderInv`: payloads wait in
  the order they were published in, behind what each subscriber has got.

**CacheProofs.**

- `TypeCorrect`, and `MemoryRateLimit` (`RateLimitEnforced` of the memory backend).
  The limiter decides on a count, the limit is about requests let through;
  `WindowIsEntry` (an open window is the life of the counter's entry, and that entry
  has counted every request let through) ties the two and is inductive because the
  sweep only takes what has expired. This is what fails for the database.
- `MemoryImplementsContract` (`ImplementsStore`): the refinement of `CacheStore`: each
  answer is one step of the contract, a sweep is the eviction of what had expired when
  it read the clock.
- `DatabaseRateLimit` (`LimitUnlessRaced`) and `DatabaseKeepsContract`
  (`ContractUnlessRaced`): the same of the database backend for as long as no eviction
  has taken a row that counted. `StatementInv` says what a call has between its
  statements: the clock reading it goes by lies between its start and now
  (`CallsKnown`), and a transaction about to update holds the lock of its row, which is
  there (`RowHeld`). The limit then follows as in memory, from the row of an open
  window.

**ServicesProofs.**

- `ClientsOwnLimit` (`LimitPerClient`, RequestGate). `GateInv` follows the header
  along the path, whatever lines a client began it with: as long as there is one line,
  behind what the client forged stand the addresses the proxies saw (`Header`), so
  that the walk from the right ends at the true client (`Identity`), and the count of
  an identity is its client's requests (`Counts`).
- `IntervalsKept` (`KeepsInterval`, Scheduler). `Rate` bounds the runs of a schedule by
  the intervals that have passed, `Once` by the ticks there were; `OnTime` bounds from
  the other side, while ticks are done in time, how far the next run can lie behind the
  last (`Punctual`): a tick's lateness adds to the interval, and what counts is how many
  whole seconds that makes. The division and multiplication facts are lemmas of their own.
- `NoneSkippedNoneTwice` (`DeliveredOnce`, DbBroadcaster). `ReadAhead` (what poll has
  read lies after the cursor, in order), `SentBehind` (a channel was sent only what
  the cursor has passed) and `OwedStays` (what is owed is with `Run`, or there to be
  read and not passed, or committed late) are needed because the cursor moves in a
  step of its own, between the `SELECT` and the next, while rows commit and are
  trimmed.

**WebProofs.**

- `UnsafeVerified` (`UnsafeIsVerified`) and `SessionsAreOnesOwn` (`SessionIsOnesOwn`,
  WebSession): the session is a cookie only, so `WebInv` says of every copy of one, in
  a browser, with a request or in an answer on its way, whose it is: it names that
  visitor or nobody (`Named`), and its token was made for that visitor's request
  (`Own`). The token that csrf compared (`Compared`) is therefore of a form made for the
  visitor.
- `RoutesRunTheirOwn` (`RouteRunsItsOwn`, Routing), down to Go's slices: `Apart` and
  `CommonOnly` say that only the program's own array is shared, and only by groups made
  of it, `Right` that what a slice shows is what its owner was given.

**PackProofs.**

- `TxIsNested` (`TxNests`): PackTx refines NestedTx. `ScopesNest` says that scopes
  begin one after the other with what was written by then, `ScopesSaved` that the
  session still has the savepoint of every open scope and no other of that name. The
  second is what a rollback to a savepoint needs, and it is inductive because names
  are never used again in a transaction and `RELEASE` and `ROLLBACK TO` only drop
  savepoints of scopes that have ended. How the frames of the abstract scopes change
  when a scope begins, writes, ends or is taken back are lemmas about sequences
  (`FramesBegin`, `FramesWrite`, `FramesPop`).
- `MigrationsRecorded` (`AppliedAsRecorded`): `Noted` (calls under way together
  have been noted as overlapping), `Agrees` (without overlap what a call has read is
  still the record, and record and schema differ only at the migration it is at) and
  `InSequence` (the migrations recorded are the first ones, in the order of their
  times; an `Up` has those before its own behind it, a `Down` undoes the last).
- `RebuiltWhole` (`RebuildIsSafe`): what the open transaction holds at each step
  (`Progress`) and which connections enforce foreign keys (`Enforced`).
- `ValuesOwnTheirRows` (`OwnRow`): `Owns` says that the key of a value whose row can
  be known has been given out, that the row with that key was written from it, and
  that older rows were so only where the value was inserted again. It needs
  `KeysGiven` (no row has a key that was not given out), because an `INSERT` takes
  keys beyond the last; `Unsent` (a row of a call that no statement has sent yet still
  has no key, so that what it is given is its first, unless the value came with one),
  which the batches of `CreateAll` keep one after the other; and `HeldApart` (a value
  is in one call at a time, and once). `InsertsRows` and `KeysInOrder` say which keys
  a statement gives to which rows, `KeysRead` what `RETURNING` and the count from
  `LastInsertId` write back.
- `ChildrenAttached` (`PreloadAttaches`): `InOrderExists` shows that any set of rows can
  be read in order, from which `ScannedIs` concludes that the rows of a key come once
  each and none is missing; `ParentKey` and `ChildrenFound` compare the keys that a Go
  map compares.

Only model-checked:

- liveness: `DueIsRecorded`, `EventuallySettled`, `ArmedAgain`, `JobsAndCloseEnd`,
  `RunReturns`, `CallReturns`, `ExpiredEntriesGo`, `CallsReturn`. Fairness and ENABLED
  are out of the prover's reach;
- `StatementMeansQuery`: `SqlBuild` and `PackQuery` render and evaluate predicates by
  RECURSIVE operators, beside which the prover loses its SMT backend. `PackParts`
  holds the parts of `MCPack` that do without.

A module's `TypeOK` that no run lists is there for the proofs.

## Findings

1. `jobs/backend/dbqueue/claim.go:12`: on PostgreSQL and MySQL the concurrency
   limit is checked by a subquery that does not see other open claims
   (`dbqueue_limit`).
2. `cloudtask_retry`: a job that may still be retried can be left without a task.
3. `cleanup_chain_heal`: a crash during a pass stops the cleanup chain for good.
4. `hub_leak`: `Subscribe` racing `Disconnect` leaves a subscription behind.
5. `channels/backend/database/run.go:45`: the poll's cursor passes ids that have not
   committed, and their rows are never delivered (`services_late`).
6. `pack/internal/sqlbuild/render.go:160`: a raw fragment is put beside the other
   conditions without parentheses (`pack_raw`).

Each is stated in `PROJECT.json` with the line of the documentation it contradicts.
Smaller ones, with a configuration of their own (see [Runs](#runs)):

7. `cache/backend/database/run.go:53`: the sweep deletes by id a counter that was
   restarted in place, against `cache/store.go:32` (`MCCacheLimit.cfg`).
8. `jobs/scheduler.go:70`: the next run counts from the tick and not from the run, so
   that runs can be closer than the interval, against `jobs/registry.go:19`
   (`MCServicesInterval.cfg`).
9. `trail.go:236`: after an error nothing cuts off the requests that outlast
   `Shutdown`, against `trail.go:182` (`MCProcessLeft.cfg`).
10. `pack/project.go:12`: `Project` loses GROUP BY and SKIP LOCKED of "the same query",
    against `pack/project.go:7` (`MCPackProject.cfg`).

## Not modelled

- Payload encoding, JSON, logging and the text of DDL everywhere; HTTP parsing,
  binding of requests to structs and template rendering: conversions by reflection
  or by the standard library, one request at a time.
- `cors`, `secureheaders`: headers of one answer from one request, no state.
- `cache.Fetch` and fragments: they read, compute and write, and nothing in the code
  or the docs says what a `Fetch` that races an invalidation owes.
- `pack`'s schema reflection, scanning into structs and field generator; drivers are
  external.
- `auth` (cryptography), `mail` (one SMTP call), `assets`, the command line and its
  templates (files at build time), `inline` and `jobstest` (no state of their own).
- Within the modelled parts: the registry of job types; several keys with different
  limits (they do not interact); in `CloudTask` dialects without row locks; in `Hub`
  more than one topic, which is also what `DbBroadcaster` is checked with.

Real time is abstract: the clock ticks at any moment, so how long something takes
is never bounded. Under steady traffic each enqueue can move the Cloud Tasks
cleanup to a later moment; whether it ever runs is not decided here.

## Plan

Done: the models of every part whose behaviour depends on order or failure, and a
theorem for every safety property of the runs but `StatementMeansQuery`, which stays
with TLC like the liveness properties (see [Proofs](#proofs)).
