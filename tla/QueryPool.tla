------------------------------ MODULE QueryPool -----------------------------
(* Connections of pack's reads (pack/query.go, preload.go, create.go): which  *)
(* call holds one of the pool's connections while it asks for another.  A     *)
(* call is Find, First, Rows or a Create that reads back generated columns;   *)
(* it issues further queries for its preloads, in the loop body of Rows or in *)
(* the AfterInsert hook.  In a transaction, here one of a single call, all of *)
(* them share its connection.                                                 *)
(* The pool of database/sql is external: a call that finds no free connection *)
(* waits for one, in turn.                                                    *)
EXTENDS Naturals, FiniteSets, FiniteSetsExt

CONSTANTS
  Callers,                    \* goroutines
  MaxConns,                   \* bound: SetMaxOpenConns
  MaxInner                    \* bound: further queries per call

VARIABLES
  conns,                      \* the size of the pool
  oneResult,                  \* driver: a connection with an open result refuses
                              \*   another query (Postgres, MySQL)
  call                        \* goroutine |-> its call

vars == <<conns, oneResult, call>>

Ops == {"find", "first", "rows", "create"}
Idle == [op |-> "idle", pc |-> "idle", inner |-> 0, open |-> FALSE, tx |-> FALSE]

Init ==
  /\ conns \in 1..MaxConns
  /\ oneResult \in BOOLEAN
  /\ call = [c \in Callers |-> Idle]

\* Connections in use: the transaction's, or one per open result and one for
\* the inner query.
Held(k) ==
  IF k.tx THEN 1
  ELSE (IF k.open THEN 1 ELSE 0) + (IF k.pc = "innerScan" THEN 1 ELSE 0)

Free == conns - MapThenSumSet(LAMBDA c : Held(call[c]), Callers)
Set(c, k) == call' = [call EXCEPT ![c] = k]

\* The call is over: the deferred rows.Close gives back what it still holds.
Done(k) == IF k.tx THEN [Idle EXCEPT !.op = "tx", !.tx = TRUE] ELSE Idle

-----------------------------------------------------------------------------

Start(c, op, n) ==
  /\ call[c] = Idle
  /\ Set(c, [Idle EXCEPT !.op = op, !.pc = "query", !.inner = n])
  /\ UNCHANGED <<conns, oneResult>>

\* DB.Tx takes a connection for as long as its function runs.
StartInTx(c, op, n) ==
  /\ call[c] = Idle
  /\ Free > 0
  /\ Set(c, [Idle EXCEPT !.op = op, !.pc = "query", !.inner = n, !.tx = TRUE])
  /\ UNCHANGED <<conns, oneResult>>

Commit(c) ==
  /\ call[c].op = "tx"
  /\ Set(c, Idle)
  /\ UNCHANGED <<conns, oneResult>>

\* queryContext: a result is open.
Query(c) ==
  /\ call[c].pc = "query"
  /\ call[c].tx \/ Free > 0
  /\ Set(c, [call[c] EXCEPT !.pc = "scan", !.open = TRUE])
  /\ UNCHANGED <<conns, oneResult>>

\* The statement fails: nothing was opened.
QueryFails(c) ==
  /\ call[c].pc = "query"
  /\ Set(c, Done(call[c]))
  /\ UNCHANGED <<conns, oneResult>>

\* Mutant: the preloads run before the rows are read to the end.
ScanAll_open(c) ==
  /\ call[c].op = "find" /\ call[c].pc = "scan"
  /\ Set(c, [call[c] EXCEPT !.pc = "inner"])
  /\ UNCHANGED <<conns, oneResult>>

\* Find: scanAllRows reads to the end, where database/sql closes the result.
ScanAll(c) ==
  /\ call[c].op = "find" /\ call[c].pc = "scan"
  /\ Set(c, [call[c] EXCEPT !.pc = "inner", !.open = FALSE])
  /\ UNCHANGED <<conns, oneResult>>

\* First, Rows and Create read one row: the result stays open.
ScanOne(c) ==
  /\ call[c].op # "find" /\ call[c].pc = "scan"
  /\ Set(c, [call[c] EXCEPT !.pc = "inner"])
  /\ UNCHANGED <<conns, oneResult>>

\* There is no row, or reading it failed.
ScanEnds(c) ==
  /\ call[c].pc = "scan"
  /\ Set(c, Done(call[c]))
  /\ UNCHANGED <<conns, oneResult>>

\* A preload, or a query of the loop body or the hook.
Inner(c) ==
  /\ call[c].pc = "inner" /\ call[c].inner > 0
  /\ call[c].tx \/ Free > 0
  /\ Set(c, IF call[c].tx /\ call[c].open /\ oneResult THEN Done(call[c])
            ELSE [call[c] EXCEPT !.pc = "innerScan"])
  /\ UNCHANGED <<conns, oneResult>>

\* runPreload reads its rows to the end before it looks for more.
InnerScan(c) ==
  /\ call[c].pc = "innerScan"
  /\ \/ Set(c, [call[c] EXCEPT !.pc = "inner", !.inner = @ - 1])
     \/ Set(c, Done(call[c]))
  /\ UNCHANGED <<conns, oneResult>>

Return(c) ==
  /\ call[c].pc = "inner" /\ call[c].inner = 0
  /\ Set(c, Done(call[c]))
  /\ UNCHANGED <<conns, oneResult>>

Step(c) ==
  Query(c) \/ ScanAll(c) \/ ScanOne(c) \/ ScanEnds(c) \/ Inner(c) \/ InnerScan(c) \/ Return(c) \/ Commit(c)

Next ==
  \E c \in Callers :
    \/ \E op \in Ops, n \in 0..MaxInner : Start(c, op, n) \/ StartInTx(c, op, n)
    \/ Step(c) \/ QueryFails(c)

\* Goroutines run, streams end, and the pool serves those who wait in turn.
Fairness == \A c \in Callers : SF_vars(Step(c))

Spec == Init /\ [][Next]_vars /\ Fairness

-----------------------------------------------------------------------------
(* Properties.                                                                *)

TypeOK ==
  /\ conns \in 1..MaxConns /\ oneResult \in BOOLEAN
  /\ Free \in 0..conns
  /\ \A c \in Callers : call[c].op \in Ops \cup {"idle", "tx"} /\ call[c].inner \in 0..MaxInner

\* Every connection is held by a call that reads one row and asks for another
\* connection before it closes its result: none will ever be free.
Starved ==
  /\ Free = 0
  /\ \A c \in Callers :
       Held(call[c]) > 0 => /\ call[c].op \in {"first", "rows", "create"} /\ ~call[c].tx
                            /\ call[c].pc = "inner" /\ call[c].inner > 0

\* A call returns whatever the others do and however small the pool, unless the
\* connections ran out on calls that hold one for a single row while they ask
\* for another: First with a preload, a query in the body of Rows or in the
\* AfterInsert hook (query.go, First and Find).
CallsReturn == \A c \in Callers : (call[c].op # "idle") ~> (call[c].op = "idle" \/ Starved)
=============================================================================
