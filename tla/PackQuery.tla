------------------------------ MODULE PackQuery -----------------------------
(* Query[T] of pack: a program chains calls on queries it already has, keeps  *)
(* every query it built, and runs any of them at any time.  A query shares    *)
(* nothing it could change with the one it was made from; the slices it       *)
(* holds are views of arrays, as in Go, so that this can go wrong.  OrderBy,  *)
(* Offset, Distinct and the select list bind nothing and are left out.        *)
EXTENDS SqlBuild

CONSTANTS
  Calls,                      \* chain calls: [op, p], p a predicate where one is given
  Assignment,                 \* what Query.Update sets, as the equation it prints
  Rows,                       \* rows a condition can be true of
  MaxQueries                  \* bound: queries the program builds

VARIABLES
  dialect,
  hooked,                     \* the model has hooks for updates and deletes
  queries,                    \* what the program holds, in the order it was built
  arrays                      \* backing arrays of the slices

vars == <<dialect, hooked, queries, arrays>>

Empty == [array |-> 0, len |-> 0]
Slice(s) == IF s.array = 0 THEN <<>> ELSE SubSeq(arrays[s.array], 1, s.len)

\* Of[T](db)
Of ==
  [from |-> 0, call |-> [op |-> "of", p |-> NoPredicate],
   joins |-> Empty, where |-> NoPredicate, having |-> NoPredicate, grouped |-> FALSE,
   limited |-> FALSE, forUpdate |-> FALSE, forShare |-> FALSE, skipLocked |-> FALSE,
   skipHooks |-> FALSE]

Init ==
  /\ dialect \in {Postgres, SQLite, MySQL}
  /\ hooked \in BOOLEAN
  /\ queries = <<Of>>
  /\ arrays = <<>>

-----------------------------------------------------------------------------
(* Chain calls                                                                *)

\* Mutant: Go's append, which writes into an array that has room.
appendFresh_inPlace(base, e) ==
  IF base.array = 0
  THEN [arrays |-> Append(arrays, <<e>>), slice |-> [array |-> Len(arrays) + 1, len |-> 1]]
  ELSE [arrays |-> [arrays EXCEPT ![base.array] = Append(SubSeq(@, 1, base.len), e)],
        slice |-> [base EXCEPT !.len = @ + 1]]

\* A new array for every slice.
appendFresh(base, e) ==
  [arrays |-> Append(arrays, Append(Slice(base), e)),
   slice |-> [array |-> Len(arrays) + 1, len |-> base.len + 1]]

\* The query after a call that touches no slice.  Project keeps the joins, the
\* filters, LIMIT and the kind of lock, and starts anew with the rest.
Applied(q, c) ==
  CASE c.op = "where" -> [q EXCEPT !.where = andJoin(@, c.p)]
    [] c.op = "or" -> [q EXCEPT !.where = orJoin(@, c.p)]
    [] c.op = "having" -> [q EXCEPT !.having = andJoin(@, c.p)]
    [] c.op = "groupBy" -> [q EXCEPT !.grouped = TRUE]
    [] c.op = "limit" -> [q EXCEPT !.limited = TRUE]
    [] c.op = "forUpdate" -> [q EXCEPT !.forUpdate = TRUE]
    [] c.op = "forShare" -> [q EXCEPT !.forShare = TRUE]
    [] c.op = "skipLocked" -> [q EXCEPT !.skipLocked = TRUE]
    [] c.op = "skipHooks" -> [q EXCEPT !.skipHooks = TRUE]
    [] c.op = "project" ->
         [Of EXCEPT !.joins = q.joins, !.where = q.where, !.having = q.having,
                    !.limited = q.limited, !.forUpdate = q.forUpdate, !.forShare = q.forShare]

Chain(i, c) ==
  /\ Len(queries) < MaxQueries
  /\ LET a == appendFresh(queries[i].joins, c.p)
         q == IF c.op = "join" THEN [queries[i] EXCEPT !.joins = a.slice] ELSE Applied(queries[i], c)
     IN /\ queries' = Append(queries, [q EXCEPT !.from = i, !.call = c])
        /\ arrays' = IF c.op = "join" THEN a.arrays ELSE arrays
  /\ UNCHANGED <<dialect, hooked>>

Next == \E i \in DOMAIN queries, c \in Calls : Chain(i, c)

Spec == Init /\ [][Next]_vars

-----------------------------------------------------------------------------
(* The statements a query can be run as: their clauses in the order they are  *)
(* printed.  Count leaves out joins and LIMIT, Exists all but WHERE.          *)

Kinds == {"find", "count", "exists", "update", "delete", "deleteAll"}

Where(q) == IF IsZero(q.where) THEN <<>> ELSE <<q.where>>
Having(q) == IF IsZero(q.having) THEN <<>> ELSE <<q.having>>

\* SET comes before WHERE, and its argument is bound first.
UpdateClauses(q) == <<Assignment>> \o Where(q)
DeleteClauses(q) == Where(q)

Clauses(q, kind) ==
  CASE kind = "find" -> Slice(q.joins) \o Where(q) \o Having(q)
    [] kind = "count" -> Where(q) \o Having(q)
    [] kind = "exists" -> Where(q)
    [] kind = "update" -> UpdateClauses(q)
    [] kind \in {"delete", "deleteAll"} -> DeleteClauses(q)

\* Render of a SELECT refuses what the dialect cannot lock.
LockError(q) ==
  \/ q.forUpdate /\ q.forShare
  \/ q.skipLocked /\ ~q.forUpdate /\ ~q.forShare
  \/ (q.forUpdate \/ q.forShare) /\ ~dialect.rowLocking

\* A set-based statement is refused where hooks would be passed over, and
\* Delete where it has no condition.
Refused(q, kind) ==
  CASE kind = "find" -> LockError(q)
    [] kind \in {"count", "exists"} -> FALSE
    [] kind \in {"update", "deleteAll"} -> hooked /\ ~q.skipHooks
    [] kind = "delete" -> IsZero(q.where) \/ (hooked /\ ~q.skipHooks)

Lock(q) ==
  IF q.forUpdate \/ q.forShare
  THEN [on |-> IF q.forUpdate THEN "update" ELSE "share", skip |-> q.skipLocked]
  ELSE [on |-> "none", skip |-> FALSE]

Run(q, kind) == Render(Clauses(q, kind), dialect)

-----------------------------------------------------------------------------
(* Properties.  What a query is meant to be is what the calls that made it    *)
(* say, in order, whatever was done with other queries.                       *)

RECURSIVE Said(_)
Said(i) == IF queries[i].from = 0 THEN <<>> ELSE Append(Said(queries[i].from), queries[i].call)

Of_(h, ops) == SelectSeq(h, LAMBDA c : c.op \in ops)

\* Where and Or add to all that was said before; the first that says anything
\* stands alone.
CondHolds(h, ops, row) ==
  LET cs == Of_(h, ops)
      first == {k \in DOMAIN cs : ~IsZero(cs[k].p)}
  IN IF first = {} THEN TRUE
     ELSE FoldLeft(LAMBDA acc, c : IF c.op = "or" THEN acc \/ Means(c.p, row) ELSE acc /\ Means(c.p, row),
                   Means(cs[Min(first)].p, row), SubSeq(cs, Min(first) + 1, Len(cs)))

Given(h, ops) == \E i \in DOMAIN h : h[i].op \in ops /\ ~IsZero(h[i].p)

\* The conditions the clauses of the statement are to state, in order.
Intended(h, kind, row) ==
  LET joins == Of_(h, {"join"})
      where == IF Given(h, {"where", "or"}) THEN <<CondHolds(h, {"where", "or"}, row)>> ELSE <<>>
      having == IF Given(h, {"having"}) THEN <<CondHolds(h, {"having"}, row)>> ELSE <<>>
  IN CASE kind = "find" -> [i \in DOMAIN joins |-> Means(joins[i].p, row)] \o where \o having
       [] kind = "count" -> where \o having
       [] kind = "update" -> <<Means(Assignment, row)>> \o where
       [] OTHER -> where

Stated(q, kind, row) ==
  LET r == Run(q, kind)
      Before(k) == Holes(FlattenSeq(SubSeq(r.clauses, 1, k - 1)))
  IN [k \in DOMAIN r.clauses |-> Reads(Bound(r.clauses[k], Before(k), r.args, dialect), row)]

\* Fragments the renderer takes apart or MySQL cannot bind.
Loose(q, kind) ==
  \E i \in DOMAIN Clauses(q, kind) :
    FallsApart(Clauses(q, kind)[i]) \/ (dialect.positional /\ Reorders(Clauses(q, kind)[i]))

Runs(q, kind) == ~Refused(q, kind) /\ Run(q, kind).ok

\* What can still be wrong: every statement of the newest query, and of those
\* before it the one that reads a slice.
Suspect(i) == IF i = Len(queries) THEN Kinds ELSE {"find"}

Projected(h) == \E i \in DOMAIN h : h[i].op = "project"
AskedFor(h, ops) == \E i \in DOMAIN h : h[i].op \in ops

\* Every query states what the calls that made it say, on every dialect: its
\* conditions hold of the same rows, each value is bound where it belongs,
\* rows are limited, grouped and locked and locked rows skipped when that was
\* asked for, Delete has a condition, and no call made on another query shows in
\* it (query.go, sqlbuild).  Excepted are raw fragments whose connectives the
\* renderer leaves bare, on MySQL those that do not use their placeholders in
\* order, and GROUP BY and SKIP LOCKED on a query that was projected.
StatementMeansQuery ==
  \A i \in DOMAIN queries :
    LET q == queries[i]
        h == Said(i)
    IN /\ \A kind \in Suspect(i) :
            (Runs(q, kind) /\ ~Loose(q, kind)) =>
               \A row \in Rows : Stated(q, kind, row) = Intended(h, kind, row)
       /\ Runs(q, "delete") => Given(h, {"where", "or"})
       /\ Runs(q, "find") =>
            /\ (Lock(q).on # "none") = AskedFor(h, {"forUpdate", "forShare"})
            /\ q.limited = AskedFor(h, {"limit"})
            /\ ~Projected(h) => /\ Lock(q).skip = AskedFor(h, {"skipLocked"})
                                /\ q.grouped = AskedFor(h, {"groupBy"})

\* Project drops "T's own preloads/select list/skip-hooks state" and is "how to
\* scan the same query's rows" into another struct: a query that was projected
\* groups its rows and skips locked ones as the query before it.  The code starts
\* the new query without GROUP BY and without SKIP LOCKED.
ProjectKeepsRows ==
  \A i \in DOMAIN queries :
    LET q == queries[i]
        h == Said(i)
    IN Runs(q, "find") => /\ q.grouped = AskedFor(h, {"groupBy"})
                          /\ Lock(q).skip = AskedFor(h, {"skipLocked"})

\* WhereRaw "AND-s a raw SQL fragment onto the WHERE condition": no row that
\* the conditions so far exclude comes back.  The renderer does not put the
\* fragment in parentheses, so that an OR in it lets such rows in.
WhereRawConjoins ==
  \A i \in DOMAIN queries :
    LET q == queries[i]
    IN (q.from # 0 /\ q.call.op = "where" /\ q.call.p.kind = "raw"
          /\ Runs(q, "exists") /\ ~dialect.positional) =>
       \A row \in Rows :
         Stated(q, "exists", row) = <<TRUE>> => CondHolds(Said(q.from), {"where", "or"}, row)
=============================================================================
