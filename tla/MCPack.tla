------------------------------- MODULE MCPack -------------------------------
(* The database layer for TLC: transactions, writes, queries, preloads, the   *)
(* connections they hold, migrations and SQLite's table rebuild.  A behaviour *)
(* is about one of them, chosen at the start; the state of the others stays   *)
(* as it was.                                                                 *)
EXTENDS SqlBuild, PackParts

VARIABLES
  part,                       \* the part this behaviour is about
  dialect, hooked, queries, arrays

-----------------------------------------------------------------------------
(* Bounds                                                                     *)

x1 == Cmp("x", 1)
y2 == Cmp("y", 2)

\* "x = $1 OR y = $2" and "x = $2 AND y = $1"
RawOr == Raw(<<TestWord("cmp", "x", <<1>>), Word("or"), TestWord("cmp", "y", <<2>>)>>, <<2, 1>>)
RawSwapped == Raw(<<TestWord("cmp", "x", <<2>>), Word("and"), TestWord("cmp", "y", <<1>>)>>, <<1, 2>>)

MCCalls ==
  {[op |-> "where", p |-> p] : p \in {Or(<<x1, y2>>), RawOr, RawSwapped}}
    \cup {[op |-> "or", p |-> p] : p \in {Not(And(<<y2, NotIn("x", <<>>)>>))}}
    \cup {[op |-> "having", p |-> ILike("x", 2)]}
    \cup {[op |-> "join", p |-> p] : p \in {x1, In("y", <<1, 2>>)}}
    \cup {[op |-> op, p |-> NoPredicate] :
            op \in {"where", "forUpdate", "skipLocked", "forShare", "limit", "groupBy", "project", "skipHooks"}}

-----------------------------------------------------------------------------

Query == INSTANCE PackQuery WITH
           Calls <- MCCalls, Assignment <- Cmp("x", 2), Rows <- [{"x", "y"} -> {1, 2}], MaxQueries <- 4

queryVars == <<dialect, hooked, queries, arrays>>
mcvars == <<part, txVars, writeVars, queryVars, preloadVars, poolVars, migrateVars, rebuildVars>>

MCInit ==
  /\ part \in {"tx", "write", "query", "preload", "pool", "migrate", "rebuild"}
  /\ Tx!Init /\ (part # "tx" => ~refuses)
  /\ Write!Init /\ (part # "write" => ~returning /\ ~unique)
  /\ Query!Init /\ (part # "query" => dialect = SQLite /\ ~hooked)
  /\ Pool!Init /\ (part # "pool" => conns = 1 /\ ~oneResult)
  /\ Mig!Init /\ (part # "migrate" => ~ddl)
  /\ Rebuild!Init /\ (part # "rebuild" => dangling = {})
  /\ IF part = "preload" THEN Pre!Init
     ELSE parents = <<>> /\ related = <<>> /\ nullable = "neither" /\ slice = FALSE /\ given = <<>>

MCNext ==
  \/ /\ part = "tx" /\ Tx!Next
     /\ UNCHANGED <<part, writeVars, queryVars, preloadVars, poolVars, migrateVars, rebuildVars>>
  \/ /\ part = "write" /\ Write!Next
     /\ UNCHANGED <<part, txVars, queryVars, preloadVars, poolVars, migrateVars, rebuildVars>>
  \/ /\ part = "query" /\ Query!Next
     /\ UNCHANGED <<part, txVars, writeVars, preloadVars, poolVars, migrateVars, rebuildVars>>
  \/ /\ part = "preload" /\ Pre!Next
     /\ UNCHANGED <<part, txVars, writeVars, queryVars, poolVars, migrateVars, rebuildVars>>
  \/ /\ part = "pool" /\ Pool!Next
     /\ UNCHANGED <<part, txVars, writeVars, queryVars, preloadVars, migrateVars, rebuildVars>>
  \/ /\ part = "migrate" /\ Mig!Next
     /\ UNCHANGED <<part, txVars, writeVars, queryVars, preloadVars, poolVars, rebuildVars>>
  \/ /\ part = "rebuild" /\ Rebuild!Next
     /\ UNCHANGED <<part, txVars, writeVars, queryVars, preloadVars, poolVars, migrateVars>>

MCSpec == MCInit /\ [][MCNext]_mcvars /\ Pool!Fairness

-----------------------------------------------------------------------------
(* Symmetry                                                                   *)

\* No property tells two Go values, or two rows of a transaction, apart, and
\* neither occurs in what fairness and CallsReturn speak of.
Symmetry == Permutations(Values)

-----------------------------------------------------------------------------
(* The properties of the queries.                                             *)

\* Every query states what the calls that made it say.
StatementMeansQuery == part = "query" => Query!StatementMeansQuery
\* WhereRaw lets in no row that the conditions before it exclude.
WhereRawConjoins == part = "query" => Query!WhereRawConjoins
\* Project keeps what the query says of its rows.
ProjectKeepsRows == part = "query" => Query!ProjectKeepsRows
=============================================================================
