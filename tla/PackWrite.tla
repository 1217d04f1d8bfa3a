----------------------------- MODULE PackWrite ------------------------------
(* Writes of pack: Create, CreateAll, Save, Update and Delete against one     *)
(* table with an auto-increment key, with or without a unique column, by      *)
(* goroutines that share Go values and run one call at a time.  Each          *)
(* statement is a step; a statement may fail, and its answer may be lost      *)
(* after it took effect.  Hooks may return an error.                          *)
EXTENDS Integers, Sequences, SequencesExt, FiniteSets, FiniteSetsExt, Functions

CONSTANTS
  Procs,                      \* goroutines
  Values,                     \* Go values of the model
  BatchSize,                  \* rows per INSERT of CreateAll
  MaxId,                      \* bound: keys the table gives out
  MaxWrites,                  \* bound: calls
  MaxWriteFaults              \* bound: failed statements, lost answers, failed hooks

VARIABLES
  returning,                  \* dialect: INSERT ... RETURNING
  unique,                     \* the table has a unique column besides the key
  table,                      \* key |-> the value its row was written from, and its
                              \*   defaulted column
  lastId,                     \* the last key given out
  value,                      \* Go value |-> key and defaulted column, 0 for zero
  doing,                      \* goroutine |-> its call
  writes, writeFaults,
  vague,                      \* Go values whose row the program cannot know: an answer was
                              \*   lost, a conflict was met, DoNothing was asked for, or
                              \*   such a value was saved over theirs
  again                       \* history: Go values that Create or CreateAll was given when
                              \*   they had a key

vars == <<returning, unique, table, lastId, value, doing, writes, writeFaults, vague, again>>

Idle == [op |-> "idle", rows |-> <<>>]
\* No OnConflict option, DoNothing and DoUpdate.
Conflict == IF unique THEN {"fail", "nothing", "update"} ELSE {"fail"}

Init ==
  /\ returning \in BOOLEAN /\ unique \in BOOLEAN
  /\ table = <<>> /\ lastId = 0
  /\ value = [v \in Values |-> [pk |-> 0, dflt |-> 0]]
  /\ doing = [p \in Procs |-> Idle]
  /\ writes = 0 /\ writeFaults = 0
  /\ vague = {} /\ again = {}

Call(p, c) ==
  /\ doing[p].op = "idle" /\ writes < MaxWrites
  /\ \A q \in Procs : Range(doing[q].rows) \cap Range(c.rows) = {}
  /\ doing' = [doing EXCEPT ![p] = c]
  /\ writes' = writes + 1
  /\ again' = again \cup {v \in Range(c.rows) : c.op \in {"one", "all"} /\ value[v].pk # 0}
  /\ UNCHANGED <<returning, unique, table, lastId, value, writeFaults, vague>>

Fault == writeFaults < MaxWriteFaults /\ writeFaults' = writeFaults + 1
Return(p) == doing' = [doing EXCEPT ![p] = Idle]
To(p, pc) == doing' = [doing EXCEPT ![p].pc = pc]

-----------------------------------------------------------------------------
(* Create and CreateAll                                                       *)

\* The call, after the BeforeInsert hooks of all its rows: any of them returning
\* an error ends it before the first INSERT.
Insert(p, op, rows, conflict) ==
  Call(p, [op |-> op, rows |-> rows, pc |-> "insert", at |-> 1, conflict |-> conflict])

\* The keys of the rows written from v, and of the rows v's unique column meets.
RowsOf(v) == {k \in DOMAIN table : table[k].of = v}
Met(v) == IF unique THEN RowsOf(v) ELSE {}

\* The rows of the next batch; Create has one.
Batch(d) ==
  SubSeq(d.rows, d.at, Min({Len(d.rows), d.at + (IF d.op = "all" THEN BatchSize ELSE 1) - 1}))

Clashes(b) == {i \in DOMAIN b : Met(b[i]) # {}}

\* What one INSERT does: the rows take consecutive keys, and a row whose unique
\* column is taken fails the statement, is left out or updates the other row.
\* Create lets the database fill a defaulted column left at zero; CreateAll
\* writes the zero.
FreshAt(b) == DOMAIN b \ Clashes(b)
KeyAt(b, i) == lastId + Cardinality({j \in FreshAt(b) : j <= i})
Given(b) == {KeyAt(b, i) : i \in FreshAt(b)}
Defaulted(op, v) == IF op = "one" /\ value[v].dflt = 0 THEN 1 ELSE value[v].dflt

Inserted(d, b) ==
  [k \in DOMAIN table \cup Given(b) |->
     IF k \in DOMAIN table THEN table[k]
     ELSE LET v == b[CHOOSE i \in FreshAt(b) : KeyAt(b, i) = k]
          IN [of |-> v, dflt |-> Defaulted(d.op, v)]]

\* The key of a row of the batch: its own where it was inserted, that of the
\* row it met where that was updated.
At(b, v) == CHOOSE i \in DOMAIN b : b[i] = v
KeyOf(b, v) == IF Met(v) # {} THEN Min(Met(v)) ELSE KeyAt(b, At(b, v))

\* RETURNING reports the key, and the defaulted columns for Create, row by row.
Returned(d, t, b) ==
  [v \in Values |->
     IF v \in Range(b)
     THEN LET k == KeyOf(b, v)
          IN [pk |-> k, dflt |-> IF d.op = "one" THEN t[k].dflt ELSE value[v].dflt]
     ELSE value[v]]

\* LastInsertId is the first key the statement gave out; row i of the batch gets
\* the i-th after it.  When every row met another the number is whatever the
\* database says.
LastInsertId(b) == IF FreshAt(b) = {} THEN 0..MaxId ELSE {lastId + 1}

\* Mutant: the number is taken for the key of the last row of the batch.
Counted_fromLast(b, id) ==
  [v \in Values |->
     IF v \in Range(b) THEN [value[v] EXCEPT !.pk = id + At(b, v) - Len(b)]
     ELSE value[v]]

Counted(b, id) ==
  [v \in Values |->
     IF v \in Range(b) THEN [value[v] EXCEPT !.pk = id + At(b, v) - 1]
     ELSE value[v]]

\* The INSERT.  With ON CONFLICT DO NOTHING nothing is read back.
Insertion(p) ==
  LET d == doing[p]
      b == Batch(d)
      t == Inserted(d, b)
  IN /\ d.op \in {"one", "all"} /\ d.pc = "insert"
     /\ lastId + Len(b) <= MaxId
     /\ Clashes(b) = {} \/ d.conflict # "fail"
     /\ table' = t
     /\ lastId' = lastId + Cardinality(FreshAt(b))
     /\ \/ d.conflict = "nothing" /\ UNCHANGED value
        \/ d.conflict # "nothing" /\ returning /\ value' = Returned(d, t, b)
        \/ d.conflict # "nothing" /\ ~returning
           /\ \E id \in LastInsertId(b) : value' = Counted(b, id)
     /\ vague' = IF Clashes(b) = {} /\ d.conflict # "nothing" THEN vague ELSE vague \cup Range(b)
     /\ To(p, IF ~returning /\ d.op = "one" /\ d.conflict # "nothing" /\ value[b[1]].dflt = 0
              THEN "refetch" ELSE "after")
     /\ UNCHANGED <<returning, unique, writes, writeFaults, again>>

\* The INSERT violates the unique column, or a statement fails: the call returns
\* the error, and the batches before it stay.
InsertFails(p) ==
  LET d == doing[p]
  IN /\ d.op \in {"one", "all"} /\ d.pc \in {"insert", "refetch"}
     /\ \/ d.pc = "insert" /\ d.conflict = "fail" /\ Clashes(Batch(d)) # {} /\ UNCHANGED writeFaults
        \/ Fault
     /\ Return(p)
     /\ UNCHANGED <<returning, unique, table, lastId, value, writes, vague, again>>

\* The INSERT took effect and its answer is lost: nothing is read back.
InsertAnswerLost(p) ==
  LET d == doing[p]
      b == Batch(d)
  IN /\ d.op \in {"one", "all"} /\ d.pc = "insert"
     /\ lastId + Len(b) <= MaxId
     /\ Clashes(b) = {} \/ d.conflict # "fail"
     /\ Fault
     /\ table' = Inserted(d, b)
     /\ lastId' = lastId + Cardinality(FreshAt(b))
     /\ vague' = vague \cup Range(b)
     /\ Return(p)
     /\ UNCHANGED <<returning, unique, value, writes, again>>

\* createWithoutReturning: SELECT of the defaulted columns by the new key; an
\* error if the row has been deleted meanwhile.
Refetch(p) ==
  LET d == doing[p]
      k == value[d.rows[1]].pk
  IN /\ d.op = "one" /\ d.pc = "refetch"
     /\ IF k \in DOMAIN table
        THEN /\ value' = [value EXCEPT ![d.rows[1]].dflt = table[k].dflt]
             /\ To(p, "after")
        ELSE Return(p) /\ UNCHANGED value
     /\ UNCHANGED <<returning, unique, table, lastId, writes, writeFaults, vague, again>>

\* AfterInsert of the rows of the batch, then the next batch.  An error leaves
\* the rows inserted and ends the call.
AfterInsert(p) ==
  LET d == doing[p]
      next == d.at + Len(Batch(d))
  IN /\ d.op \in {"one", "all"} /\ d.pc = "after"
     /\ \/ Fault /\ Return(p)
        \/ /\ next > Len(d.rows) /\ Return(p) /\ UNCHANGED writeFaults
        \/ /\ next <= Len(d.rows)
           /\ doing' = [doing EXCEPT ![p].pc = "insert", ![p].at = next]
           /\ UNCHANGED writeFaults
     /\ UNCHANGED <<returning, unique, table, lastId, value, writes, vague, again>>

-----------------------------------------------------------------------------
(* Update and Delete                                                          *)

\* Every column of the row with the value's key, after BeforeUpdate; no row with
\* that key is no error.  AfterUpdate may fail.
Update(p) ==
  LET v == doing[p].rows[1]
      k == value[v].pk
  IN /\ doing[p].op = "update"
     /\ table' = IF k \in DOMAIN table
                 THEN [table EXCEPT ![k] = [of |-> v, dflt |-> value[v].dflt]] ELSE table
     /\ vague' = IF v \in vague /\ k \in DOMAIN table THEN vague \cup {table[k].of} ELSE vague
     /\ Return(p)
     /\ UNCHANGED <<returning, unique, lastId, value, writes, writeFaults, again>>

\* Delete with delete hooks: ByID first, for the hooks; a row that is not there
\* ends the call.
Fetch(p) ==
  /\ doing[p].op = "delete" /\ doing[p].pc = "fetch"
  /\ IF doing[p].key \in DOMAIN table THEN To(p, "delete") ELSE Return(p)
  /\ UNCHANGED <<returning, unique, table, lastId, value, writes, writeFaults, vague, again>>

Without(keys) == Restrict(table, DOMAIN table \ keys)

Delete(p) ==
  /\ doing[p].op = "delete" /\ doing[p].pc = "delete"
  /\ table' = Without({doing[p].key})
  /\ Return(p)
  /\ UNCHANGED <<returning, unique, lastId, value, writes, writeFaults, vague, again>>

\* A statement or a Before hook of Update or Delete fails, or an After hook.
WriteFails(p) ==
  /\ doing[p].op \in {"update", "delete"}
  /\ Fault
  /\ Return(p)
  /\ UNCHANGED <<returning, unique, table, lastId, value, writes, vague, again>>

\* The calls, for values with a key and without.  Save is Create, with no option,
\* of a value whose key is zero and Update of any other.
Start(p) ==
  \/ \E v \in Values :
       \/ \E c \in Conflict : Insert(p, "one", <<v>>, c)
       \/ Call(p, [op |-> "update", rows |-> <<v>>, pc |-> "update"])
       \/ \E pc \in {"fetch", "delete"} :
            Call(p, [op |-> "delete", rows |-> <<>>, pc |-> pc, key |-> value[v].pk])
  \/ \E b \in {s \in SetToAllKPermutations(Values) : Len(s) > 1}, c \in Conflict : Insert(p, "all", b, c)

Next ==
  \E p \in Procs :
    \/ Start(p)
    \/ Insertion(p) \/ InsertFails(p) \/ InsertAnswerLost(p) \/ Refetch(p) \/ AfterInsert(p)
    \/ Update(p) \/ Fetch(p) \/ Delete(p) \/ WriteFails(p)

Spec == Init /\ [][Next]_vars

-----------------------------------------------------------------------------
(* Properties.                                                                *)

TypeOK ==
  /\ returning \in BOOLEAN /\ unique \in BOOLEAN
  /\ DOMAIN table \subseteq 1..MaxId /\ lastId \in 0..MaxId
  /\ \A k \in DOMAIN table : table[k].of \in Values /\ table[k].dflt \in {0, 1}
  /\ \A v \in Values : value[v].pk \in 0..(MaxId + Cardinality(Values)) /\ value[v].dflt \in {0, 1}
  /\ vague \subseteq Values

\* The key written back to a Go value is that of the newest row written from it,
\* whoever else writes, and so Update never writes over the row of another
\* (create.go, create_all.go).  Create and CreateAll insert a row however often
\* they are called, after an error that left the value with its key too (of an
\* AfterInsert hook, or of a later batch); a value they were never given with a
\* key, as Save never gives it, stands for one row at most.  But the program
\* cannot know after a lost answer, a conflict or DoNothing.
OwnRow ==
  \A v \in Values \ vague :
    /\ RowsOf(v) \subseteq 1..value[v].pk
    /\ value[v].pk \in DOMAIN table => table[value[v].pk].of = v
    /\ v \notin again => RowsOf(v) \subseteq {value[v].pk}
=============================================================================
