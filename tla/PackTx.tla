------------------------------- MODULE PackTx -------------------------------
(* Transactions of pack (pack/tx.go): DB.Tx runs a function in a transaction, *)
(* or, on a handle that already is one, in a SAVEPOINT of it.  One goroutine  *)
(* calls Tx inside Tx; the functions write, fail, recover and panic as they   *)
(* like.  The database is external: one connection with a stack of            *)
(* savepoints, on Postgres with its habit of refusing every statement after   *)
(* one that failed.                                                           *)
EXTENDS Naturals, Sequences, SequencesExt, FiniteSets, FiniteSetsExt

CONSTANTS
  Rows,                       \* what the functions write
  MaxScopes,                  \* bound: Tx calls per outermost Tx
  MaxDepth,                   \* bound: open scopes
  MaxTxFaults                 \* bound: failed statements and lost connections

VARIABLES
  refuses,                    \* dialect: a failed statement aborts the transaction
  stored,                     \* committed rows
  work,                       \* rows of the open transaction
  saves,                      \* the session's savepoints: name and work at the time
  aborted,                    \* Postgres' "current transaction is aborted"
  lost,                       \* the connection, or the context of the *sql.Tx, is gone
  scopes,                     \* open Tx calls, outermost first: the savepoint's name
                              \*   (0 for the *sql.Tx) and, for the properties, work
                              \*   when it began
  savepointSeq,               \* names given so far in this transaction
  unwinding,                  \* a panic is passing through the open Tx calls
  outcome,                    \* what the last Tx to end returned
  txFaults

vars == <<refuses, stored, work, saves, aborted, lost, scopes, savepointSeq,
          unwinding, outcome, txFaults>>

session == <<work, saves, aborted>>
caller == <<scopes, savepointSeq, unwinding>>

Written == stored \cup work \cup UNION {saves[i].work : i \in DOMAIN saves}
Depth == Len(scopes)
Inner == Last(scopes)
Usable == ~lost /\ ~aborted

Init ==
  /\ refuses \in BOOLEAN
  /\ stored = {} /\ work = {} /\ saves = <<>> /\ aborted = FALSE /\ lost = FALSE
  /\ scopes = <<>> /\ savepointSeq = 0 /\ unwinding = FALSE
  /\ outcome = "none" /\ txFaults = 0

-----------------------------------------------------------------------------
(* The database.                                                              *)

Named(n) == {i \in DOMAIN saves : saves[i].name = n}

\* Of several savepoints of one name the latest is meant.
Latest(n) == Max(Named(n))

\* A statement is refused: on Postgres the transaction is aborted.
Refused == aborted' = (aborted \/ refuses) /\ UNCHANGED <<work, saves>>

Savepoint(n) ==
  /\ saves' = Append(saves, [name |-> n, work |-> work])
  /\ UNCHANGED <<work, aborted>>

\* RELEASE drops the savepoint and those after it.
Release(n) ==
  IF Usable /\ Named(n) # {}
  THEN saves' = SubSeq(saves, 1, Latest(n) - 1) /\ UNCHANGED <<work, aborted>>
  ELSE Refused

\* ROLLBACK TO restores, and keeps the savepoint itself.
RollbackTo(n) ==
  IF ~lost /\ Named(n) # {}
  THEN /\ work' = saves[Latest(n)].work
       /\ saves' = SubSeq(saves, 1, Latest(n))
       /\ aborted' = FALSE
  ELSE Refused

-----------------------------------------------------------------------------
(* DB.Tx                                                                      *)

\* BeginTx on a root handle: a *sql.Tx with a sequence of names of its own.
BeginRoot ==
  /\ Depth = 0
  /\ scopes' = <<[name |-> 0, began |-> {}]>>
  /\ savepointSeq' = 0
  /\ work' = {} /\ saves' = <<>> /\ aborted' = FALSE /\ lost' = FALSE
  /\ UNCHANGED <<refuses, stored, unwinding, outcome, txFaults>>

\* Mutant: every savepoint has the same name.
NextName_fixed == 1

\* The name of the next savepoint: one sequence for the whole transaction.
NextName == savepointSeq + 1

\* BeginTx on a transaction: SAVEPOINT under the next name of the transaction's
\* sequence.  If it fails, Tx returns the error and fn does not run.
BeginNested ==
  /\ Depth \in 1..(MaxDepth - 1) /\ ~unwinding
  /\ savepointSeq < MaxScopes
  /\ savepointSeq' = savepointSeq + 1
  /\ IF Usable
     THEN /\ scopes' = Append(scopes, [name |-> NextName, began |-> work])
          /\ Savepoint(NextName)
     ELSE Refused /\ UNCHANGED scopes
  /\ UNCHANGED <<refuses, stored, lost, unwinding, outcome, txFaults>>

\* Create, Update, ... through any handle of the transaction: they share the
\* connection.
Write(r) ==
  /\ Depth > 0 /\ ~unwinding /\ r \notin Written
  /\ Usable
  /\ work' = work \cup {r}
  /\ UNCHANGED <<refuses, stored, saves, aborted, lost, caller, outcome, txFaults>>

\* A statement that fails; fn may go on as if it had not.
WriteFails ==
  /\ Depth > 0 /\ ~unwinding
  /\ txFaults < MaxTxFaults /\ txFaults' = txFaults + 1
  /\ Refused
  /\ UNCHANGED <<refuses, stored, lost, caller, outcome>>

\* A write through the root handle uses another connection.
WriteOutside(r) ==
  /\ ~unwinding /\ r \notin Written
  /\ stored' = stored \cup {r}
  /\ UNCHANGED <<refuses, session, lost, caller, outcome, txFaults>>

\* The connection breaks or the context is cancelled: database/sql rolls back.
Lose ==
  /\ Depth > 0 /\ ~lost
  /\ txFaults < MaxTxFaults /\ txFaults' = txFaults + 1
  /\ lost' = TRUE
  /\ UNCHANGED <<refuses, stored, session, caller, outcome>>

Pop == scopes' = Front(scopes) /\ UNCHANGED savepointSeq

\* fn returns nil: Commit of a nested scope.  Its error is returned as it is:
\* the savepoint is not rolled back.
ReturnNested ==
  /\ Depth > 1 /\ ~unwinding
  /\ Pop
  /\ Release(Inner.name)
  /\ outcome' = IF Usable /\ Named(Inner.name) # {} THEN "ok" ELSE "error"
  /\ UNCHANGED <<refuses, stored, lost, unwinding, txFaults>>

\* fn returns an error, or panics, which goes on to the fn around it after the
\* Rollback, whose own error is dropped.
FailNested ==
  /\ Depth > 1
  /\ Pop
  /\ RollbackTo(Inner.name)
  /\ outcome' = "error"
  /\ unwinding' \in (IF unwinding THEN {TRUE} ELSE BOOLEAN)
  /\ UNCHANGED <<refuses, stored, lost, txFaults>>

\* The fn around it recovers a panic that came out of a nested Tx.
Recover ==
  /\ Depth > 0 /\ unwinding
  /\ unwinding' = FALSE
  /\ UNCHANGED <<refuses, stored, session, lost, scopes, savepointSeq, outcome, txFaults>>

Ended ==
  /\ scopes' = <<>> /\ work' = {} /\ saves' = <<>>
  /\ aborted' = FALSE /\ lost' = FALSE /\ unwinding' = FALSE
  /\ UNCHANGED <<refuses, savepointSeq>>

\* Commit of the *sql.Tx: an aborted transaction is rolled back and says so; the
\* answer may be lost on the way.
ReturnRoot ==
  /\ Depth = 1 /\ ~unwinding
  /\ \/ /\ Usable
        /\ stored' = stored \cup work /\ outcome' = "ok" /\ UNCHANGED txFaults
     \/ /\ ~Usable
        /\ outcome' = "error" /\ UNCHANGED <<stored, txFaults>>
     \/ /\ Usable /\ txFaults < MaxTxFaults /\ txFaults' = txFaults + 1
        /\ stored' = stored \cup work /\ outcome' = "unknown"
  /\ Ended

FailRoot ==
  /\ Depth = 1
  /\ outcome' = "error"
  /\ Ended
  /\ UNCHANGED <<stored, txFaults>>

Next ==
  \/ BeginRoot \/ BeginNested
  \/ \E r \in Rows : Write(r) \/ WriteOutside(r)
  \/ WriteFails \/ Lose
  \/ ReturnNested \/ FailNested \/ Recover
  \/ ReturnRoot \/ FailRoot

Spec == Init /\ [][Next]_vars

-----------------------------------------------------------------------------
(* Properties.                                                                *)

TypeOK ==
  /\ refuses \in BOOLEAN /\ aborted \in BOOLEAN /\ lost \in BOOLEAN /\ unwinding \in BOOLEAN
  /\ stored \subseteq Rows /\ work \subseteq Rows
  /\ savepointSeq \in 0..MaxScopes
  /\ \A i \in DOMAIN scopes : scopes[i].name \in 0..MaxScopes /\ scopes[i].began \subseteq Rows

\* The rows of each open scope: what was written since it began and before the
\* scope inside it began.
Frames ==
  [i \in DOMAIN scopes |->
     (IF i = Depth THEN work ELSE scopes[i + 1].began) \ scopes[i].began]

Nested == INSTANCE NestedTx WITH frames <- Frames, doomed <- lost \/ aborted

\* Tx inside Tx behaves as nested transactions do, whatever fails, panics or is
\* recovered: a scope that fails takes back exactly what was written in it, a
\* scope that returns nil keeps it, and the outermost Tx stores all or nothing
\* and reports which (tx.go, Tx and BeginTx).
TxNests == Nested!Spec
=============================================================================
