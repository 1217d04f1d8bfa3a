------------------------------ MODULE NestedTx ------------------------------
(* What pack's transactions promise: scopes nest, a scope's writes become     *)
(* part of the scope around it when it ends well and vanish when it does not, *)
(* and the database gains the outermost scope's writes all at once or never.  *)
EXTENDS Naturals, Sequences, SequencesExt

CONSTANT Rows                 \* what can be written, each at most once

VARIABLES
  stored,                     \* the rows the database holds
  frames,                     \* the rows written in each open scope, outermost first
  doomed,                     \* TRUE: nothing written in the open scopes can be stored
                              \*   unless the scope that failed is rolled back
  outcome                     \* what the last scope to end returned

vars == <<stored, frames, doomed, outcome>>

Init ==
  /\ stored \in SUBSET Rows
  /\ frames = <<>>
  /\ doomed = FALSE
  /\ outcome = "none"

Begin ==
  /\ frames' = Append(frames, {})
  /\ ~doomed
  /\ UNCHANGED <<stored, doomed, outcome>>

Write(r) ==
  /\ frames # <<>> /\ ~doomed
  /\ frames' = [frames EXCEPT ![Len(frames)] = @ \cup {r}]
  /\ UNCHANGED <<stored, doomed, outcome>>

\* A write through the root handle, outside every scope.
WriteOutside(r) ==
  /\ stored' = stored \cup {r}
  /\ UNCHANGED <<frames, doomed, outcome>>

\* A statement fails on a database that then refuses every other one, or the
\* connection is lost.
Doom ==
  /\ frames # <<>>
  /\ doomed' = TRUE
  /\ UNCHANGED <<stored, frames, outcome>>

Merged == [Front(frames) EXCEPT ![Len(frames) - 1] = @ \cup Last(frames)]

\* A nested scope returns nil.
EndNested ==
  /\ Len(frames) > 1 /\ ~doomed
  /\ frames' = Merged
  /\ outcome' = "ok"
  /\ UNCHANGED <<stored, doomed>>

\* A nested scope fails and its rows go, with them what doomed the scope.
AbortNested ==
  /\ Len(frames) > 1
  /\ frames' = Front(frames)
  /\ doomed' \in {FALSE, doomed}
  /\ outcome' = "error"
  /\ UNCHANGED stored

\* A nested scope fails and cannot be taken back: its rows share the fate of the
\* doomed scope around it.
FailNested ==
  /\ Len(frames) > 1 /\ doomed
  /\ frames' = Merged
  /\ outcome' = "error"
  /\ UNCHANGED <<stored, doomed>>

EndRoot ==
  /\ Len(frames) = 1
  /\ frames' = <<>> /\ doomed' = FALSE
  /\ \/ ~doomed /\ stored' = stored \cup frames[1] /\ outcome' = "ok"
     \/ stored' = stored /\ outcome' = "error"
     \/ ~doomed /\ stored' = stored \cup frames[1] /\ outcome' = "unknown"

Next ==
  \/ Begin
  \/ \E r \in Rows : Write(r) \/ WriteOutside(r)
  \/ Doom
  \/ EndNested \/ AbortNested \/ FailNested \/ EndRoot

Spec == Init /\ [][Next]_vars
=============================================================================
