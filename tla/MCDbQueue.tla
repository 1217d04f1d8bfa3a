----------------------------- MODULE MCDbQueue -----------------------------
(* Instances of DbQueue for TLC: two processes and two jobs, which share a *)
(* concurrency key (with either claim) or have none.                       *)
EXTENDS DbQueue

\* A batch of two rows, some waiting for a semaphore slot, needs jobs without
\* a key; the limit needs jobs with one.
MCSetups ==
  {[keyed |-> Jobs, rowLocking |-> TRUE],
   [keyed |-> Jobs, rowLocking |-> FALSE],
   [keyed |-> {}, rowLocking |-> FALSE]}
=============================================================================
