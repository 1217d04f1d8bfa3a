--------------------------- MODULE MCCleanupChain ---------------------------
(* CleanupChain for TLC: two Enqueue calls and two cleanup pushes at once. *)
EXTENDS CleanupChain
=============================================================================
