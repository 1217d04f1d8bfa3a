---------------------------- MODULE CacheCallers ----------------------------
(* The callers of a cache store, whatever its backend: the rate limiter's     *)
(* middleware, which counts requests with Increment, and other code, which    *)
(* reads, writes and deletes entries.  Window is the account of the rate      *)
(* limiter's decisions that the properties are stated over: for each key the  *)
(* last window a request was counted in, and how many of its requests were    *)
(* let through.                                                               *)
EXTENDS Integers

CONSTANTS
  Clients,    \* goroutines that call the store
  Counters,   \* keys of the rate limiter
  Pages,      \* keys of other callers, read and written
  Values,     \* what Write stores
  Period,     \* the rate limiter's period, the ttl of every entry that has one
  Limit,      \* requests the rate limiter lets through per window
  None,       \* no entry, no call, nobody
  MaxTime,    \* bound on the clock
  MaxCalls    \* bound on the calls of a behaviour

Keys == Counters \cup Pages

Ops == {"inc", "read", "write", "delete", "clear"}

\* Keys each operation is used with: counters are not mixed with Read and
\* Write.  Clear takes no key.
KeysOf(op) ==
  CASE op = "inc" -> Counters
    [] op \in {"read", "write"} -> Pages
    [] op = "clear" -> {None}
    [] OTHER -> Keys

ASSUME CacheAssumption ==
  /\ Period \in Nat \ {0}
  /\ Limit \in Nat
  /\ MaxTime \in Nat
  /\ MaxCalls \in Nat
  /\ Counters \cap Pages = {}

\* None is none of the values it stands beside.
ASSUME NoneAssumption ==
  /\ None \notin Clients
  /\ None \notin Nat
  /\ None \notin [value : Values \cup Nat, expiresAt : Nat]
  /\ None \notin [id : Nat, value : Values \cup Nat, expiresAt : Nat]
  /\ None \notin [op : Ops, key : Keys \cup {None}, at : Nat]

\* Variant: the comparison is off by one.
AdmitsOneMore(count) == count <= Limit + 1

\* The middleware's decision: let through, or answered 429.
Admits(count) == count <= Limit

NoWindow == [expiresAt |-> 0, admitted |-> 0]

\* The account after a request was answered at time t with this count and
\* expiry.  A window that is still open is the one the request belongs to.
Account(window, count, expiresAt, t) ==
  LET open == t < window.expiresAt
  IN [expiresAt |-> IF open THEN window.expiresAt ELSE expiresAt,
      admitted |-> (IF open THEN window.admitted ELSE 0)
                   + (IF Admits(count) THEN 1 ELSE 0)]
=============================================================================
