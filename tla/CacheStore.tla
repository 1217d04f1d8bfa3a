----------------------------- MODULE CacheStore -----------------------------
(* What the Store interface of cache/store.go promises, whichever backend is *)
(* behind it: every call takes effect at once, at a moment between the call  *)
(* and its return, by a clock reading taken in between.  An entry counts     *)
(* until it expires; what has expired may go at any time.  The instant of    *)
(* expiry itself the interface leaves open, and the backends do differ.      *)
EXTENDS Integers

CONSTANTS
  Clients,    \* goroutines that call the store
  Counters,   \* keys used with Increment, as the rate limiter does
  Pages,      \* keys used with Read and Write, as Fetch does
  Values,     \* what Write stores
  Period,     \* the ttl of counters and pages, in ticks
  None        \* no entry, no call

VARIABLES
  now,     \* the clock
  store,   \* the entry of each key, or None
  began    \* when the call of each client began, or None

vars == <<now, store, began>>

Keys == Counters \cup Pages

Entry(value, expiresAt) == [value |-> value, expiresAt |-> expiresAt]

\* Expiry 0 stands for never, the code's zero time.
MayCount(entry, t) == entry # None /\ (entry.expiresAt = 0 \/ t <= entry.expiresAt)
MayBeGone(entry, t) == entry = None \/ (entry.expiresAt # 0 /\ entry.expiresAt <= t)

\* What Increment by one may leave at a key: an entry that still counts keeps
\* its expiry, any other is started afresh.
Incremented(old, t) ==
  (IF MayCount(old, t) THEN {Entry(old.value + 1, old.expiresAt)} ELSE {})
  \cup (IF MayBeGone(old, t) THEN {Entry(1, t + Period)} ELSE {})

Init ==
  /\ now = 0
  /\ store = [k \in Keys |-> None]
  /\ began = [c \in Clients |-> None]

Call(c) ==
  /\ began[c] = None
  /\ began' = [began EXCEPT ![c] = now]
  /\ UNCHANGED <<now, store>>

\* The clock readings a call may act by.
Readings(c) == began[c] .. now

Put(k, entry) == store' = [store EXCEPT ![k] = entry]

Increment(c, k) ==
  /\ began[c] # None
  /\ \E t \in Readings(c) : \E entry \in Incremented(store[k], t) : Put(k, entry)
  /\ began' = [began EXCEPT ![c] = None]
  /\ UNCHANGED now

Write(c, k, v) ==
  /\ began[c] # None
  /\ \E expiresAt \in {0} \cup {t + Period : t \in Readings(c)} :
       Put(k, Entry(v, expiresAt))
  /\ began' = [began EXCEPT ![c] = None]
  /\ UNCHANGED now

Delete(c, ks) ==
  /\ began[c] # None
  /\ store' = [k \in Keys |-> IF k \in ks THEN None ELSE store[k]]
  /\ began' = [began EXCEPT ![c] = None]
  /\ UNCHANGED now

\* Read, Exist, and any call that fails before it has an effect.
Return(c) ==
  /\ began[c] # None
  /\ began' = [began EXCEPT ![c] = None]
  /\ UNCHANGED <<now, store>>

\* Expired entries go, any number at once; it may be the last thing a call does.
Evict ==
  /\ \E ks \in SUBSET Keys :
       /\ \A k \in ks : MayBeGone(store[k], now)
       /\ store' = [k \in Keys |-> IF k \in ks THEN None ELSE store[k]]
  /\ \/ UNCHANGED began
     \/ \E c \in Clients : began' = [began EXCEPT ![c] = None]
  /\ UNCHANGED now

Tick ==
  /\ now' = now + 1
  /\ UNCHANGED <<store, began>>

Next ==
  \/ \E c \in Clients :
       \/ Call(c) \/ Return(c)
       \/ \E k \in Counters : Increment(c, k)
       \/ \E k \in Pages, v \in Values : Write(c, k, v)
       \/ \E k \in Keys : Delete(c, {k})
       \/ Delete(c, Keys)
  \/ Evict
  \/ Tick

Spec == Init /\ [][Next]_vars
=============================================================================
