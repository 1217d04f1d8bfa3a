----------------------------- MODULE CacheProofs -----------------------------
(* For any number of clients, keys and calls: the backend in memory implements *)
(* the contract of cache.Store, and the rate limiter over it keeps its limit.  *)
(* The backend in a database does both as long as no eviction has taken a row  *)
(* that still counted, whatever statements fail and however calls interleave.  *)
(* MCCache holds both backends, the one in memory as its instance Mem.         *)
EXTENDS MCCache, TLAPS

------------------------------------------------------------------------------
(* The backend in memory.                                                     *)

\* What the constants satisfy, in the instance's words.
LEMMA MemAssumptions ==
  /\ Period \in Nat \ {0} /\ Limit \in Nat /\ MaxCalls \in Nat
  /\ Counters \cap Pages = {}
  /\ None \notin Nat
  /\ None \notin [value : Values \cup Nat, expiresAt : Nat]
  /\ None \notin [op : Mem!Ops, key : Mem!Keys \cup {None}, at : Nat]
BY CacheAssumption, NoneAssumption DEF Mem!Ops, Mem!Keys, Ops, Keys

\* A step leaves every type as it was.
LEMMA TypeInductive == Mem!TypeOK /\ [Mem!Next]_(Mem!vars) => Mem!TypeOK'
<1> SUFFICES ASSUME Mem!TypeOK, [Mem!Next]_(Mem!vars) PROVE Mem!TypeOK'
    OBVIOUS
<1> USE MemAssumptions
<1>1. ASSUME NEW c \in Clients, NEW op \in Mem!Ops, NEW k \in Mem!KeysOf(op), Mem!Call(c, op, k)
      PROVE  Mem!TypeOK'
  BY <1>1 DEF Mem!TypeOK, Mem!Call, Mem!EntryType, Mem!KeysOf, Mem!Keys, Mem!Ops
<1>2. ASSUME NEW c \in Clients, Mem!Increment(c) PROVE Mem!TypeOK'
  <2> DEFINE k == calls[c].key
             next == IF Mem!Fresh(k) THEN Mem!Entry(1, now + Period)
                     ELSE Mem!Entry(entries[k].value + 1, entries[k].expiresAt)
  <2>1. k \in Counters /\ k \in Mem!Keys
    BY <1>2 DEF Mem!Increment, Mem!Calls, Mem!TypeOK, Mem!KeysOf, Mem!Keys
  <2>2. next \in [value : Nat, expiresAt : Nat]
    BY <2>1 DEF Mem!TypeOK, Mem!EntryType, Mem!Entry, Mem!Fresh
  <2>3. /\ entries' = [entries EXCEPT ![k] = next]
        /\ window' = [window EXCEPT ![k] = Mem!Account(window[k], next.value, next.expiresAt, now)]
        /\ calls' = [calls EXCEPT ![c] = None]
        /\ UNCHANGED <<now, started, sweepAt, running>>
    BY <1>2 DEF Mem!Increment, Mem!Return
  <2>4. Mem!Account(window[k], next.value, next.expiresAt, now) \in [expiresAt : Nat, admitted : Nat]
    <3>1. window[k] \in [expiresAt : Nat, admitted : Nat]
      BY <2>1 DEF Mem!TypeOK
    <3> HIDE DEF next
    <3> QED BY <2>2, <3>1 DEF Mem!Account
  <2> HIDE DEF next, k
  <2>5. \A x \in Mem!Keys : entries'[x] = None \/ Mem!EntryType(x)'
    BY <2>1, <2>2, <2>3 DEF Mem!TypeOK, Mem!EntryType
  <2>6. window' \in [Counters -> [expiresAt : Nat, admitted : Nat]]
    BY <2>1, <2>3, <2>4 DEF Mem!TypeOK
  <2> QED BY <2>3, <2>5, <2>6 DEF Mem!TypeOK
<1>3. ASSUME NEW c \in Clients, Mem!Read(c) PROVE Mem!TypeOK'
  BY <1>3 DEF Mem!TypeOK, Mem!Read, Mem!Return, Mem!EntryType
<1>4. ASSUME NEW c \in Clients, Mem!Write(c) PROVE Mem!TypeOK'
  <2>1. calls[c].key \in Pages /\ calls[c].at \in Nat /\ calls[c].key \notin Counters
    BY <1>4 DEF Mem!Write, Mem!Calls, Mem!TypeOK, Mem!KeysOf
  <2>2. PICK v \in Values, e \in {0} \cup {t + Period : t \in calls[c].at .. now} :
          entries' = [entries EXCEPT ![calls[c].key] = Mem!Entry(v, e)]
    BY <1>4 DEF Mem!Write
  <2>3. e \in Nat
    BY <2>1, <2>2 DEF Mem!TypeOK
  <2>4. Mem!Entry(v, e) \in [value : Values \cup Nat, expiresAt : Nat]
    BY <2>3 DEF Mem!Entry
  <2>5. \A x \in Mem!Keys : entries'[x] = None \/ Mem!EntryType(x)'
    BY <2>1, <2>2, <2>4 DEF Mem!TypeOK, Mem!EntryType, Mem!Keys
  <2> QED BY <1>4, <2>2, <2>5 DEF Mem!TypeOK, Mem!Write, Mem!Return
<1>5. ASSUME NEW c \in Clients, NEW ks, Mem!Remove(c, ks) PROVE Mem!TypeOK'
  BY <1>5 DEF Mem!TypeOK, Mem!Remove, Mem!Return, Mem!EntryType, Mem!NoWindow, Mem!Keys
<1>6. CASE Mem!StartSweep
  BY <1>6 DEF Mem!TypeOK, Mem!StartSweep, Mem!EntryType
<1>7. CASE Mem!Sweep
  BY <1>7 DEF Mem!TypeOK, Mem!Sweep, Mem!EntryType
<1>8. CASE Mem!Cancel
  BY <1>8 DEF Mem!TypeOK, Mem!Cancel, Mem!EntryType
<1>9. CASE Mem!Tick
  BY <1>9 DEF Mem!TypeOK, Mem!Tick, Mem!EntryType
<1>10. CASE UNCHANGED Mem!vars
  BY <1>10 DEF Mem!TypeOK, Mem!vars, Mem!EntryType
<1> QED
  BY <1>1, <1>2, <1>3, <1>4, <1>5, <1>6, <1>7, <1>8, <1>9, <1>10
     DEF Mem!Next, Mem!Answer, Mem!Delete, Mem!Clear

LEMMA TypeInitial == Mem!Init => Mem!TypeOK
BY MemAssumptions DEF Mem!Init, Mem!TypeOK, Mem!NoWindow

\* The types of the backend's state and of the calls under way.
THEOREM TypeCorrect == Mem!Spec => []Mem!TypeOK
BY TypeInitial, TypeInductive, PTL DEF Mem!Spec

------------------------------------------------------------------------------
(* The rate limit.  A decision is taken on the count of the entry, while the  *)
(* limit is about the requests let through: WindowIsEntry ties the two.       *)

RateInv == Mem!TypeOK /\ Mem!WindowIsEntry /\ Mem!RateLimitEnforced

\* What a step that counts no request and removes no live counter leaves alone.
LEMMA RateKept ==
  ASSUME Mem!TypeOK, Mem!WindowIsEntry, Mem!RateLimitEnforced, window' = window,
         now' \in Nat, now <= now',
         \A k \in Counters :
           \/ entries'[k] = entries[k]
           \/ entries[k] # None /\ Mem!expired(entries[k], now)
           \/ entries[k] = None
  PROVE  Mem!WindowIsEntry' /\ Mem!RateLimitEnforced'
<1>1. Mem!RateLimitEnforced'
  BY DEF Mem!RateLimitEnforced
<1>2. ASSUME NEW k \in Counters, now' < window'[k].expiresAt
      PROVE  /\ entries'[k] # None
             /\ entries'[k].expiresAt = window'[k].expiresAt
             /\ window'[k].admitted <= entries'[k].value
  <2>1. window[k] \in [expiresAt : Nat, admitted : Nat] /\ now \in Nat
    BY DEF Mem!TypeOK
  <2>2. now < window[k].expiresAt
    BY <1>2, <2>1
  <2>3. /\ entries[k] # None
        /\ entries[k].expiresAt = window[k].expiresAt
        /\ window[k].admitted <= entries[k].value
    BY <2>2 DEF Mem!WindowIsEntry
  <2>4. ~Mem!expired(entries[k], now)
    BY <2>1, <2>2, <2>3 DEF Mem!expired
  <2> QED BY <2>3, <2>4
<1> QED BY <1>1, <1>2 DEF Mem!WindowIsEntry

LEMMA RateInductive == RateInv /\ [Mem!Next]_(Mem!vars) => RateInv'
<1> SUFFICES ASSUME RateInv, [Mem!Next]_(Mem!vars) PROVE Mem!WindowIsEntry' /\ Mem!RateLimitEnforced'
    BY TypeInductive DEF RateInv
<1> USE MemAssumptions
<1>0. Mem!TypeOK /\ Mem!WindowIsEntry /\ Mem!RateLimitEnforced /\ now \in Nat /\ now <= now
  BY DEF RateInv, Mem!TypeOK
<1>1. ASSUME NEW c \in Clients, NEW op \in Mem!Ops, NEW k \in Mem!KeysOf(op), Mem!Call(c, op, k)
      PROVE  Mem!WindowIsEntry' /\ Mem!RateLimitEnforced'
  BY <1>0, <1>1, RateKept DEF Mem!Call
<1>2. ASSUME NEW c \in Clients, Mem!Increment(c)
      PROVE  Mem!WindowIsEntry' /\ Mem!RateLimitEnforced'
  <2> DEFINE k == calls[c].key
             next == IF Mem!Fresh(k) THEN Mem!Entry(1, now + Period)
                     ELSE Mem!Entry(entries[k].value + 1, entries[k].expiresAt)
             after == Mem!Account(window[k], next.value, next.expiresAt, now)
  <2>1. k \in Counters /\ k \in Mem!Keys
    BY <1>0, <1>2 DEF Mem!Increment, Mem!Calls, Mem!TypeOK, Mem!KeysOf, Mem!Keys
  <2>2. /\ entries' = [entries EXCEPT ![k] = next]
        /\ window' = [window EXCEPT ![k] = after]
        /\ now' = now
    BY <1>2 DEF Mem!Increment, Mem!Return
  <2>3. /\ window[k] \in [expiresAt : Nat, admitted : Nat]
        /\ window[k].admitted <= Limit
        /\ now < window[k].expiresAt =>
             /\ entries[k] # None
             /\ entries[k].expiresAt = window[k].expiresAt
             /\ window[k].admitted <= entries[k].value
    BY <1>0, <2>1 DEF Mem!TypeOK, Mem!WindowIsEntry, Mem!RateLimitEnforced
  <2>4. entries[k] = None \/ (entries[k].value \in Nat /\ entries[k].expiresAt \in Nat)
    BY <1>0, <2>1 DEF Mem!TypeOK, Mem!EntryType
  <2>5. /\ next.value \in Nat /\ next.expiresAt \in Nat /\ next.value >= 1
        /\ next \in [value : Nat, expiresAt : Nat]
    BY <1>0, <2>4 DEF Mem!Fresh, Mem!Entry
  <2>6. CASE now < window[k].expiresAt
    <3>1. ~Mem!Fresh(k)
      BY <1>0, <2>3, <2>6 DEF Mem!Fresh, Mem!expired
    <3>2. next.value = entries[k].value + 1 /\ next.expiresAt = window[k].expiresAt
      BY <2>3, <2>6, <3>1 DEF Mem!Entry
    <3>3. /\ after.expiresAt = window[k].expiresAt
          /\ after.admitted = window[k].admitted + (IF next.value <= Limit THEN 1 ELSE 0)
      BY <2>6 DEF Mem!Account, Mem!Admits
    <3>4. /\ after.expiresAt = next.expiresAt
          /\ after.admitted <= next.value
          /\ after.admitted <= Limit
      <4> HIDE DEF next, after
      <4> QED BY <2>3, <2>4, <2>6, <3>2, <3>3
    <3> HIDE DEF next, after, k
    <3>5. next # None
      BY <2>5
    <3> QED BY <1>0, <2>1, <2>2, <3>4, <3>5 DEF Mem!WindowIsEntry, Mem!RateLimitEnforced, Mem!TypeOK
  <2>7. CASE ~(now < window[k].expiresAt)
    <3>1. /\ after.expiresAt = next.expiresAt
          /\ after.admitted = 0 + (IF next.value <= Limit THEN 1 ELSE 0)
      BY <2>7 DEF Mem!Account, Mem!Admits
    <3>2. after.admitted <= next.value /\ after.admitted <= Limit
      <4> HIDE DEF next, after
      <4> QED BY <2>5, <3>1
    <3> HIDE DEF next, after, k
    <3>3. next # None
      BY <2>5
    <3> QED BY <1>0, <2>1, <2>2, <3>1, <3>2, <3>3 DEF Mem!WindowIsEntry, Mem!RateLimitEnforced, Mem!TypeOK
  <2> QED BY <2>6, <2>7
<1>3. ASSUME NEW c \in Clients, Mem!Read(c) PROVE Mem!WindowIsEntry' /\ Mem!RateLimitEnforced'
  <2>1. \A k \in Counters : entries'[k] = entries[k]
    BY <1>0, <1>3 DEF Mem!Read, Mem!Calls, Mem!TypeOK, Mem!KeysOf
  <2> QED BY <1>0, <1>3, <2>1, RateKept DEF Mem!Read, Mem!Return
<1>4. ASSUME NEW c \in Clients, Mem!Write(c) PROVE Mem!WindowIsEntry' /\ Mem!RateLimitEnforced'
  <2>1. \A k \in Counters : entries'[k] = entries[k]
    BY <1>0, <1>4 DEF Mem!Write, Mem!Calls, Mem!TypeOK, Mem!KeysOf
  <2> QED BY <1>0, <1>4, <2>1, RateKept DEF Mem!Write, Mem!Return
<1>5. ASSUME NEW c \in Clients, NEW ks, Mem!Remove(c, ks)
      PROVE  Mem!WindowIsEntry' /\ Mem!RateLimitEnforced'
  BY <1>0, <1>5 DEF Mem!Remove, Mem!Return, Mem!WindowIsEntry, Mem!RateLimitEnforced, Mem!NoWindow, Mem!Keys
<1>6. CASE Mem!StartSweep
  BY <1>0, <1>6, RateKept DEF Mem!StartSweep
<1>7. CASE Mem!Sweep
  <2>1. \A k \in Counters : entries'[k] = entries[k] \/ (entries[k] # None /\ Mem!expired(entries[k], now))
    BY <1>0, <1>7 DEF Mem!Sweep, Mem!TypeOK, Mem!EntryType, Mem!expired, Mem!Keys
  <2> QED BY <1>0, <1>7, <2>1, RateKept DEF Mem!Sweep
<1>8. CASE Mem!Cancel
  BY <1>0, <1>8, RateKept DEF Mem!Cancel
<1>9. CASE Mem!Tick
  BY <1>0, <1>9, RateKept DEF Mem!Tick
<1>10. CASE UNCHANGED Mem!vars
  BY <1>0, <1>10, RateKept DEF Mem!vars
<1> QED
  BY <1>1, <1>2, <1>3, <1>4, <1>5, <1>6, <1>7, <1>8, <1>9, <1>10
     DEF Mem!Next, Mem!Answer, Mem!Delete, Mem!Clear

\* The rate limiter over the backend in memory lets at most Limit requests
\* through in one window, whatever other calls and sweeps run beside it.
THEOREM MemoryRateLimit == Mem!Spec => []Mem!RateLimitEnforced
<1>1. Mem!Init => RateInv
  BY MemAssumptions, TypeInitial
     DEF Mem!Init, RateInv, Mem!WindowIsEntry, Mem!RateLimitEnforced, Mem!NoWindow
<1>2. RateInv => Mem!RateLimitEnforced
  BY DEF RateInv
<1> QED BY <1>1, <1>2, RateInductive, PTL DEF Mem!Spec

------------------------------------------------------------------------------
(* The contract.  Each answer maps to one step of CacheStore, a sweep to the  *)
(* eviction of what had expired when it read the clock.                       *)

LEMMA StoreStep == Mem!TypeOK /\ [Mem!Next]_(Mem!vars) => [Mem!Store!Next]_(Mem!Store!vars)
<1> SUFFICES ASSUME Mem!TypeOK, [Mem!Next]_(Mem!vars) PROVE [Mem!Store!Next]_(Mem!Store!vars)
    OBVIOUS
<1> USE MemAssumptions
<1> DEFINE began == [c \in Clients |-> IF calls[c] = None THEN None ELSE calls[c].at]
<1>0. \A c \in Clients : calls[c] # None =>
         began[c] # None /\ began[c] = calls[c].at /\ began[c] \in 0 .. now /\ now \in Nat
  BY DEF Mem!TypeOK
<1>1. ASSUME NEW c \in Clients, NEW op \in Mem!Ops, NEW k \in Mem!KeysOf(op), Mem!Call(c, op, k)
      PROVE  Mem!Store!Call(c)
  <2>1. [op |-> op, key |-> k, at |-> now] # None
    <3>1. k \in Mem!Keys \cup {None}
      BY DEF Mem!KeysOf, Mem!Keys
    <3> QED BY <3>1 DEF Mem!TypeOK
  <2>2. began' = [began EXCEPT ![c] = now]
    BY <1>1, <2>1 DEF Mem!Call, Mem!TypeOK
  <2> QED BY <1>1, <2>2 DEF Mem!Call, Mem!Store!Call
<1>2. ASSUME NEW c \in Clients, calls[c] # None, Mem!Return(c)
      PROVE  began' = [began EXCEPT ![c] = None] /\ now' = now
  BY <1>2 DEF Mem!Return, Mem!TypeOK
<1>3. ASSUME NEW c \in Clients, Mem!Increment(c)
      PROVE  \E k \in Counters : Mem!Store!Increment(c, k)
  <2>1. PICK k \in Counters : k = calls[c].key
    BY <1>3 DEF Mem!Increment, Mem!Calls, Mem!TypeOK, Mem!KeysOf
  <2> DEFINE next == IF Mem!Fresh(k) THEN Mem!Entry(1, now + Period)
                     ELSE Mem!Entry(entries[k].value + 1, entries[k].expiresAt)
  <2>2. entries' = [entries EXCEPT ![k] = next] /\ Mem!Return(c) /\ calls[c] # None
    BY <1>3, <2>1 DEF Mem!Increment, Mem!Calls
  <2>3. next \in Mem!Store!Incremented(entries[k], now)
    BY <2>1 DEF Mem!Store!Incremented, Mem!Store!MayCount, Mem!Store!MayBeGone, Mem!Store!Entry,
                Mem!Entry, Mem!Fresh, Mem!expired, Mem!TypeOK, Mem!EntryType, Mem!Keys
  <2>4. now \in began[c] .. now
    BY <1>0, <2>2
  <2> HIDE DEF next
  <2>5. Mem!Store!Increment(c, k)
    BY <1>0, <1>2, <2>2, <2>3, <2>4 DEF Mem!Store!Increment, Mem!Store!Readings, Mem!Store!Put
  <2> QED BY <2>5
<1>4. ASSUME NEW c \in Clients, Mem!Read(c)
      PROVE  Mem!Store!Return(c) \/ Mem!Store!Evict
  <2>1. calls[c] # None /\ calls[c].key \in Mem!Keys /\ Mem!Return(c)
    BY <1>4 DEF Mem!Read, Mem!Calls, Mem!TypeOK, Mem!KeysOf, Mem!Keys
  <2>2. CASE Mem!Fresh(calls[c].key)
    <3>1. Mem!Store!MayBeGone(entries[calls[c].key], now)
      BY <2>1, <2>2 DEF Mem!Fresh, Mem!expired, Mem!Store!MayBeGone, Mem!TypeOK, Mem!EntryType
    <3>2. entries' = [k \in Mem!Store!Keys |-> IF k \in {calls[c].key} THEN None ELSE entries[k]]
      BY <1>4, <2>1, <2>2 DEF Mem!Read, Mem!TypeOK, Mem!Store!Keys, Mem!Keys
    <3>3. {calls[c].key} \in SUBSET Mem!Store!Keys
      BY <2>1 DEF Mem!Store!Keys, Mem!Keys
    <3> QED BY <1>2, <2>1, <3>1, <3>2, <3>3 DEF Mem!Store!Evict
  <2>3. CASE ~Mem!Fresh(calls[c].key)
    <3>1. entries' = entries
      BY <1>4, <2>3 DEF Mem!Read
    <3> QED BY <1>0, <1>2, <2>1, <3>1 DEF Mem!Store!Return
  <2> QED BY <2>2, <2>3
<1>5. ASSUME NEW c \in Clients, Mem!Write(c)
      PROVE  \E k \in Pages, v \in Values : Mem!Store!Write(c, k, v)
  <2>1. calls[c] # None /\ calls[c].key \in Pages /\ Mem!Return(c)
    BY <1>5 DEF Mem!Write, Mem!Calls, Mem!TypeOK, Mem!KeysOf
  <2>2. PICK v \in Values, e \in {0} \cup {t + Period : t \in calls[c].at .. now} :
          entries' = [entries EXCEPT ![calls[c].key] = Mem!Entry(v, e)]
    BY <1>5 DEF Mem!Write
  <2>3. Mem!Store!Write(c, calls[c].key, v)
    BY <1>0, <1>2, <2>1, <2>2 DEF Mem!Store!Write, Mem!Store!Readings, Mem!Store!Put, Mem!Store!Entry, Mem!Entry
  <2> QED BY <2>1, <2>3
<1>6. ASSUME NEW c \in Clients, NEW ks, calls[c] # None, Mem!Remove(c, ks)
      PROVE  Mem!Store!Delete(c, ks)
  BY <1>0, <1>2, <1>6 DEF Mem!Remove, Mem!Store!Delete, Mem!Store!Keys, Mem!Keys
<1>7. ASSUME NEW c \in Clients, Mem!Delete(c) PROVE Mem!Store!Next
  <2>1. calls[c] # None /\ calls[c].key \in Mem!Keys
    BY <1>7 DEF Mem!Delete, Mem!Calls, Mem!TypeOK, Mem!KeysOf, Mem!Keys
  <2> QED BY <1>6, <1>7, <2>1 DEF Mem!Delete, Mem!Store!Next, Mem!Store!Keys, Mem!Keys
<1>8. ASSUME NEW c \in Clients, Mem!Clear(c) PROVE Mem!Store!Next
  BY <1>6, <1>8 DEF Mem!Clear, Mem!Calls, Mem!Store!Next, Mem!Store!Keys, Mem!Keys
<1>9. CASE Mem!Sweep
  <2> DEFINE ks == {k \in Mem!Keys : entries[k] # None /\ Mem!expired(entries[k], sweepAt)}
  <2>1. \A k \in ks : Mem!Store!MayBeGone(entries[k], now)
    BY <1>9 DEF Mem!Sweep, Mem!Store!MayBeGone, Mem!expired, Mem!TypeOK, Mem!EntryType
  <2>2. entries' = [k \in Mem!Store!Keys |-> IF k \in ks THEN None ELSE entries[k]]
    BY <1>9 DEF Mem!Sweep, Mem!Store!Keys, Mem!Keys
  <2>3. ks \in SUBSET Mem!Store!Keys
    BY DEF Mem!Store!Keys, Mem!Keys
  <2>4. began' = began /\ now' = now
    BY <1>9 DEF Mem!Sweep
  <2> HIDE DEF ks
  <2> QED BY <2>1, <2>2, <2>3, <2>4 DEF Mem!Store!Evict, Mem!Store!Next
<1>10. CASE Mem!Tick
  BY <1>10 DEF Mem!Tick, Mem!Store!Tick, Mem!Store!Next
<1>11. ASSUME UNCHANGED <<now, entries, calls>> PROVE UNCHANGED Mem!Store!vars
  BY <1>11 DEF Mem!Store!vars
<1>12. CASE Mem!StartSweep \/ Mem!Cancel \/ UNCHANGED Mem!vars
  BY <1>11, <1>12 DEF Mem!StartSweep, Mem!Cancel, Mem!vars
<1> QED
  BY <1>1, <1>3, <1>4, <1>5, <1>7, <1>8, <1>9, <1>10, <1>12
     DEF Mem!Next, Mem!Answer, Mem!Store!Next

\* The backend in memory implements the contract of cache.Store for the entries
\* (the values Read returns are no part of it): each call takes effect at once,
\* Increment keeps the expiry of an entry that still counts, and nothing but an
\* expired entry goes by itself.
THEOREM MemoryImplementsContract == Mem!Spec => ImplementsStore
<1>1. Mem!Init => Mem!Store!Init
  BY DEF Mem!Init, Mem!Store!Init, Mem!Store!Keys, Mem!Keys
<1> QED BY <1>1, TypeCorrect, StoreStep, PTL DEF Mem!Spec, ImplementsStore, Mem!ImplementsStore, Mem!Store!Spec

------------------------------------------------------------------------------
(* The backend in a database.                                                 *)

RowType == [id : Nat, value : Values \cup Nat, expiresAt : Nat]

CallType ==
  [pc : Pcs, key : Keys \cup {None}, at : Nat, clock : Nat, attempts : Nat,
   row : RowType \cup {None}]

RowTypes ==
  /\ now \in Nat
  /\ nextId \in Nat
  /\ table \in [Keys -> RowType \cup {None}]
  /\ \A k \in Counters : table[k] # None => table[k].value \in Nat
  /\ lock \in [Keys -> Clients \cup {None}]
  /\ window \in [Counters -> [expiresAt : Nat, admitted : Nat]]

\* What is known of a call: which keys it is for, and that it acts by a clock
\* reading taken since it began.
CallKnown(rec, t) ==
  /\ rec.pc \in {"begin", "select", "insert", "update"} => rec.key \in Counters
  /\ rec.pc \in {"read", "judge", "evict", "write"} => rec.key \in Pages
  /\ rec.pc = "delete" => rec.key \in Keys
  /\ rec.at <= t
  /\ rec.clock <= t
  /\ rec.pc \in {"select", "insert", "update", "write"} => rec.at <= rec.clock

CallsKnown ==
  /\ call \in [Clients -> CallType]
  /\ \A c \in Clients : CallKnown(call[c], now)

\* A transaction about to update holds the lock of its row, which is there.
RowHeld ==
  \A c \in Clients :
    At(c, "update") => lock[call[c].key] = c /\ table[call[c].key] # None

\* While a window is open its row is there, ends when the window does and has
\* counted every request that was let through.
Tallied(k) ==
  /\ window[k].admitted <= Limit
  /\ now < window[k].expiresAt =>
       /\ table[k] # None
       /\ table[k].expiresAt = window[k].expiresAt
       /\ window[k].admitted <= table[k].value

LimitKept == \A k \in Counters : k \in raced \/ Tallied(k)

StatementInv == RowTypes /\ CallsKnown /\ RowHeld

\* A client's call moves on, and the others stay where they were.
LEMMA CallMoves ==
  ASSUME CallsKnown, now \in Nat, NEW c \in Clients, NEW rec \in CallType,
         CallKnown(rec, now), call' = [call EXCEPT ![c] = rec], now' = now
  PROVE  /\ CallsKnown'
         /\ call'[c] = rec
         /\ \A d \in Clients \ {c} : call'[d] = call[d]
<1>1. call' \in [Clients -> CallType] /\ call'[c] = rec /\ \A d \in Clients \ {c} : call'[d] = call[d]
  BY DEF CallsKnown
<1>2. \A d \in Clients : CallKnown(call'[d], now)
  BY <1>1 DEF CallsKnown
<1> QED BY <1>1, <1>2 DEF CallsKnown, CallKnown

\* What others hold stays as it is while one call moves on, by a statement that
\* deletes no row that is locked.
LEMMA HeldKept ==
  ASSUME RowTypes, CallsKnown, RowHeld, NEW c \in Clients,
         At(c, "update")' => lock'[call'[c].key] = c /\ table'[call'[c].key] # None,
         \A d \in Clients \ {c} : call'[d] = call[d],
         \A k \in Keys : lock'[k] = lock[k] \/ lock[k] \in {c, None},
         \A k \in Keys : table[k] # None /\ lock[k] # None => table'[k] # None
  PROVE  RowHeld'
<1> SUFFICES ASSUME NEW d \in Clients, At(d, "update")', d # c
             PROVE  lock'[call'[d].key] = d /\ table'[call'[d].key] # None
    BY DEF RowHeld
<1>1. call'[d] = call[d] /\ At(d, "update")
  BY DEF At
<1>2. call[d].key \in Keys
  BY <1>1 DEF CallsKnown, CallKnown, At, Keys
<1>3. lock[call[d].key] = d /\ table[call[d].key] # None
  BY <1>1 DEF RowHeld
<1>4. d # None
  BY NoneAssumption
<1> QED BY <1>1, <1>2, <1>3, <1>4

\* A statement that deletes rows waits for the transactions that hold them.
LEMMA DeletedUnlocked ==
  ASSUME NEW ks \in SUBSET Keys, Unlocked(ks), DeleteRows(ks), RowTypes
  PROVE  /\ table' \in [Keys -> RowType \cup {None}]
         /\ \A k \in Counters : table'[k] # None => table'[k].value \in Nat
         /\ \A k \in Keys : table[k] # None /\ lock[k] # None => table'[k] # None
         /\ \A k \in Keys : table'[k] = IF k \in ks THEN None ELSE table[k]
<1>1. \A k \in ks : lock[k] = None
  BY DEF Unlocked, Keys
<1>2. table' = [k \in Keys |-> IF k \in ks THEN None ELSE table[k]]
  BY DEF DeleteRows, Keys
<1> QED BY <1>1, <1>2 DEF RowTypes, Keys

\* A call that is over.
LEMMA IdleCall == Idle \in CallType /\ (now \in Nat => CallKnown(Idle, now))
BY DEF Idle, CallType, CallKnown, Pcs

\* The account of a request is an account.
LEMMA AccountType ==
  ASSUME NEW w \in [expiresAt : Nat, admitted : Nat], NEW count \in Nat, NEW e \in Nat, NEW t \in Nat
  PROVE  Account(w, count, e, t) \in [expiresAt : Nat, admitted : Nat]
BY DEF Account

\* The end of a transaction that has written its row.
LEMMA AnswerStep ==
  ASSUME StatementInv, NEW c \in Clients, call[c].key \in Counters,
         NEW count \in Nat, NEW e \in Nat, NEW row \in RowType,
         row.value = count, row.expiresAt = e,
         table' = [table EXCEPT ![call[c].key] = row],
         Answer(c, count, e), nextId' \in Nat, now' = now
  PROVE  StatementInv'
<1> USE DEF StatementInv
<1>0. now \in Nat
  BY DEF RowTypes
<1>1. call' = [call EXCEPT ![c] = Idle]
  BY DEF Answer, Return
<1>2. /\ CallsKnown' /\ call'[c] = Idle
      /\ \A d \in Clients \ {c} : call'[d] = call[d]
  BY <1>0, <1>1, IdleCall, CallMoves
<1>3. lock' = [k \in Keys |-> IF lock[k] = c THEN None ELSE lock[k]]
  BY DEF Answer, Unlock, Keys
<1>4. row # None /\ table' \in [Keys -> RowType \cup {None}]
      /\ \A k \in Keys : table[k] # None => table'[k] # None
  BY NoneAssumption DEF RowTypes, RowType, Keys
<1>5. window' \in [Counters -> [expiresAt : Nat, admitted : Nat]]
  <2>1. \/ window' = window
        \/ window' = [window EXCEPT ![call[c].key] = Account(window[call[c].key], count, e, now)]
    BY DEF Answer
  <2>2. Account(window[call[c].key], count, e, now) \in [expiresAt : Nat, admitted : Nat]
    BY <1>0, AccountType DEF RowTypes
  <2> QED BY <2>1, <2>2 DEF RowTypes
<1>6. RowTypes'
  BY <1>0, <1>3, <1>4, <1>5 DEF RowTypes, Keys
<1>7. ~At(c, "update")'
  BY <1>2 DEF At, Idle
<1>8. RowHeld'
  BY <1>2, <1>3, <1>4, <1>7, HeldKept
<1> QED BY <1>2, <1>6, <1>8

\* A call moves on and the rows stay as they are.  It may give up its locks.
LEMMA MoveStep ==
  ASSUME StatementInv, NEW c \in Clients, NEW rec \in CallType, CallKnown(rec, now),
         rec.pc # "update", call' = [call EXCEPT ![c] = rec],
         UNCHANGED <<now, table, nextId, window>>,
         UNCHANGED lock \/ Unlock(c)
  PROVE  StatementInv'
<1> USE DEF StatementInv
<1>1. /\ CallsKnown' /\ call'[c] = rec
      /\ \A d \in Clients \ {c} : call'[d] = call[d]
  BY CallMoves DEF RowTypes
<1>2. lock' = lock \/ lock' = [k \in Keys |-> IF lock[k] = c THEN None ELSE lock[k]]
  BY DEF Unlock, Keys
<1>3. RowTypes'
  BY <1>2 DEF RowTypes, Keys
<1>4. RowHeld'
  BY <1>1, <1>2, HeldKept DEF At
<1> QED BY <1>1, <1>3, <1>4

\* The record of a call that begins again.
LEMMA AgainType ==
  ASSUME NEW old \in CallType
  PROVE  LET new == [old EXCEPT !.pc = "begin", !.attempts = @ + 1, !.clock = 0]
         IN /\ new \in CallType /\ new.pc = "begin" /\ new.at = old.at
            /\ new.clock = 0 /\ new.key = old.key
<1>1. "begin" \in Pcs
  BY DEF Pcs
<1>2. [old EXCEPT !.pc = "begin"] \in CallType
  BY <1>1 DEF CallType
<1>3. old.attempts + 1 \in Nat
  BY DEF CallType
<1> QED BY <1>1, <1>2, <1>3 DEF CallType

\* A transaction that is rolled back: the call begins again, or is over.
LEMMA RetryCall ==
  ASSUME StatementInv, NEW c \in Clients, Retry(c),
         call[c].pc \in {"begin", "select", "insert", "update"}
  PROVE  \E rec \in CallType :
           /\ call' = [call EXCEPT ![c] = rec]
           /\ CallKnown(rec, now)
           /\ \/ rec = Idle
              \/ rec.pc = "begin" /\ rec.at = call[c].at
<1> DEFINE again == [call[c] EXCEPT !.pc = "begin", !.attempts = @ + 1, !.clock = 0]
           rec == IF call[c].attempts + 1 < MaxAttempts THEN again ELSE Idle
<1>1. call' = [call EXCEPT ![c] = rec]
  BY DEF Retry
<1>2. call[c] \in CallType /\ CallKnown(call[c], now) /\ now \in Nat
  BY DEF StatementInv, RowTypes, CallsKnown
<1>3. again \in CallType /\ again.pc = "begin" /\ again.at = call[c].at
      /\ again.clock = 0 /\ again.key = call[c].key
  BY <1>2, AgainType
<1>4. CallKnown(again, now)
  BY <1>2, <1>3 DEF CallKnown, CallType
<1> HIDE DEF again
<1>5. rec \in CallType /\ CallKnown(rec, now) /\ (rec = Idle \/ rec = again)
  BY <1>2, <1>3, <1>4, IdleCall
<1> HIDE DEF rec
<1> QED BY <1>1, <1>3, <1>5

\* Rows are deleted, of which none is locked.
LEMMA DeleteStep ==
  ASSUME StatementInv, NEW ks \in SUBSET Keys, Unlocked(ks), DeleteRows(ks),
         UNCHANGED <<now, nextId, lock>>,
         window' \in [Counters -> [expiresAt : Nat, admitted : Nat]],
         UNCHANGED call \/ \E c \in Clients : Return(c)
  PROVE  StatementInv'
<1> USE DEF StatementInv
<1>1. /\ table' \in [Keys -> RowType \cup {None}]
      /\ \A k \in Counters : table'[k] # None => table'[k].value \in Nat
      /\ \A k \in Keys : table[k] # None /\ lock[k] # None => table'[k] # None
  BY DeletedUnlocked
<1>2. RowTypes'
  BY <1>1 DEF RowTypes
<1>3. CASE UNCHANGED call
  <2>1. CallsKnown'
    BY <1>3 DEF CallsKnown, CallKnown
  <2>2. ASSUME NEW c \in Clients PROVE At(c, "update")' =>
          lock'[call'[c].key] = c /\ table'[call'[c].key] # None
    <3> SUFFICES ASSUME At(c, "update")'
                 PROVE  lock'[call'[c].key] = c /\ table'[call'[c].key] # None
      OBVIOUS
    <3>1. At(c, "update") /\ call[c].key \in Keys
      BY <1>3 DEF At, CallsKnown, CallKnown, Keys
    <3>2. lock[call[c].key] = c /\ table[call[c].key] # None
      BY <3>1 DEF RowHeld
    <3> QED BY <1>1, <1>3, <3>1, <3>2, NoneAssumption
  <2> QED BY <1>2, <2>1, <2>2 DEF RowHeld
<1>4. ASSUME NEW c \in Clients, Return(c) PROVE StatementInv'
  <2>1. call' = [call EXCEPT ![c] = Idle] /\ now \in Nat
    BY <1>4 DEF Return, RowTypes
  <2>2. /\ CallsKnown' /\ call'[c] = Idle
        /\ \A d \in Clients \ {c} : call'[d] = call[d]
    BY <2>1, IdleCall, CallMoves
  <2>3. RowHeld'
    BY <1>1, <2>2, HeldKept DEF At, Idle
  <2> QED BY <1>2, <2>2, <2>3
<1> QED BY <1>3, <1>4

\* Every statement keeps the rows, the calls and the locks in order.
LEMMA StatementStep == StatementInv /\ [Next]_(vars) => StatementInv'
<1> SUFFICES ASSUME StatementInv, [Next]_(vars) PROVE StatementInv'
    OBVIOUS
<1>0. now \in Nat /\ nextId \in Nat /\ Period \in Nat
  BY CacheAssumption DEF StatementInv, RowTypes
<1>1. \A c \in Clients : call[c] \in CallType /\ CallKnown(call[c], now)
  BY DEF StatementInv, CallsKnown
<1>2. ASSUME NEW c \in Clients, Return(c), UNCHANGED <<now, table, nextId, window>>,
             UNCHANGED lock \/ Unlock(c)
      PROVE  StatementInv'
  <2>1. call' = [call EXCEPT ![c] = Idle] /\ Idle.pc # "update"
    BY <1>2 DEF Return, Idle
  <2> QED BY <1>0, <1>2, <2>1, IdleCall, MoveStep
<1>3. ASSUME NEW c \in Clients, Retry(c), UNCHANGED <<now, table, nextId, window>>,
             call[c].pc \in {"begin", "select", "insert", "update"}
      PROVE  StatementInv'
  <2>1. PICK rec \in CallType :
          /\ call' = [call EXCEPT ![c] = rec]
          /\ CallKnown(rec, now)
          /\ rec = Idle \/ rec.pc = "begin"
    BY <1>3, RetryCall
  <2>2. rec.pc # "update" /\ Unlock(c)
    BY <1>3, <2>1 DEF Idle, Retry
  <2> QED BY <1>3, <2>1, <2>2, MoveStep
<1>4. ASSUME NEW c \in Clients, NEW op \in Ops, NEW k \in KeysOf(op), Call(c, op, k)
      PROVE  StatementInv'
  <2> DEFINE pc == IF op = "inc" THEN "begin" ELSE op
             clock == IF op = "write" THEN now ELSE 0
             rec == [Idle EXCEPT !.pc = pc, !.key = k, !.at = now, !.clock = clock]
  <2>1. call' = [call EXCEPT ![c] = rec]
    BY <1>4 DEF Call
  <2>2. pc \in Pcs /\ pc # "update"
    BY DEF Ops, Pcs
  <2>3. k \in Keys \cup {None}
    BY DEF KeysOf, Ops, Keys
  <2>4. /\ rec \in CallType
        /\ rec.pc = pc /\ rec.key = k /\ rec.at = now /\ rec.clock = clock
    <3> HIDE DEF pc
    <3>1. clock \in Nat
      BY <1>0
    <3> HIDE DEF clock
    <3> QED BY <1>0, <2>2, <2>3, <3>1, IdleCall DEF CallType
  <2> HIDE DEF rec
  <2>5. CallKnown(rec, now)
    BY <1>0, <2>2, <2>3, <2>4 DEF CallKnown, KeysOf, Ops, Keys
  <2> HIDE DEF pc
  <2>6. rec.pc # "update"
    BY <2>2, <2>4
  <2> QED BY <1>4, <2>1, <2>4, <2>5, <2>6, MoveStep DEF Call
<1>5. ASSUME NEW c \in Clients, Begin(c) PROVE StatementInv'
  <2> DEFINE rec == [call[c] EXCEPT !.pc = "select", !.clock = now]
  <2>1. call' = [call EXCEPT ![c] = rec] /\ call[c].pc = "begin"
    BY <1>5, <1>1 DEF Begin, At
  <2>2. "select" \in Pcs
    BY DEF Pcs
  <2>3. rec \in CallType /\ rec.pc = "select" /\ rec.clock = now
        /\ rec.key = call[c].key /\ rec.at = call[c].at
    BY <1>0, <1>1, <2>2 DEF CallType
  <2>4. CallKnown(rec, now)
    BY <1>0, <1>1, <2>1, <2>3 DEF CallKnown, CallType
  <2> HIDE DEF rec
  <2>5. /\ CallsKnown' /\ call'[c] = rec
        /\ \A d \in Clients \ {c} : call'[d] = call[d]
    BY <1>0, <1>5, <2>1, <2>3, <2>4, CallMoves DEF StatementInv, Begin
  <2>6. UNCHANGED lock \/ ((\A k \in Keys : lock[k] = None) /\ lock' = [k \in Keys |-> c])
    <3>1. Unlocked(Keys) => \A k \in Keys : lock[k] = None
      BY DEF Unlocked, Keys
    <3>2. UNCHANGED lock \/ (Unlocked(Keys) /\ lock' = [k \in Keys |-> c])
      BY <1>5 DEF Begin, Keys
    <3> QED BY <3>1, <3>2
  <2>7. RowTypes'
    BY <1>5, <2>6 DEF StatementInv, RowTypes, Begin
  <2>8. RowHeld'
    BY <1>5, <2>3, <2>5, <2>6, HeldKept DEF StatementInv, Begin, At
  <2> QED BY <2>5, <2>7, <2>8 DEF StatementInv
<1>6. ASSUME NEW c \in Clients, Select(c) PROVE StatementInv'
  <2>1. call[c].pc = "select" /\ call[c].key \in Counters /\ call[c].key \in Keys
    BY <1>1, <1>6 DEF Select, At, CallKnown, Keys
  <2>2. PICK pc \in {"insert", "update"} :
          /\ call' = [call EXCEPT ![c] = [call[c] EXCEPT !.pc = pc]]
          /\ \/ pc = "insert" /\ lock' = lock
             \/ /\ pc = "update" /\ table[call[c].key] # None
                /\ lock' = [lock EXCEPT ![call[c].key] = c]
          /\ lock[call[c].key] \in {None, c}
    BY <1>6 DEF Select, Goto
  <2> DEFINE rec == [call[c] EXCEPT !.pc = pc]
  <2>3. pc \in Pcs
    BY DEF Pcs
  <2>4. rec \in CallType /\ rec.pc = pc /\ rec.clock = call[c].clock
        /\ rec.key = call[c].key /\ rec.at = call[c].at
    BY <1>1, <2>3 DEF CallType
  <2>5. CallKnown(rec, now)
    BY <1>1, <2>1, <2>4 DEF CallKnown
  <2> HIDE DEF rec
  <2>6. call' = [call EXCEPT ![c] = rec]
    BY <2>2 DEF rec
  <2>7. /\ CallsKnown' /\ call'[c] = rec
        /\ \A d \in Clients \ {c} : call'[d] = call[d]
    BY <1>0, <1>6, <2>4, <2>5, <2>6, CallMoves DEF StatementInv, Select
  <2>8. RowTypes'
    BY <1>6, <2>1, <2>2 DEF StatementInv, RowTypes, Select
  <2>9. RowHeld'
    <3>1. table' = table /\ lock \in [Keys -> Clients \cup {None}]
      BY <1>6 DEF Select, StatementInv, RowTypes
    <3>2. At(c, "update")' => lock'[call'[c].key] = c /\ table'[call'[c].key] # None
      BY <2>1, <2>2, <2>4, <2>7, <3>1 DEF At
    <3>3. \A k \in Keys : lock'[k] = lock[k] \/ lock[k] \in {c, None}
      BY <2>1, <2>2, <3>1
    <3> QED BY <2>7, <3>1, <3>2, <3>3, HeldKept DEF StatementInv
  <2> QED BY <2>7, <2>8, <2>9 DEF StatementInv
<1>7. ASSUME NEW c \in Clients, Insert(c) PROVE StatementInv'
  <2> DEFINE e == call[c].clock + Period
  <2>1. call[c].key \in Counters /\ e \in Nat /\ 1 \in Nat
    BY <1>0, <1>1, <1>7 DEF Insert, At, CallKnown, CallType
  <2>2. Row(nextId, 1, e) \in RowType /\ Row(nextId, 1, e).value = 1
        /\ Row(nextId, 1, e).expiresAt = e
    BY <1>0, <2>1 DEF Row, RowType
  <2>3. /\ table' = [table EXCEPT ![call[c].key] = Row(nextId, 1, e)]
        /\ nextId' \in Nat /\ now' = now /\ Answer(c, 1, e)
    BY <1>0, <1>7 DEF Insert
  <2> HIDE DEF e
  <2> QED BY <2>1, <2>2, <2>3, AnswerStep
<1>8. ASSUME NEW c \in Clients, Update(c) PROVE StatementInv'
  <2> DEFINE row == table[call[c].key]
             fresh == Expired(row, call[c].clock)
             count == IF fresh THEN 1 ELSE row.value + 1
             e == IF fresh THEN call[c].clock + Period ELSE row.expiresAt
  <2>1. call[c].key \in Counters /\ call[c].clock \in Nat /\ At(c, "update")
    BY <1>1, <1>8 DEF Update, At, CallKnown, CallType
  <2>2. row \in RowType /\ row.value \in Nat
    BY <2>1 DEF StatementInv, RowHeld, RowTypes, Keys
  <2>3. row.id \in Nat /\ row.expiresAt \in Nat
    BY <2>2 DEF RowType
  <2>4. /\ table' = [table EXCEPT ![call[c].key] = Row(row.id, count, e)]
        /\ nextId' \in Nat /\ now' = now /\ Answer(c, count, e)
    BY <1>0, <1>8 DEF Update
  <2> HIDE DEF row, fresh
  <2>5. count \in Nat /\ e \in Nat
    BY <1>0, <2>1, <2>2, <2>3
  <2> HIDE DEF count, e
  <2>6. Row(row.id, count, e) \in RowType /\ Row(row.id, count, e).value = count
        /\ Row(row.id, count, e).expiresAt = e
    BY <2>3, <2>5 DEF Row, RowType
  <2> QED BY <2>1, <2>4, <2>5, <2>6, AnswerStep
<1>9. ASSUME NEW c \in Clients, InsertConflict(c) PROVE StatementInv'
  BY <1>3, <1>9 DEF InsertConflict, At
<1>10. ASSUME NEW c \in Clients, IncrementError(c) PROVE StatementInv'
  BY <1>2, <1>3, <1>10 DEF IncrementError
<1>11. ASSUME NEW c \in Clients, Lookup(c) PROVE StatementInv'
  <2> DEFINE row == table[call[c].key]
             rec == [call[c] EXCEPT !.pc = "judge", !.row = row]
  <2>1. call' = [call EXCEPT ![c] = rec] /\ call[c].pc = "read"
    BY <1>1, <1>11 DEF Lookup, At
  <2>2. "judge" \in Pcs /\ row \in RowType \cup {None}
    BY <1>1, <2>1 DEF Pcs, StatementInv, RowTypes, CallKnown, Keys
  <2> HIDE DEF row
  <2>3. rec \in CallType /\ rec.pc = "judge" /\ rec.clock = call[c].clock
        /\ rec.key = call[c].key /\ rec.at = call[c].at
    BY <1>1, <2>2 DEF CallType
  <2>4. CallKnown(rec, now)
    BY <1>1, <2>1, <2>3 DEF CallKnown
  <2> HIDE DEF rec
  <2> QED BY <1>11, <2>1, <2>3, <2>4, MoveStep DEF Lookup
<1>12. ASSUME NEW c \in Clients, Judge(c) PROVE StatementInv'
  <2>1. CASE Return(c)
    BY <1>2, <1>12, <2>1 DEF Judge
  <2>2. CASE call' = [call EXCEPT ![c].pc = "evict", ![c].row = None]
    <3> DEFINE rec == [call[c] EXCEPT !.pc = "evict", !.row = None]
    <3>1. call' = [call EXCEPT ![c] = rec] /\ call[c].pc = "judge"
      BY <1>1, <1>12, <2>2 DEF Judge, At
    <3>2. "evict" \in Pcs /\ None \in RowType \cup {None}
      BY DEF Pcs
    <3>3. rec \in CallType /\ rec.pc = "evict" /\ rec.clock = call[c].clock
          /\ rec.key = call[c].key /\ rec.at = call[c].at
      BY <1>1, <3>2 DEF CallType
    <3>4. CallKnown(rec, now)
      BY <1>1, <3>1, <3>3 DEF CallKnown
    <3> HIDE DEF rec
    <3> QED BY <1>12, <3>1, <3>3, <3>4, MoveStep DEF Judge
  <2> QED BY <1>12, <2>1, <2>2 DEF Judge
<1>13. ASSUME NEW c \in Clients, Evict(c) PROVE StatementInv'
  <2>1. {call[c].key} \in SUBSET Keys
    BY <1>1, <1>13 DEF Evict, At, CallKnown, Keys
  <2> QED BY <1>13, <2>1, DeleteStep DEF Evict, StatementInv, RowTypes
<1>14. ASSUME NEW c \in Clients, Write(c) PROVE StatementInv'
  <2> DEFINE k == call[c].key
  <2>1. k \in Pages /\ k \in Keys /\ k \notin Counters /\ call[c].clock \in Nat
    BY <1>1, <1>14, CacheAssumption DEF Write, At, CallKnown, CallType, Keys
  <2>2. PICK v \in Values, e \in {0, call[c].clock + Period} :
          table' = [table EXCEPT ![k] = Row(IF table[k] = None THEN nextId ELSE table[k].id, v, e)]
    BY <1>14 DEF Write
  <2> DEFINE id == IF table[k] = None THEN nextId ELSE table[k].id
  <2>3. id \in Nat /\ e \in Nat
    BY <1>0, <2>1 DEF StatementInv, RowTypes, RowType
  <2>4. Row(id, v, e) \in RowType
    BY <2>3 DEF Row, RowType
  <2>5. nextId' \in Nat /\ now' = now /\ window' = window /\ lock' = lock
        /\ call' = [call EXCEPT ![c] = Idle]
    BY <1>0, <1>14 DEF Write, Return
  <2> HIDE DEF id, k
  <2>6. table' = [table EXCEPT ![k] = Row(id, v, e)] /\ Row(id, v, e) # None
    BY <2>2, <2>4, NoneAssumption DEF id, RowType
  <2>7. RowTypes'
    BY <2>1, <2>4, <2>5, <2>6 DEF StatementInv, RowTypes
  <2>8. /\ CallsKnown' /\ call'[c] = Idle
        /\ \A d \in Clients \ {c} : call'[d] = call[d]
    BY <1>0, <2>5, IdleCall, CallMoves DEF StatementInv
  <2>9. \A x \in Keys : table[x] # None => table'[x] # None
    BY <2>6 DEF StatementInv, RowTypes
  <2>10. RowHeld'
    BY <2>5, <2>8, <2>9, HeldKept DEF StatementInv, At, Idle
  <2> QED BY <2>7, <2>8, <2>10 DEF StatementInv
<1>15. ASSUME NEW c \in Clients, NEW ks \in SUBSET Keys, Remove(c, ks) PROVE StatementInv'
  <2>1. window' \in [Counters -> [expiresAt : Nat, admitted : Nat]]
    BY <1>15 DEF Remove, NoWindow, StatementInv, RowTypes
  <2> QED BY <1>15, <2>1, DeleteStep DEF Remove
<1>16. ASSUME NEW c \in Clients, Delete(c) PROVE StatementInv'
  <2>1. {call[c].key} \in SUBSET Keys
    BY <1>1, <1>16 DEF Delete, At, CallKnown
  <2> QED BY <1>15, <1>16, <2>1 DEF Delete
<1>17. ASSUME NEW c \in Clients, Clear(c) PROVE StatementInv'
  BY <1>15, <1>17 DEF Clear, Keys
<1>18. ASSUME NEW c \in Clients, CallError(c) PROVE StatementInv'
  BY <1>2, <1>18 DEF CallError
<1>19. CASE SweepDelete
  <2> DEFINE ks == {k \in Keys : table[k] # None /\ table[k].id \in sweep.ids}
  <2>1. ks \in SUBSET Keys
    OBVIOUS
  <2>2. Unlocked(ks) /\ DeleteRows(ks) /\ UNCHANGED <<now, nextId, lock, call, window>>
    BY <1>19 DEF SweepDelete, Keys
  <2> HIDE DEF ks
  <2>3. window' \in [Counters -> [expiresAt : Nat, admitted : Nat]]
    BY <2>2 DEF StatementInv, RowTypes
  <2> QED BY <2>1, <2>2, <2>3, DeleteStep
<1>20. CASE Tick
  <2>1. now' = now + 1 /\ UNCHANGED <<table, nextId, lock, call, window>>
    BY <1>20 DEF Tick
  <2>2. RowTypes' /\ RowHeld'
    BY <1>0, <2>1 DEF StatementInv, RowTypes, RowHeld, At
  <2>3. \A c \in Clients : CallKnown(call[c], now + 1)
    BY <1>0, <1>1 DEF CallKnown, CallType
  <2> QED BY <2>1, <2>2, <2>3 DEF StatementInv, CallsKnown, CallKnown
<1>21. CASE UNCHANGED <<now, table, nextId, lock, call, window>>
  BY <1>21 DEF StatementInv, RowTypes, CallsKnown, CallKnown, RowHeld, At
<1>22. CASE StartSweep \/ SweepSelect \/ SweepError \/ Cancel \/ UNCHANGED vars
  BY <1>21, <1>22 DEF StartSweep, SweepSelect, SweepError, Cancel, vars
<1> QED BY <1>4, <1>5, <1>6, <1>7, <1>8, <1>9, <1>10, <1>11, <1>12, <1>13, <1>14, <1>16,
           <1>17, <1>18, <1>19, <1>20, <1>22 DEF Next, Step, IncrementStep, SweepStep

\* Nobody is answered, and the rows that change belong to no open window.
LEMMA UnansweredLimit ==
  ASSUME StatementInv, LimitKept, now' = now, window' = window, raced \subseteq raced',
         \A k \in Counters : \/ k \in raced'
                             \/ table'[k] = table[k]
                             \/ table[k] = None
                             \/ table[k].expiresAt <= now
  PROVE  LimitKept'
<1> SUFFICES ASSUME NEW k \in Counters, k \notin raced' PROVE Tallied(k)'
    BY DEF LimitKept
<1>1. k \notin raced /\ Tallied(k)
  BY DEF LimitKept
<1>2. now \in Nat /\ window[k] \in [expiresAt : Nat, admitted : Nat]
  BY DEF StatementInv, RowTypes
<1>3. table'[k] = table[k] \/ table[k] = None \/ table[k].expiresAt <= now
  OBVIOUS
<1> QED BY <1>1, <1>2, <1>3 DEF Tallied

\* A transaction commits.  While the window is open it counts one more in the
\* row of that window, so that the requests let through are among those counted.
LEMMA AnswerLimit ==
  ASSUME StatementInv, LimitKept, NEW c \in Clients, NEW k \in Counters, k = call[c].key,
         NEW count \in Nat \ {0}, NEW e \in Nat, NEW row \in RowType,
         row.value = count, row.expiresAt = e, table' = [table EXCEPT ![k] = row],
         Answer(c, count, e), raced' = raced, now' = now,
         k \notin raced /\ now < window[k].expiresAt =>
           /\ e = window[k].expiresAt
           /\ window[k].admitted + 1 <= count
  PROVE  LimitKept'
<1> SUFFICES ASSUME NEW x \in Counters, x \notin raced PROVE Tallied(x)'
    BY DEF LimitKept
<1>1. Tallied(x)
  BY DEF LimitKept
<1>2. /\ now \in Nat /\ Limit \in Nat
      /\ window[x] \in [expiresAt : Nat, admitted : Nat]
      /\ window \in [Counters -> [expiresAt : Nat, admitted : Nat]]
      /\ table \in [Keys -> RowType \cup {None}]
  BY CacheAssumption DEF StatementInv, RowTypes
<1>3. \/ window' = window
      \/ window' = [window EXCEPT ![k] = Account(window[k], count, e, now)]
  BY DEF Answer
<1>4. CASE x # k
  <2>1. window'[x] = window[x] /\ table'[x] = table[x]
    BY <1>2, <1>3, <1>4
  <2> QED BY <1>1, <2>1 DEF Tallied
<1>5. CASE x = k
  <2>1. table'[k] = row /\ row # None
    BY <1>2, NoneAssumption DEF RowType, Keys
  <2>2. now < window[k].expiresAt =>
          e = window[k].expiresAt /\ window[k].admitted + 1 <= count
    BY <1>5
  <2>3. CASE window' = window
    BY <1>1, <1>2, <1>5, <2>1, <2>2, <2>3 DEF Tallied
  <2>4. CASE window' = [window EXCEPT ![k] = Account(window[k], count, e, now)]
    <3>1. window'[k] = Account(window[k], count, e, now)
      BY <1>2, <2>4
    <3>2. CASE now < window[k].expiresAt
      <4>1. /\ window'[k].expiresAt = window[k].expiresAt
            /\ window'[k].admitted = window[k].admitted + (IF count <= Limit THEN 1 ELSE 0)
        BY <3>1, <3>2 DEF Account, Admits
      <4> QED BY <1>1, <1>2, <1>5, <2>1, <2>2, <3>2, <4>1 DEF Tallied
    <3>3. CASE ~(now < window[k].expiresAt)
      <4>1. /\ window'[k].expiresAt = e
            /\ window'[k].admitted = IF count <= Limit THEN 1 ELSE 0
        BY <3>1, <3>3 DEF Account, Admits
      <4> QED BY <1>1, <1>2, <1>5, <2>1, <3>3, <4>1 DEF Tallied
    <3> QED BY <3>2, <3>3
  <2> QED BY <1>3, <2>3, <2>4
<1> QED BY <1>4, <1>5

\* Every statement keeps the limit of the counters no eviction has raced with.
LEMMA LimitStep == StatementInv /\ LimitKept /\ [Next]_(vars) => LimitKept'
<1> SUFFICES ASSUME StatementInv, LimitKept, [Next]_(vars) PROVE LimitKept'
    OBVIOUS
<1>0. now \in Nat /\ nextId \in Nat /\ Period \in Nat \ {0}
  BY CacheAssumption DEF StatementInv, RowTypes
<1>1. \A c \in Clients : call[c] \in CallType /\ CallKnown(call[c], now)
  BY DEF StatementInv, CallsKnown
<1>2. CASE UNCHANGED <<now, table, window, raced>>
  BY <1>2, UnansweredLimit
<1>3. ASSUME NEW c \in Clients, Insert(c) PROVE LimitKept'
  <2> DEFINE k == call[c].key
             e == call[c].clock + Period
  <2>1. k \in Counters /\ e \in Nat /\ 1 \in Nat \ {0}
    BY <1>0, <1>1, <1>3 DEF Insert, At, CallKnown, CallType
  <2>2. Row(nextId, 1, e) \in RowType /\ Row(nextId, 1, e).value = 1
        /\ Row(nextId, 1, e).expiresAt = e
    BY <1>0, <2>1 DEF Row, RowType
  <2>3. /\ table' = [table EXCEPT ![k] = Row(nextId, 1, e)] /\ table[k] = None
        /\ now' = now /\ raced' = raced /\ Answer(c, 1, e)
    BY <1>3 DEF Insert
  <2>4. k \in raced \/ ~(now < window[k].expiresAt)
    BY <2>1, <2>3 DEF LimitKept, Tallied
  <2> HIDE DEF e
  <2>5. k = call[c].key
    OBVIOUS
  <2> HIDE DEF k
  <2> QED BY <2>1, <2>2, <2>3, <2>4, <2>5, AnswerLimit
<1>4. ASSUME NEW c \in Clients, Update(c) PROVE LimitKept'
  <2> DEFINE k == call[c].key
             row == table[k]
             fresh == Expired(row, call[c].clock)
             count == IF fresh THEN 1 ELSE row.value + 1
             e == IF fresh THEN call[c].clock + Period ELSE row.expiresAt
  <2>1. k \in Counters /\ call[c].clock \in Nat /\ call[c].clock <= now /\ At(c, "update")
    BY <1>1, <1>4 DEF Update, At, CallKnown, CallType
  <2>2. row \in RowType /\ row.value \in Nat
    BY <2>1 DEF StatementInv, RowHeld, RowTypes, Keys
  <2>3. row.id \in Nat /\ row.expiresAt \in Nat
    BY <2>2 DEF RowType
  <2>4. /\ table' = [table EXCEPT ![k] = Row(row.id, count, e)]
        /\ now' = now /\ raced' = raced /\ Answer(c, count, e)
    BY <1>4 DEF Update
  <2>5. k \notin raced /\ now < window[k].expiresAt =>
          row.expiresAt = window[k].expiresAt /\ window[k].admitted <= row.value
    BY <2>1 DEF LimitKept, Tallied
  <2>6. window[k].expiresAt \in Nat /\ window[k].admitted \in Nat
    BY <2>1 DEF StatementInv, RowTypes
  <2>7. k = call[c].key /\ (fresh => row.expiresAt <= call[c].clock)
    BY DEF Expired
  <2> HIDE DEF row, fresh, k
  <2>8. count \in Nat \ {0} /\ e \in Nat
    BY <1>0, <2>1, <2>2, <2>3
  <2>9. k \notin raced /\ now < window[k].expiresAt =>
          e = window[k].expiresAt /\ window[k].admitted + 1 <= count
    <3> SUFFICES ASSUME k \notin raced, now < window[k].expiresAt
                 PROVE  e = window[k].expiresAt /\ window[k].admitted + 1 <= count
        OBVIOUS
    <3>1. row.expiresAt = window[k].expiresAt /\ window[k].admitted <= row.value
      BY <2>5
    <3>2. ~fresh
      BY <1>0, <2>1, <2>3, <2>6, <2>7, <3>1
    <3> QED BY <2>2, <2>6, <3>1, <3>2
  <2> HIDE DEF count, e
  <2>10. Row(row.id, count, e) \in RowType /\ Row(row.id, count, e).value = count
         /\ Row(row.id, count, e).expiresAt = e
    BY <2>3, <2>8 DEF Row, RowType
  <2> QED BY <2>1, <2>4, <2>7, <2>8, <2>9, <2>10, AnswerLimit
<1>5. ASSUME NEW ks \in SUBSET Keys, DeleteRows(ks), raced' = raced \cup Live(ks),
             now' = now, window' = window
      PROVE  LimitKept'
  <2>1. table' = [k \in Keys |-> IF k \in ks THEN None ELSE table[k]]
    BY <1>5 DEF DeleteRows, Keys
  <2>2. ASSUME NEW k \in Counters
        PROVE  k \in raced' \/ table'[k] = table[k] \/ table[k] = None \/ table[k].expiresAt <= now
    <3>1. k \in Keys
      BY DEF Keys
    <3>2. CASE k \notin ks
      BY <2>1, <3>1, <3>2
    <3>3. CASE k \in ks
      BY <1>5, <3>3 DEF Live, Expired
    <3> QED BY <3>2, <3>3
  <2>3. raced \subseteq raced'
    BY <1>5
  <2> QED BY <1>5, <2>2, <2>3, UnansweredLimit
<1>6. ASSUME NEW c \in Clients, Evict(c) PROVE LimitKept'
  <2>1. {call[c].key} \in SUBSET Keys
    BY <1>1, <1>6 DEF Evict, At, CallKnown, Keys
  <2> QED BY <1>5, <1>6, <2>1 DEF Evict
<1>7. ASSUME NEW c \in Clients, Write(c) PROVE LimitKept'
  <2>1. call[c].key \notin Counters
    BY <1>1, <1>7, CacheAssumption DEF Write, At, CallKnown
  <2>2. \A k \in Counters : table'[k] = table[k]
    <3>1. PICK row : table' = [table EXCEPT ![call[c].key] = row]
      BY <1>7 DEF Write
    <3> QED BY <2>1, <3>1 DEF StatementInv, RowTypes, Keys
  <2>3. UNCHANGED <<now, window, raced>>
    BY <1>7 DEF Write
  <2> QED BY <2>2, <2>3, UnansweredLimit
<1>8. ASSUME NEW c \in Clients, NEW ks \in SUBSET Keys, Remove(c, ks) PROVE LimitKept'
  <2> SUFFICES ASSUME NEW k \in Counters, k \notin raced' PROVE Tallied(k)'
      BY DEF LimitKept
  <2>1. /\ table'[k] = IF k \in ks THEN None ELSE table[k]
        /\ window'[k] = IF k \in ks THEN NoWindow ELSE window[k]
        /\ now' = now /\ raced' = raced
    BY <1>8 DEF Remove, DeleteRows, Keys
  <2>2. CASE k \in ks
    BY <1>0, <2>1, <2>2, CacheAssumption DEF Tallied, NoWindow
  <2>3. CASE k \notin ks
    BY <2>1, <2>3 DEF LimitKept, Tallied
  <2> QED BY <2>2, <2>3
<1>9. ASSUME NEW c \in Clients, Delete(c) PROVE LimitKept'
  <2>1. {call[c].key} \in SUBSET Keys
    BY <1>1, <1>9 DEF Delete, At, CallKnown
  <2> QED BY <1>8, <1>9, <2>1 DEF Delete
<1>10. ASSUME NEW c \in Clients, Clear(c) PROVE LimitKept'
  BY <1>8, <1>10 DEF Clear, Keys
<1>11. CASE SweepDelete
  <2> DEFINE ks == {k \in Keys : table[k] # None /\ table[k].id \in sweep.ids}
  <2>1. ks \in SUBSET Keys
    OBVIOUS
  <2>2. DeleteRows(ks) /\ raced' = raced \cup Live(ks) /\ UNCHANGED <<now, window>>
    BY <1>11 DEF SweepDelete, Keys
  <2> HIDE DEF ks
  <2> QED BY <1>5, <2>1, <2>2
<1>12. CASE Tick
  <2> SUFFICES ASSUME NEW k \in Counters, k \notin raced' PROVE Tallied(k)'
      BY DEF LimitKept
  <2>1. now' = now + 1 /\ UNCHANGED <<table, window, raced>>
    BY <1>12 DEF Tick
  <2>2. Tallied(k) /\ window[k].expiresAt \in Nat
    BY <2>1 DEF LimitKept, StatementInv, RowTypes
  <2> QED BY <1>0, <2>1, <2>2 DEF Tallied
<1>13. ASSUME NEW c \in Clients,
              \/ \E op \in Ops : \E k \in KeysOf(op) : Call(c, op, k)
              \/ Begin(c) \/ Select(c) \/ InsertConflict(c) \/ IncrementError(c)
              \/ Lookup(c) \/ Judge(c) \/ CallError(c)
       PROVE  LimitKept'
  <2>1. UNCHANGED <<now, table, window, raced>>
    BY <1>13 DEF Call, Begin, Select, InsertConflict, IncrementError,
                 Lookup, Judge, CallError
  <2> QED BY <1>2, <2>1
<1>14. CASE StartSweep \/ SweepSelect \/ SweepError \/ Cancel \/ UNCHANGED vars
  BY <1>2, <1>14 DEF StartSweep, SweepSelect, SweepError, Cancel, vars
<1> QED BY <1>3, <1>4, <1>6, <1>7, <1>9, <1>10, <1>11, <1>12, <1>13, <1>14
        DEF Next, Step, IncrementStep, SweepStep

\* At the start there are no rows, no calls and no windows.
LEMMA StatementStart == Init => StatementInv /\ LimitKept
<1> SUFFICES ASSUME Init PROVE StatementInv /\ LimitKept
    OBVIOUS
<1>1. now = 0 /\ nextId = 1 /\ 0 \in Nat
  BY DEF Init
<1>2. RowTypes
  BY <1>1 DEF Init, RowTypes, NoWindow, Keys
<1>3. CallsKnown
  BY <1>1, IdleCall DEF Init, CallsKnown
<1>4. RowHeld
  BY DEF Init, RowHeld, At, Idle
<1>5. LimitKept
  BY <1>1, CacheAssumption DEF Init, LimitKept, Tallied, NoWindow
<1> QED BY <1>2, <1>3, <1>4, <1>5 DEF StatementInv

\* The rate limiter over the cache in a database lets at most Limit requests
\* through per window, for every counter whose row no eviction has taken while it
\* counted: transactions, retries, lost answers, failing statements and clock
\* readings that are old when the row is locked cost no count, with row locks and
\* with SQLite's one lock.
THEOREM DatabaseRateLimit == Spec => []LimitUnlessRaced
<1>1. Init => StatementInv /\ LimitKept
  BY StatementStart
<1>2. StatementInv /\ LimitKept /\ [Next]_(vars) => (StatementInv /\ LimitKept)'
  BY StatementStep, LimitStep
<1>3. StatementInv /\ LimitKept => LimitUnlessRaced
  BY DEF LimitKept, Tallied, LimitUnlessRaced
<1> QED BY <1>1, <1>2, <1>3, PTL DEF Spec

\* What the contract sees of the rows and of the calls.
Shown ==
  [k \in Keys |-> IF table[k] = None THEN None
                  ELSE [value |-> table[k].value, expiresAt |-> table[k].expiresAt]]

Since == [c \in Clients |-> IF At(c, "idle") THEN None ELSE call[c].at]

\* A call that is over is over to the contract too.
LEMMA SinceReturned ==
  ASSUME StatementInv, NEW c \in Clients, ~At(c, "idle"), Return(c)
  PROVE  /\ Since[c] # None /\ Since[c] = call[c].at
         /\ Since' = [Since EXCEPT ![c] = None]
<1>1. call \in [Clients -> CallType] /\ call' = [call EXCEPT ![c] = Idle] /\ Idle.pc = "idle"
  BY DEF StatementInv, CallsKnown, Return, Idle
<1>2. call[c].at \in Nat
  BY <1>1 DEF CallType
<1>3. \A d \in Clients : Since'[d] = IF d = c THEN None ELSE Since[d]
  BY <1>1 DEF Since, At
<1>4. Since' = [Since EXCEPT ![c] = None]
  BY <1>3 DEF Since
<1> QED BY <1>2, <1>4, NoneAssumption DEF Since

\* A call that goes on is the same call to the contract.
LEMMA SinceSame ==
  ASSUME StatementInv, NEW c \in Clients, NEW rec, rec.pc # "idle", rec.at = call[c].at,
         ~At(c, "idle"), call' = [call EXCEPT ![c] = rec]
  PROVE  Since' = Since
<1>1. call \in [Clients -> CallType]
  BY DEF StatementInv, CallsKnown
<1>2. \A d \in Clients : Since'[d] = Since[d]
  BY <1>1 DEF Since, At
<1> QED BY <1>2 DEF Since

\* A row that is written is an entry the contract sees.
LEMMA ShownPut ==
  ASSUME StatementInv, NEW k \in Keys, NEW row \in RowType, table' = [table EXCEPT ![k] = row]
  PROVE  Shown' = [Shown EXCEPT ![k] = [value |-> row.value, expiresAt |-> row.expiresAt]]
<1>1. table \in [Keys -> RowType \cup {None}] /\ row # None
  BY NoneAssumption DEF StatementInv, RowTypes, RowType
<1>2. \A x \in Keys : Shown'[x] = IF x = k THEN [value |-> row.value, expiresAt |-> row.expiresAt]
                                  ELSE Shown[x]
  BY <1>1 DEF Shown
<1> QED BY <1>2 DEF Shown

\* Rows that are deleted are entries that are gone.
LEMMA ShownDeleted ==
  ASSUME NEW ks \in SUBSET Keys, DeleteRows(ks)
  PROVE  Shown' = [k \in Keys |-> IF k \in ks THEN None ELSE Shown[k]]
<1>1. \A k \in Keys : table'[k] = IF k \in ks THEN None ELSE table[k]
  BY DEF DeleteRows, Keys
<1> QED BY <1>1 DEF Shown

\* A row that has expired may be gone to the contract, one that has not may count.
LEMMA ShownRow ==
  ASSUME StatementInv, NEW k \in Keys, NEW t \in Nat
  PROVE  /\ table[k] = None => Shown[k] = None
         /\ table[k] # None => /\ Shown[k] # None
                               /\ Shown[k].value = table[k].value
                               /\ Shown[k].expiresAt = table[k].expiresAt
                               /\ Expired(table[k], t) => Store!MayBeGone(Shown[k], t)
                               /\ ~Expired(table[k], t) => Store!MayCount(Shown[k], t)
<1>1. table[k] # None => table[k].value \in Values \cup Nat /\ table[k].expiresAt \in Nat
  BY DEF StatementInv, RowTypes, RowType
<1>2. Shown[k] = IF table[k] = None THEN None
                 ELSE [value |-> table[k].value, expiresAt |-> table[k].expiresAt]
  BY DEF Shown
<1>3. table[k] # None => Shown[k] # None
  BY <1>1, <1>2, NoneAssumption
<1>4. table[k] # None => Shown[k].value = table[k].value /\ Shown[k].expiresAt = table[k].expiresAt
  BY <1>2
<1> QED BY <1>1, <1>2, <1>3, <1>4 DEF Expired, Store!MayBeGone, Store!MayCount

\* Where neither entries nor calls change, the contract takes no step.
LEMMA NothingShown ==
  ASSUME UNCHANGED <<now, Shown, Since>>
  PROVE  [Store!Next]_(Store!vars)
BY DEF Store!vars, Shown, Since, Keys

\* A call returns and no row has changed.
LEMMA ReturnShown ==
  ASSUME StatementInv, NEW c \in Clients, ~At(c, "idle"), Return(c),
         UNCHANGED <<now, table>>
  PROVE  Store!Next
<1>1. Since[c] # None /\ Since' = [Since EXCEPT ![c] = None]
  BY SinceReturned
<1>2. Shown' = Shown
  BY DEF Shown
<1>3. Store!Return(c)
  BY <1>1, <1>2 DEF Store!Return, Shown, Since, Keys
<1> QED BY <1>3 DEF Store!Next

\* A transaction commits, by the clock reading it took when it began.
LEMMA IncrementShown ==
  ASSUME StatementInv, NEW c \in Clients, NEW k \in Counters, NEW row \in RowType,
         call[c].pc \in {"insert", "update"}, Return(c), now' = now,
         table' = [table EXCEPT ![k] = row],
         [value |-> row.value, expiresAt |-> row.expiresAt]
           \in Store!Incremented(Shown[k], call[c].clock)
  PROVE  Store!Next
<1>1. ~At(c, "idle") /\ k \in Keys
  BY DEF At, Keys
<1>2. Since[c] # None /\ Since[c] = call[c].at /\ Since' = [Since EXCEPT ![c] = None]
  BY <1>1, SinceReturned
<1> DEFINE entry == [value |-> row.value, expiresAt |-> row.expiresAt]
<1>3. Shown' = [Shown EXCEPT ![k] = entry]
  BY <1>1, ShownPut
<1>4. call[c].clock \in Since[c] .. now
  BY <1>2 DEF StatementInv, CallsKnown, CallKnown, CallType, RowTypes
<1>5. entry \in Store!Incremented(Shown[k], call[c].clock)
  OBVIOUS
<1> HIDE DEF entry
<1>6. Store!Increment(c, k)
  BY <1>2, <1>3, <1>4, <1>5
     DEF Store!Increment, Store!Readings, Store!Put, Shown, Since, Keys
<1> QED BY <1>6 DEF Store!Next

\* Rows go that do not count any more.
LEMMA EvictShown ==
  ASSUME StatementInv, NEW ks \in SUBSET Keys, DeleteRows(ks), Live(ks) = {}, now' = now,
         UNCHANGED call \/ \E c \in Clients : ~At(c, "idle") /\ Return(c)
  PROVE  Store!Next
<1>1. Shown' = [k \in Keys |-> IF k \in ks THEN None ELSE Shown[k]]
  BY ShownDeleted
<1>2. ASSUME NEW k \in ks PROVE Store!MayBeGone(Shown[k], now)
  <2>1. table[k] = None \/ Expired(table[k], now)
    BY DEF Live
  <2>2. k \in Keys /\ now \in Nat
    BY DEF StatementInv, RowTypes
  <2> QED BY <2>1, <2>2, ShownRow DEF Store!MayBeGone
<1>3. Since' = Since \/ \E c \in Clients : Since' = [Since EXCEPT ![c] = None]
  <2>1. CASE UNCHANGED call
    BY <2>1 DEF Since, At
  <2>2. CASE \E c \in Clients : ~At(c, "idle") /\ Return(c)
    BY <2>2, SinceReturned
  <2> QED BY <2>1, <2>2
<1>4. ks \in SUBSET Store!Keys
  BY DEF Store!Keys, Keys
<1>5. Store!Evict
  BY <1>1, <1>2, <1>3, <1>4 DEF Store!Evict, Store!Keys, Shown, Since, Keys
<1> QED BY <1>5 DEF Store!Next

\* Delete and Clear.
LEMMA RemoveShown ==
  ASSUME StatementInv, NEW c \in Clients, ~At(c, "idle"), NEW ks \in SUBSET Keys, Remove(c, ks)
  PROVE  Store!Delete(c, ks)
<1>1. Shown' = [k \in Keys |-> IF k \in ks THEN None ELSE Shown[k]] /\ now' = now
  BY ShownDeleted DEF Remove
<1>2. Since[c] # None /\ Since' = [Since EXCEPT ![c] = None]
  BY SinceReturned DEF Remove
<1> QED BY <1>1, <1>2 DEF Store!Delete, Store!Keys, Shown, Since, Keys

\* Every statement is a step of the contract or changes nothing it sees.
LEMMA ContractStep ==
  StatementInv /\ [Next]_(vars) /\ raced' = {} => [Store!Next]_(Store!vars)
<1> SUFFICES ASSUME StatementInv, [Next]_(vars), raced' = {}
             PROVE  [Store!Next]_(Store!vars)
    OBVIOUS
<1>0. now \in Nat /\ nextId \in Nat /\ Period \in Nat
  BY CacheAssumption DEF StatementInv, RowTypes
<1>1. call \in [Clients -> CallType] /\ \A c \in Clients : CallKnown(call[c], now)
  BY DEF StatementInv, CallsKnown
<1>2. ASSUME NEW c \in Clients, NEW rec, call' = [call EXCEPT ![c] = rec], ~At(c, "idle"),
             rec.pc # "idle", rec.at = call[c].at, UNCHANGED <<now, table>>
      PROVE  [Store!Next]_(Store!vars)
  <2>1. Since' = Since
    BY <1>2, SinceSame
  <2>2. Shown' = Shown
    BY <1>2 DEF Shown
  <2> QED BY <1>2, <2>1, <2>2, NothingShown
<1>3. ASSUME NEW c \in Clients, call[c].pc \in {"begin", "select", "insert", "update"}, Retry(c),
             UNCHANGED <<now, table>>
      PROVE  [Store!Next]_(Store!vars)
  <2>1. PICK rec \in CallType :
          /\ call' = [call EXCEPT ![c] = rec]
          /\ rec = Idle \/ (rec.pc = "begin" /\ rec.at = call[c].at)
    BY <1>3, RetryCall
  <2>2. ~At(c, "idle")
    BY <1>3 DEF At
  <2>3. CASE rec = Idle
    BY <1>3, <2>1, <2>2, <2>3, ReturnShown DEF Return
  <2>4. CASE rec.pc = "begin" /\ rec.at = call[c].at
    BY <1>2, <1>3, <2>1, <2>2, <2>4
  <2> QED BY <2>1, <2>3, <2>4
<1>4. ASSUME NEW c \in Clients, NEW op \in Ops, NEW k \in KeysOf(op), Call(c, op, k)
      PROVE  Store!Next
  <2> DEFINE pc == IF op = "inc" THEN "begin" ELSE op
             clock == IF op = "write" THEN now ELSE 0
             rec == [Idle EXCEPT !.pc = pc, !.key = k, !.at = now, !.clock = clock]
  <2>1. call' = [call EXCEPT ![c] = rec] /\ At(c, "idle") /\ UNCHANGED <<now, table>>
    BY <1>4 DEF Call
  <2>2. pc # "idle"
    BY DEF Ops
  <2>3. rec.pc = pc /\ rec.at = now
    BY DEF Idle
  <2> HIDE DEF rec, pc
  <2>4. \A d \in Clients : Since'[d] = IF d = c THEN now ELSE Since[d]
    BY <1>1, <2>1, <2>2, <2>3 DEF Since, At
  <2>5. Since' = [Since EXCEPT ![c] = now] /\ Since[c] = None
    BY <2>1, <2>4 DEF Since
  <2>6. Shown' = Shown
    BY <2>1 DEF Shown
  <2>7. Store!Call(c)
    BY <2>1, <2>5, <2>6 DEF Store!Call, Shown, Since, Keys
  <2> QED BY <2>7 DEF Store!Next
<1>5. ASSUME NEW c \in Clients, Begin(c) PROVE [Store!Next]_(Store!vars)
  <2> DEFINE rec == [call[c] EXCEPT !.pc = "select", !.clock = now]
  <2>1. call' = [call EXCEPT ![c] = rec] /\ ~At(c, "idle") /\ UNCHANGED <<now, table>>
    BY <1>1, <1>5 DEF Begin, At
  <2>2. rec.pc # "idle" /\ rec.at = call[c].at
    BY <1>1 DEF CallType
  <2> HIDE DEF rec
  <2> QED BY <1>2, <2>1, <2>2
<1>6. ASSUME NEW c \in Clients, Select(c) PROVE [Store!Next]_(Store!vars)
  <2>1. PICK pc \in {"insert", "update"} : call' = [call EXCEPT ![c] = [call[c] EXCEPT !.pc = pc]]
    BY <1>6 DEF Select, Goto
  <2>2. ~At(c, "idle") /\ UNCHANGED <<now, table>>
    BY <1>6 DEF Select, At
  <2>3. [call[c] EXCEPT !.pc = pc].pc # "idle" /\ [call[c] EXCEPT !.pc = pc].at = call[c].at
    BY <1>1 DEF CallType
  <2> QED BY <1>2, <2>1, <2>2, <2>3
<1>7. ASSUME NEW c \in Clients, Insert(c) PROVE Store!Next
  <2> DEFINE k == call[c].key
             e == call[c].clock + Period
             row == Row(nextId, 1, e)
  <2>1. k \in Counters /\ k \in Keys /\ call[c].clock \in Nat /\ e \in Nat
        /\ call[c].pc \in {"insert", "update"}
    BY <1>0, <1>1, <1>7 DEF Insert, At, CallKnown, CallType, Keys
  <2>2. row \in RowType /\ row.value = 1 /\ row.expiresAt = e
    BY <1>0, <2>1 DEF Row, RowType
  <2>3. table' = [table EXCEPT ![k] = row] /\ table[k] = None /\ now' = now /\ Return(c)
    BY <1>7 DEF Insert, Answer
  <2>4. Shown[k] = None
    BY <2>1, <2>3 DEF Shown
  <2>5. [value |-> 1, expiresAt |-> e] \in Store!Incremented(Shown[k], call[c].clock)
    BY <2>4 DEF Store!Incremented, Store!MayBeGone, Store!Entry
  <2> HIDE DEF row, e
  <2> QED BY <2>1, <2>2, <2>3, <2>5, IncrementShown
<1>8. ASSUME NEW c \in Clients, Update(c) PROVE Store!Next
  <2> DEFINE k == call[c].key
             row == table[k]
             fresh == Expired(row, call[c].clock)
             count == IF fresh THEN 1 ELSE row.value + 1
             e == IF fresh THEN call[c].clock + Period ELSE row.expiresAt
             new == Row(row.id, count, e)
  <2>1. k \in Counters /\ k \in Keys /\ call[c].clock \in Nat /\ call[c].pc \in {"insert", "update"}
        /\ At(c, "update")
    BY <1>1, <1>8 DEF Update, At, CallKnown, CallType, Keys
  <2>2. row \in RowType /\ row.value \in Nat /\ row # None
    BY <2>1 DEF StatementInv, RowHeld, RowTypes, Keys
  <2>3. row.id \in Nat /\ row.expiresAt \in Nat
    BY <2>2 DEF RowType
  <2>4. table' = [table EXCEPT ![k] = new] /\ now' = now /\ Return(c)
    BY <1>8 DEF Update, Answer
  <2>5. /\ Shown[k].value = row.value /\ Shown[k].expiresAt = row.expiresAt
        /\ fresh => Store!MayBeGone(Shown[k], call[c].clock)
        /\ ~fresh => Store!MayCount(Shown[k], call[c].clock)
    BY <2>1, <2>2, ShownRow
  <2> HIDE DEF row, fresh, k
  <2>6. count \in Nat /\ e \in Nat
    BY <1>0, <2>1, <2>2, <2>3
  <2>7. [value |-> count, expiresAt |-> e] \in Store!Incremented(Shown[k], call[c].clock)
    <3>1. CASE fresh
      BY <2>5, <3>1 DEF Store!Incremented, Store!Entry
    <3>2. CASE ~fresh
      BY <2>5, <3>2 DEF Store!Incremented, Store!Entry
    <3> QED BY <3>1, <3>2
  <2> HIDE DEF count, e
  <2>8. new \in RowType /\ new.value = count /\ new.expiresAt = e
    BY <2>3, <2>6 DEF Row, RowType
  <2> HIDE DEF new
  <2> QED BY <2>1, <2>4, <2>7, <2>8, IncrementShown
<1>9. ASSUME NEW c \in Clients, InsertConflict(c) PROVE [Store!Next]_(Store!vars)
  BY <1>3, <1>9 DEF InsertConflict, At
<1>10. ASSUME NEW c \in Clients, IncrementError(c) PROVE [Store!Next]_(Store!vars)
  <2>1. ~At(c, "idle") /\ UNCHANGED <<now, table>>
    BY <1>10 DEF IncrementError, At
  <2> QED BY <1>3, <1>10, <2>1, ReturnShown DEF IncrementError
<1>11. ASSUME NEW c \in Clients, Lookup(c) PROVE [Store!Next]_(Store!vars)
  <2> DEFINE row == table[call[c].key]
             rec == [call[c] EXCEPT !.pc = "judge", !.row = row]
  <2>1. call' = [call EXCEPT ![c] = rec] /\ ~At(c, "idle") /\ UNCHANGED <<now, table>>
    BY <1>1, <1>11 DEF Lookup, At
  <2>2. rec.pc # "idle" /\ rec.at = call[c].at
    BY <1>1 DEF CallType
  <2> HIDE DEF rec
  <2> QED BY <1>2, <2>1, <2>2
<1>12. ASSUME NEW c \in Clients, Judge(c) PROVE [Store!Next]_(Store!vars)
  <2>1. ~At(c, "idle") /\ UNCHANGED <<now, table>>
    BY <1>12 DEF Judge, At
  <2>2. CASE Return(c)
    BY <2>1, <2>2, ReturnShown
  <2>3. CASE call' = [call EXCEPT ![c].pc = "evict", ![c].row = None]
    <3> DEFINE rec == [call[c] EXCEPT !.pc = "evict", !.row = None]
    <3>1. call' = [call EXCEPT ![c] = rec]
      BY <1>1, <2>3
    <3>2. rec.pc # "idle" /\ rec.at = call[c].at
      BY <1>1 DEF CallType
    <3> HIDE DEF rec
    <3> QED BY <1>2, <2>1, <3>1, <3>2
  <2> QED BY <1>12, <2>2, <2>3 DEF Judge
<1>13. ASSUME NEW c \in Clients, Evict(c) PROVE Store!Next
  <2>1. {call[c].key} \in SUBSET Keys /\ ~At(c, "idle") /\ Return(c)
    BY <1>1, <1>13 DEF Evict, At, CallKnown, Keys
  <2>2. Live({call[c].key}) = {}
    BY <1>13 DEF Evict
  <2>3. DeleteRows({call[c].key}) /\ now' = now
    BY <1>13 DEF Evict
  <2> QED BY <2>1, <2>2, <2>3, EvictShown
<1>14. ASSUME NEW c \in Clients, Write(c) PROVE Store!Next
  <2> DEFINE k == call[c].key
  <2>1. /\ k \in Pages /\ k \in Keys /\ call[c].clock \in Nat /\ ~At(c, "idle")
        /\ call[c].at \in Nat /\ call[c].at <= call[c].clock /\ call[c].clock <= now
    BY <1>1, <1>14 DEF Write, At, CallKnown, CallType, Keys
  <2>2. PICK v \in Values, e \in {0, call[c].clock + Period} :
          table' = [table EXCEPT ![k] = Row(IF table[k] = None THEN nextId ELSE table[k].id, v, e)]
    BY <1>14 DEF Write
  <2> DEFINE id == IF table[k] = None THEN nextId ELSE table[k].id
  <2>3. id \in Nat /\ e \in Nat
    BY <1>0, <2>1 DEF StatementInv, RowTypes, RowType
  <2>4. Row(id, v, e) \in RowType /\ Row(id, v, e).value = v /\ Row(id, v, e).expiresAt = e
    BY <2>3 DEF Row, RowType
  <2>5. Shown' = [Shown EXCEPT ![k] = [value |-> v, expiresAt |-> e]]
    BY <2>1, <2>2, <2>4, ShownPut
  <2>6. Since[c] # None /\ Since[c] = call[c].at /\ Since' = [Since EXCEPT ![c] = None] /\ now' = now
    BY <1>14, <2>1, SinceReturned DEF Write
  <2>7. call[c].clock \in Since[c] .. now
    BY <1>0, <2>1, <2>6
  <2>8. e \in {0} \cup {t + Period : t \in Since[c] .. now}
    BY <2>7
  <2> HIDE DEF k
  <2>9. Store!Write(c, k, v)
    BY <2>5, <2>6, <2>8
       DEF Store!Write, Store!Readings, Store!Put, Store!Entry, Shown, Since, Keys
  <2> QED BY <2>1, <2>9 DEF Store!Next
<1>15. ASSUME NEW c \in Clients, Delete(c) PROVE Store!Next
  <2>1. call[c].key \in Keys /\ {call[c].key} \in SUBSET Keys /\ ~At(c, "idle")
    BY <1>1, <1>15 DEF Delete, At, CallKnown
  <2>2. PICK k \in Keys : k = call[c].key
    BY <2>1
  <2>3. Remove(c, {k})
    BY <1>15, <2>2 DEF Delete, Remove, Unlocked, DeleteRows
  <2>4. Store!Delete(c, {k})
    BY <2>1, <2>3, RemoveShown
  <2> QED BY <2>4 DEF Store!Next, Store!Keys, Keys
<1>16. ASSUME NEW c \in Clients, Clear(c) PROVE Store!Next
  <2>1. ~At(c, "idle") /\ Remove(c, Keys)
    BY <1>16 DEF Clear, At, Keys
  <2>2. Store!Delete(c, Keys)
    BY <2>1, RemoveShown
  <2> QED BY <2>2 DEF Store!Next, Store!Keys, Keys
<1>17. ASSUME NEW c \in Clients, CallError(c) PROVE Store!Next
  <2>1. ~At(c, "idle") /\ UNCHANGED <<now, table>> /\ Return(c)
    BY <1>17 DEF CallError, At
  <2> QED BY <2>1, ReturnShown
<1>18. CASE SweepDelete
  <2> DEFINE ks == {k \in Keys : table[k] # None /\ table[k].id \in sweep.ids}
  <2>1. ks \in SUBSET Keys
    OBVIOUS
  <2>2. DeleteRows(ks) /\ raced' = raced \cup Live(ks) /\ UNCHANGED <<now, call>>
    BY <1>18 DEF SweepDelete, Keys
  <2> HIDE DEF ks
  <2>3. Live(ks) = {}
    BY <2>2
  <2> QED BY <2>1, <2>2, <2>3, EvictShown
<1>19. CASE Tick
  <2>1. now' = now + 1 /\ Shown' = Shown /\ Since' = Since
    BY <1>19 DEF Tick, Shown, Since, At
  <2> QED BY <2>1 DEF Store!Next, Store!Tick, Shown, Since, Keys
<1>20. CASE StartSweep \/ SweepSelect \/ SweepError \/ Cancel \/ UNCHANGED vars
  <2>1. UNCHANGED <<now, table, call>>
    BY <1>20 DEF StartSweep, SweepSelect, SweepError, Cancel, vars
  <2>2. UNCHANGED <<now, Shown, Since>>
    BY <2>1 DEF Shown, Since, At
  <2> QED BY <2>2, NothingShown
<1> QED BY <1>4, <1>5, <1>6, <1>7, <1>8, <1>9, <1>10, <1>11, <1>12, <1>13, <1>14, <1>15,
           <1>16, <1>17, <1>18, <1>19, <1>20 DEF Next, Step, IncrementStep, SweepStep

\* As long as no eviction has taken a row that still counted, every statement of
\* the backend in a database is a step of the contract of cache.Store or changes
\* nothing of the store: Increment's transactions, tried again or not, look
\* atomic, lookup and sweep remove only what has expired, and a call that fails
\* has either taken effect once or not at all.
THEOREM DatabaseKeepsContract == Spec => ContractUnlessRaced
<1>1. Init => StatementInv
  BY StatementStart
<1>2. StatementInv /\ [Next]_(vars) => StatementInv'
  BY StatementStep
<1>3. StatementInv /\ [Next]_(vars)
        => [raced' = {} => [Store!Next]_(Store!vars)]_(vars)
  BY ContractStep
<1> QED BY <1>1, <1>2, <1>3, PTL DEF Spec, ContractUnlessRaced
=============================================================================
