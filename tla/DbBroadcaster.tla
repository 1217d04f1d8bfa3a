--------------------------- MODULE DbBroadcaster ---------------------------
(***************************************************************************)
(* The database Broadcaster (channels/backend/database).  Publish inserts  *)
(* a row; every process polls the table from a cursor on and hands what it *)
(* finds to its own subscribers; each also trims rows past their           *)
(* retention.  This is one process's Backend; publishers and trims of      *)
(* other processes share the table with it.                                *)
(*                                                                         *)
(* Parts of a method between taking and giving up Backend.mu are one step, *)
(* and so is a statement.  An INSERT takes its id when it runs and is seen *)
(* when it commits, so ids can commit out of order.                        *)
(***************************************************************************)
EXTENDS Naturals, SequencesExt, FiniteSetsExt

CONSTANTS
  Subscriptions, Publishers, Topics,
  BatchSize,    \* WithBatchSize
  TrimBatch,    \* WithTrimBatchSize
  BufferSize,   \* defaultSubscriptionBuffer
  MaxRows,      \* bound on the rows inserted
  MaxDbFaults   \* bound on the polls and trims that fail

VARIABLES
  rows,       \* committed rows
  stale,      \* ids of the rows past their retention
  lastRow,    \* the last id given out
  publish,    \* Publish calls: their phase, with the row
  cursor,
  loop,       \* where Run is, with what its last SELECT returned
  subs,       \* Backend.subs: the subscriptions that deliver sends to
  sub,        \* subscriptions: phase, topic and channel
  backend,    \* the Backend is not there yet, open or closed
  closing,    \* subscriptions that Close has taken and not ended yet
  dbFaults,
  owed,       \* history: the ids each subscription has still to get
  late,       \* history: the ids that committed when Run was past them
  arrived     \* history: the ids that each subscription's channel was sent

vars == <<rows, stale, lastRow, publish, cursor, loop, subs, sub, backend, closing, dbFaults,
          owed, late, arrived>>

Ids == 1 .. MaxRows
Idle == [pc |-> "idle", got |-> <<>>]
NoSubscription == [pc |-> "new", topic |-> "", messages |-> <<>>]
NoPublish == [pc |-> "idle", row |-> [id |-> 0, topic |-> ""]]

Init ==
  /\ rows = {} /\ stale = {} /\ lastRow = 0
  /\ publish = [p \in Publishers |-> NoPublish]
  /\ cursor = 0 /\ loop = Idle
  /\ subs = {} /\ backend = "new" /\ closing = {}
  /\ sub = [s \in Subscriptions |-> NoSubscription]
  /\ dbFaults = 0
  /\ owed = [s \in Subscriptions |-> {}] /\ late = {}
  /\ arrived = [s \in Subscriptions |-> <<>>]

IdsOf(R) == {r.id : r \in R}

\* New: the cursor starts at the newest row there is.
New ==
  /\ backend = "new"
  /\ backend' = "open"
  /\ cursor' = Max(IdsOf(rows) \cup {0})
  /\ UNCHANGED <<rows, stale, lastRow, publish, loop, subs, sub, closing, dbFaults, owed, late, arrived>>

-----------------------------------------------------------------------------
(* Publish                                                                 *)

\* Publish finds its Backend open, this one or another process's, and runs the
\* INSERT, whether or not the Backend was closed since the check.
Insert(p) ==
  /\ publish[p].pc = "idle" /\ lastRow < MaxRows
  /\ lastRow' = lastRow + 1
  /\ \E t \in Topics :
       publish' = [publish EXCEPT ![p] = [pc |-> "inserted", row |-> [id |-> lastRow + 1, topic |-> t]]]
  /\ UNCHANGED <<rows, stale, cursor, loop, subs, sub, backend, closing, dbFaults, owed, late, arrived>>

\* The rows poll has read and not delivered yet.
Batch == IF loop.pc = "deliver" THEN ToSet(loop.got) ELSE {}

\* No SELECT to come returns a row of this id.
Passed(i) == \E j \in IdsOf(Batch) \cup {cursor} : i <= j

\* The row becomes visible, and the subscriptions of its topic are owed it.  An
\* INSERT that ran later may have committed and been read before: the cursor is
\* past this row then.
Commit(p) ==
  LET r == publish[p].row IN
  /\ publish[p].pc = "inserted"
  /\ rows' = rows \cup {r}
  /\ publish' = [publish EXCEPT ![p] = NoPublish]
  /\ owed' = [s \in Subscriptions |->
       owed[s] \cup {i \in {r.id} : s \in subs /\ sub[s].topic = r.topic}]
  /\ late' = late \cup {i \in {r.id} : Passed(i)}
  /\ UNCHANGED <<stale, lastRow, cursor, loop, subs, sub, backend, closing, dbFaults, arrived>>

-----------------------------------------------------------------------------
(* Subscribe, Unsubscribe, Close                                           *)

\* Subscribe returns ErrClosed once the Backend is closed.  It is owed the rows
\* that are there and not delivered yet.
Subscribe(s) ==
  /\ sub[s].pc = "new" /\ backend = "open"
  /\ \E t \in Topics :
       /\ sub' = [sub EXCEPT ![s] = [pc |-> "open", topic |-> t, messages |-> <<>>]]
       /\ owed' = [owed EXCEPT ![s] =
            IdsOf({r \in rows \cup Batch : r.topic = t /\ (r \in Batch \/ ~Passed(r.id))})]
  /\ subs' = subs \cup {s}
  /\ UNCHANGED <<rows, stale, lastRow, publish, cursor, loop, backend, closing, dbFaults, late, arrived>>

\* What Unsubscribe does once: leave the map under the lock ...
Leave(s) ==
  /\ sub[s].pc = "open" /\ s \in subs
  /\ subs' = subs \ {s}
  /\ sub' = [sub EXCEPT ![s].pc = "left"]
  /\ owed' = [owed EXCEPT ![s] = {}]
  /\ UNCHANGED <<rows, stale, lastRow, publish, cursor, loop, backend, closing, dbFaults, late, arrived>>

\* ... then close the channel; the messages in it can still be read.
End(s) ==
  /\ sub[s].pc = "left"
  /\ sub' = [sub EXCEPT ![s].pc = "closed"]
  /\ UNCHANGED <<rows, stale, lastRow, publish, cursor, loop, subs, backend, closing, dbFaults,
                 owed, late, arrived>>

\* Close, under the lock, takes all subscriptions.  A second call returns.
Close ==
  /\ backend = "open"
  /\ backend' = "closed"
  /\ closing' = subs
  /\ subs' = {}
  /\ owed' = [s \in Subscriptions |-> {}]
  /\ UNCHANGED <<rows, stale, lastRow, publish, cursor, loop, sub, dbFaults, late, arrived>>

\* Close, after it, ends them one by one; so does a caller's own Unsubscribe.
CloseOne(s) ==
  /\ s \in closing
  /\ closing' = closing \ {s}
  /\ sub' = [sub EXCEPT ![s].pc = "left"]
  /\ UNCHANGED <<rows, stale, lastRow, publish, cursor, loop, subs, backend, dbFaults, owed, late, arrived>>

\* The subscriber takes a message from its channel.
Receive(s) ==
  /\ sub[s].messages # <<>>
  /\ sub' = [sub EXCEPT ![s].messages = Tail(@)]
  /\ UNCHANGED <<rows, stale, lastRow, publish, cursor, loop, subs, backend, closing, dbFaults,
                 owed, late, arrived>>

-----------------------------------------------------------------------------
(* Run: polls and trims, one at a time                                     *)

Sequences(n, R) == UNION {[1 .. k -> R] : k \in 0 .. n}
SortedById(q) == \A i, j \in DOMAIN q : i < j => q[i].id < q[j].id

\* Variant: newest first.
FirstOf_newest(n, R) ==
  CHOOSE q \in Sequences(n, R) :
    /\ SortedById(q)
    /\ \A r \in R \ ToSet(q) : Len(q) = n /\ \A x \in ToSet(q) : x.id > r.id

\* The first n rows of R, by id: all of R, or n rows and then the others.
FirstOf(n, R) ==
  CHOOSE q \in Sequences(n, R) :
    /\ SortedById(q)
    /\ \A r \in R \ ToSet(q) : Len(q) = n /\ \A x \in ToSet(q) : x.id < r.id

\* poll's SELECT: a batch of the rows after the cursor.
PollSelect ==
  LET unread == {r \in rows : r.id > cursor} IN
  /\ backend # "new" /\ loop.pc = "idle"
  /\ unread # {}
  /\ loop' = [pc |-> "deliver", got |-> FirstOf(BatchSize, unread)]
  /\ UNCHANGED <<rows, stale, lastRow, publish, cursor, subs, sub, backend, closing, dbFaults,
                 owed, late, arrived>>

\* What of the batch the channel of s takes: the rows of its topic, until it is
\* full.
Sent(s) ==
  LET mine == FirstOf(BufferSize - Len(sub[s].messages), {r \in Batch : r.topic = sub[s].topic})
  IN  [k \in DOMAIN mine |-> mine[k].id]

\* cursor = rows[len(rows)-1].ID
NextCursor == Last(loop.got).id

\* deliver, under the lock, and the cursor.  The next SELECT comes at once after
\* a full batch, else with the next tick.
Deliver ==
  /\ loop.pc = "deliver"
  /\ sub' = [s \in Subscriptions |->
       IF s \in subs THEN [sub[s] EXCEPT !.messages = @ \o Sent(s)] ELSE sub[s]]
  /\ arrived' = [s \in Subscriptions |-> IF s \in subs THEN arrived[s] \o Sent(s) ELSE arrived[s]]
  /\ owed' = [s \in Subscriptions |-> owed[s] \ IdsOf(Batch)]
  /\ cursor' = NextCursor
  /\ loop' = Idle
  /\ UNCHANGED <<rows, stale, lastRow, publish, subs, backend, closing, dbFaults, late>>

\* trim's SELECT: up to a batch of the rows past their retention, oldest first.
TrimSelect ==
  LET old == {r \in rows : r.id \in stale} IN
  /\ backend # "new" /\ loop.pc = "idle"
  /\ old # {}
  /\ \E R \in kSubset(IF TrimBatch < Cardinality(old) THEN TrimBatch ELSE Cardinality(old), old) :
       loop' = [pc |-> "trim", got |-> SetToSeq(R)]
  /\ UNCHANGED <<rows, stale, lastRow, publish, cursor, subs, sub, backend, closing, dbFaults,
                 owed, late, arrived>>

\* Rows that are deleted before Run has read them are owed to nobody.
Vanish(R) ==
  /\ rows' = rows \ R
  /\ owed' = [s \in Subscriptions |-> owed[s] \ (IdsOf(R) \ IdsOf(Batch))]

\* trim's DELETE.
TrimDelete ==
  /\ loop.pc = "trim"
  /\ Vanish(ToSet(loop.got))
  /\ loop' = Idle
  /\ UNCHANGED <<stale, lastRow, publish, cursor, subs, sub, backend, closing, dbFaults, late, arrived>>

\* Any of these statements fails: logged, and the next tick tries again.
StatementFails ==
  /\ dbFaults < MaxDbFaults /\ loop.pc \in {"idle", "trim"} /\ backend # "new"
  /\ dbFaults' = dbFaults + 1
  /\ loop' = Idle
  /\ UNCHANGED <<rows, stale, lastRow, publish, cursor, subs, sub, backend, closing, owed, late, arrived>>

\* Another process's trim deletes stale rows.
TrimElsewhere ==
  /\ \E R \in SUBSET {r \in rows : r.id \in stale} : R # {} /\ Vanish(R)
  /\ UNCHANGED <<stale, lastRow, publish, cursor, loop, subs, sub, backend, closing, dbFaults, late, arrived>>

\* A row's retention ends.  (Its time stamp is its publisher's.)
GrowStale(i) ==
  /\ i \in IdsOf(rows) \ stale
  /\ stale' = stale \cup {i}
  /\ UNCHANGED <<rows, lastRow, publish, cursor, loop, subs, sub, backend, closing, dbFaults,
                 owed, late, arrived>>

Next ==
  \/ New \/ Close \/ PollSelect \/ Deliver \/ TrimSelect \/ TrimDelete \/ StatementFails \/ TrimElsewhere
  \/ \E p \in Publishers : Insert(p) \/ Commit(p)
  \/ \E s \in Subscriptions : Subscribe(s) \/ Leave(s) \/ End(s) \/ CloseOne(s) \/ Receive(s)
  \/ \E i \in Ids : GrowStale(i)

Spec == Init /\ [][Next]_vars

-----------------------------------------------------------------------------
(* Properties                                                              *)

\* Run has read the row and is about to send it, or it will.
IsAhead(i) == i \in IdsOf(Batch) \/ (i \in IdsOf(rows) /\ i > cursor)

\* Subscribe's promise: a subscription receives every payload published to its
\* topic from the next poll on.  So what it is owed is still ahead of the cursor
\* (that Run reads on is its ticker's doing).  The code breaks it with two INSERTs
\* that commit in the other order than they took their ids, when a poll, or New,
\* falls between the commits.
EveryPayload == \A s \in Subscriptions : \A i \in owed[s] : IsAhead(i)

\* What of it the code keeps: but for the rows that committed when the cursor had
\* passed them, which nobody gets, full and partial batches, failed polls, trims
\* and subscriptions that come and go never make Run skip a row.
OwedIsAhead ==
  \A s \in Subscriptions : \A i \in owed[s] : s \in subs /\ (i \in late \/ IsAhead(i))

\* deliver never sends on a channel that Unsubscribe or Close has closed (which
\* would panic, in the goroutine that serves everybody), and a subscription gets
\* each payload once, in the order of the ids.
SentOnceInOrder ==
  /\ \A s \in subs : sub[s].pc = "open" /\ s \notin closing
  /\ \A s \in Subscriptions : \A k, l \in DOMAIN arrived[s] :
       k < l => arrived[s][k] < arrived[s][l]

\* Polling from a cursor (poll, deliver) skips no row but those that commit after
\* the cursor has passed their ids (EveryPayload), and sends none twice.
DeliveredOnce == OwedIsAhead /\ SentOnceInOrder
=============================================================================
