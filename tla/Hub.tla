-------------------------------- MODULE Hub --------------------------------
(***************************************************************************)
(* The realtime hub (channels/hub.go, conn.go, sse.go) over the in-process *)
(* Broadcaster (channels/backend/memory).  Connections subscribe to a      *)
(* channel; the channel's Subscribed or Receive streams from a topic; one  *)
(* fanout per topic holds a Broadcaster subscription and a pump goroutine  *)
(* that copies each payload to the outboxes of its subscribers.            *)
(*                                                                         *)
(* Every part of a method that holds Hub.mu is one step; requests, pumps   *)
(* and application callbacks interleave between those steps.  All          *)
(* subscriptions use one channel name and one topic: other names and       *)
(* topics share only the mutex with them.                                  *)
(***************************************************************************)
EXTENDS Naturals, Sequences, FiniteSets

CONSTANTS
  Conns,        \* client connections
  Calls,        \* Subscribe calls; a call also names the Subscriber it creates
  NoConn, NoCall,
  OutboxSize,   \* defaultOutboxSize
  BufferSize,   \* defaultSubscriptionBuffer of the Broadcaster
  MaxMsgs,      \* bound on the payloads published
  MaxFanouts    \* bound on the fanouts made for the topic

ASSUME HubAssumption ==
  /\ NoConn \notin Conns /\ NoCall \notin Calls
  /\ OutboxSize \in Nat \ {0} /\ BufferSize \in Nat \ {0} /\ MaxMsgs \in Nat
  /\ MaxFanouts \in Nat

VARIABLES
  conn,       \* connections: not yet there, up, or down
  subs,       \* Conn.subs: the subscriber under the channel name, if any
  call,       \* progress of the Subscribe calls, and the connection of each
  tearing,    \* subscribers taken out of subs and about to be torn down
  receiving,  \* subscribers whose Channel.Receive is running
  fan,        \* the topic's entry of Hub.topics (on, or not there), with the
              \* buffer of its Broadcaster subscription
  pump,       \* per fanout ever made: the payload its pump sends and to whom yet
  outbox,     \* number of messages waiting in each connection's outbox
  published,  \* number of payloads published; they are numbered from 1
  bclosed,    \* the Broadcaster is closed
  hooks,      \* history: how often Unsubscribed was called for each subscriber
  fate,       \* history: what became of each payload for each subscriber
  raced       \* history: a subscription was torn down while a callback of it ran

vars == <<conn, subs, call, tearing, receiving, fan, pump, outbox, published,
          bclosed, hooks, fate, raced>>

Msgs == 1 .. MaxMsgs
Gens == 0 .. MaxFanouts

CallPcs == {"new", "checked", "subscribing", "rejecting", "live", "failed"}
Fates == {"none", "owed", "got", "lost"}

TypeOK ==
  /\ conn \in [Conns -> {"none", "up", "down"}]
  /\ subs \in [Conns -> Calls \cup {NoCall}]
  /\ call \in [Calls -> [pc: CallPcs, conn: Conns \cup {NoConn}]]
  /\ tearing \subseteq Calls
  /\ receiving \subseteq Calls
  /\ fan \in [on: BOOLEAN, gen: Gens, subs: SUBSET Calls, buf: Seq(Msgs)]
  /\ Len(fan.buf) <= BufferSize
  /\ pump \in [Gens -> [msg: Msgs \cup {0}, to: SUBSET Calls]]
  /\ outbox \in [Conns -> 0 .. OutboxSize]
  /\ published \in 0 .. MaxMsgs
  /\ bclosed \in BOOLEAN
  /\ hooks \in [Calls -> Nat]
  /\ fate \in [Calls -> [Msgs -> Fates]]
  /\ raced \in BOOLEAN

Init ==
  /\ conn = [c \in Conns |-> "none"]
  /\ subs = [c \in Conns |-> NoCall]
  /\ call = [s \in Calls |-> [pc |-> "new", conn |-> NoConn]]
  /\ tearing = {}
  /\ receiving = {}
  /\ fan = [on |-> FALSE, gen |-> 0, subs |-> {}, buf |-> <<>>]
  /\ pump = [g \in Gens |-> [msg |-> 0, to |-> {}]]
  /\ outbox = [c \in Conns |-> 0]
  /\ published = 0
  /\ bclosed = FALSE
  /\ hooks = [s \in Calls |-> 0]
  /\ fate = [s \in Calls |-> [m \in Msgs |-> "none"]]
  /\ raced = FALSE

connOf(s) == call[s].conn

-----------------------------------------------------------------------------
(* Connect and Subscribe                                                   *)

\* handleConnect opens a stream.
Connect(c) ==
  /\ conn[c] = "none"
  /\ conn' = [conn EXCEPT ![c] = "up"]
  /\ UNCHANGED <<subs, call, tearing, receiving, fan, pump, outbox, published,
                 bclosed, hooks, fate, raced>>

\* Subscribe under the first lock: the connection is known and has no
\* subscription of that name (else it returns an error).
CheckSubscribe(s, c) ==
  /\ call[s].pc = "new" /\ conn[c] = "up" /\ subs[c] = NoCall
  /\ call' = [call EXCEPT ![s] = [pc |-> "checked", conn |-> c]]
  /\ UNCHANGED <<conn, subs, tearing, receiving, fan, pump, outbox, published,
                 bclosed, hooks, fate, raced>>

\* Variant: no second look.
AddSubUnchecked(s) ==
  LET c == connOf(s) IN
  /\ call[s].pc = "checked"
  /\ subs' = [subs EXCEPT ![c] = s]
  /\ call' = [call EXCEPT ![s].pc = "subscribing"]
  /\ raced' = (raced \/ conn[c] # "up")
  /\ UNCHANGED <<conn, tearing, receiving, fan, pump, outbox, published, bclosed,
                 hooks, fate>>

\* Subscribe under the second lock: subs is checked again, conns is not.
AddSub(s) ==
  LET c == connOf(s) IN
  /\ call[s].pc = "checked"
  /\ IF subs[c] = NoCall
     THEN /\ subs' = [subs EXCEPT ![c] = s]
          /\ call' = [call EXCEPT ![s].pc = "subscribing"]
          /\ raced' = (raced \/ conn[c] # "up")
     ELSE /\ call' = [call EXCEPT ![s].pc = "failed"]
          /\ UNCHANGED <<subs, raced>>
  /\ UNCHANGED <<conn, tearing, receiving, fan, pump, outbox, published, bclosed,
                 hooks, fate>>

\* Variant: every StreamFrom makes a fanout of its own.
StreamFromAnew(s) ==
  /\ call[s].pc = "subscribing" \/ s \in receiving
  /\ ~bclosed /\ s \notin fan.subs /\ fan.gen + 1 \in Gens
  /\ fan' = [on |-> TRUE, gen |-> fan.gen + 1, subs |-> {s}, buf |-> <<>>]
  /\ UNCHANGED <<conn, subs, call, tearing, receiving, pump, outbox, published,
                 bclosed, hooks, fate, raced>>

\* StreamFrom, called by Subscribed or Receive: join the topic's fanout, or
\* make one.  (With the Broadcaster closed a new one is an error.)
StreamFrom(s) ==
  /\ call[s].pc = "subscribing" \/ s \in receiving
  /\ s \notin fan.subs
  /\ \/ fan.on /\ fan' = [fan EXCEPT !.subs = @ \cup {s}]
     \/ /\ ~fan.on /\ ~bclosed /\ fan.gen + 1 \in Gens
        /\ fan' = [on |-> TRUE, gen |-> fan.gen + 1, subs |-> {s}, buf |-> <<>>]
  /\ UNCHANGED <<conn, subs, call, tearing, receiving, pump, outbox, published,
                 bclosed, hooks, fate, raced>>

SubscribedOk(s) ==
  /\ call[s].pc = "subscribing"
  /\ call' = [call EXCEPT ![s].pc = "live"]
  /\ UNCHANGED <<conn, subs, tearing, receiving, fan, pump, outbox, published,
                 bclosed, hooks, fate, raced>>

\* Subscribed returned an error: delete whatever is under the channel name ...
SubscribedErr(s) ==
  /\ call[s].pc = "subscribing"
  /\ subs' = [subs EXCEPT ![connOf(s)] = NoCall]
  /\ call' = [call EXCEPT ![s].pc = "rejecting"]
  /\ raced' = (raced \/ subs[connOf(s)] # s \/ s \in receiving)
  /\ UNCHANGED <<conn, tearing, receiving, fan, pump, outbox, published, bclosed,
                 hooks, fate>>

\* untrackTopics: leave the fanout; the last one unsubscribes from the
\* Broadcaster and removes it.
untrackTopics(s) ==
  /\ fan' = IF s \notin fan.subs THEN fan
            ELSE IF fan.subs = {s} THEN [fan EXCEPT !.on = FALSE, !.subs = {}, !.buf = <<>>]
            ELSE [fan EXCEPT !.subs = @ \ {s}]
  /\ fate' = [fate EXCEPT ![s] = [m \in Msgs |-> IF @[m] = "owed" THEN "none" ELSE @[m]]]

\* ... then untrack.
Reject(s) ==
  /\ call[s].pc = "rejecting"
  /\ untrackTopics(s)
  /\ call' = [call EXCEPT ![s].pc = "failed"]
  /\ UNCHANGED <<conn, subs, tearing, receiving, pump, outbox, published, bclosed,
                 hooks, raced>>

-----------------------------------------------------------------------------
(* Unsubscribe, Disconnect, Receive                                        *)

\* A callback of s is running.
Busy(s) == call[s].pc # "live" \/ s \in receiving

\* Both take the connection's subscriber, if any, out of subs under the lock
\* and tear it down after it.
TakeSub(c) ==
  LET s == subs[c] IN
  /\ subs' = [subs EXCEPT ![c] = NoCall]
  /\ tearing' = (tearing \cup {s}) \ {NoCall}
  /\ raced' = (raced \/ (s # NoCall /\ Busy(s)))

Unsubscribe(c) ==
  /\ conn[c] = "up" /\ subs[c] # NoCall
  /\ TakeSub(c)
  /\ UNCHANGED <<conn, call, receiving, fan, pump, outbox, published, bclosed,
                 hooks, fate>>

\* Variant: the subscriptions are only forgotten.
DisconnectForget(c) ==
  /\ conn[c] = "up"
  /\ conn' = [conn EXCEPT ![c] = "down"]
  /\ subs' = [subs EXCEPT ![c] = NoCall]
  /\ UNCHANGED <<call, tearing, receiving, fan, pump, outbox, published, bclosed,
                 hooks, fate, raced>>

\* The stream ends (client gone, or a write failed).
Disconnect(c) ==
  /\ conn[c] = "up"
  /\ conn' = [conn EXCEPT ![c] = "down"]
  /\ TakeSub(c)
  /\ UNCHANGED <<call, receiving, fan, pump, outbox, published, bclosed, hooks, fate>>

\* teardown: the channel's Unsubscribed, which touches nothing of the hub,
\* then untrackTopics.
Teardown(s) ==
  /\ s \in tearing
  /\ hooks' = [hooks EXCEPT ![s] = @ + 1]
  /\ untrackTopics(s)
  /\ tearing' = tearing \ {s}
  /\ UNCHANGED <<conn, subs, call, receiving, pump, outbox, published, bclosed, raced>>

\* Receive looks up the subscriber under the lock and calls its channel's
\* Receive after it.
BeginReceive(c) ==
  /\ conn[c] = "up" /\ subs[c] # NoCall /\ subs[c] \notin receiving
  /\ receiving' = receiving \cup {subs[c]}
  /\ UNCHANGED <<conn, subs, call, tearing, fan, pump, outbox, published, bclosed,
                 hooks, fate, raced>>

EndReceive(s) ==
  /\ s \in receiving
  /\ receiving' = receiving \ {s}
  /\ UNCHANGED <<conn, subs, call, tearing, fan, pump, outbox, published, bclosed,
                 hooks, fate, raced>>

-----------------------------------------------------------------------------
(* Broadcast, pump, stream                                                 *)

\* Broadcast: the Broadcaster puts the payload in its subscription's buffer,
\* or drops it when that is full.
Publish ==
  LET m == published + 1
      room == Len(fan.buf) < BufferSize
  IN
  /\ published < MaxMsgs /\ ~bclosed
  /\ published' = m
  /\ fan' = IF fan.on /\ room THEN [fan EXCEPT !.buf = Append(@, m)] ELSE fan
  /\ fate' = [s \in Calls |->
       IF s \in fan.subs THEN [fate[s] EXCEPT ![m] = IF room THEN "owed" ELSE "lost"]
       ELSE fate[s]]
  /\ UNCHANGED <<conn, subs, call, tearing, receiving, pump, outbox, bclosed, hooks, raced>>

\* Variant: a goroutine for every payload.
PumpTakeAsync ==
  /\ fan.on /\ fan.buf # <<>>
  /\ \E g \in Gens :
       /\ pump[g].msg = 0
       /\ pump' = [pump EXCEPT ![g] = [msg |-> Head(fan.buf), to |-> fan.subs]]
  /\ fan' = [fan EXCEPT !.buf = Tail(@)]
  /\ UNCHANGED <<conn, subs, call, tearing, receiving, outbox, published, bclosed,
                 hooks, fate, raced>>

\* The pump takes a payload and copies the subscribers under the lock.
PumpTake ==
  /\ fan.on /\ fan.buf # <<>> /\ pump[fan.gen].msg = 0
  /\ pump' = [pump EXCEPT ![fan.gen] = [msg |-> Head(fan.buf), to |-> fan.subs]]
  /\ fan' = [fan EXCEPT !.buf = Tail(@)]
  /\ UNCHANGED <<conn, subs, call, tearing, receiving, outbox, published, bclosed,
                 hooks, fate, raced>>

\* ... then offers it to one subscriber after the other, without the lock and
\* without waiting: a full outbox drops it.
PumpSend(g, s) ==
  LET m == pump[g].msg
      room == outbox[connOf(s)] < OutboxSize
      rest == pump[g].to \ {s}
  IN
  /\ s \in pump[g].to
  /\ outbox' = IF room THEN [outbox EXCEPT ![connOf(s)] = @ + 1] ELSE outbox
  /\ fate' = [fate EXCEPT ![s][m] = IF room THEN "got" ELSE "lost"]
  /\ pump' = [pump EXCEPT ![g] = [msg |-> IF rest = {} THEN 0 ELSE m, to |-> rest]]
  /\ UNCHANGED <<conn, subs, call, tearing, receiving, fan, published, bclosed,
                 hooks, raced>>

\* handleConnect's loop writes a message to the client.
WriteSSE(c) ==
  /\ conn[c] = "up" /\ outbox[c] > 0
  /\ outbox' = [outbox EXCEPT ![c] = @ - 1]
  /\ UNCHANGED <<conn, subs, call, tearing, receiving, fan, pump, published, bclosed,
                 hooks, fate, raced>>

\* The Broadcaster is closed: its subscriptions' channels are, too, and the
\* hub's fanout stays as it is.
CloseBroadcaster ==
  /\ ~bclosed
  /\ bclosed' = TRUE
  /\ UNCHANGED <<conn, subs, call, tearing, receiving, fan, pump, outbox, published,
                 hooks, fate, raced>>

SubscriberStep(s) ==
  \/ AddSub(s) \/ StreamFrom(s) \/ SubscribedOk(s) \/ SubscribedErr(s) \/ Reject(s)
  \/ Teardown(s) \/ EndReceive(s)

ConnStep(c) ==
  \/ Connect(c) \/ Unsubscribe(c) \/ Disconnect(c) \/ BeginReceive(c) \/ WriteSSE(c)

Next ==
  \/ \E c \in Conns : ConnStep(c) \/ \E s \in Calls : CheckSubscribe(s, c)
  \/ \E s \in Calls : SubscriberStep(s) \/ \E g \in Gens : PumpSend(g, s)
  \/ Publish \/ PumpTake \/ CloseBroadcaster

Spec == Init /\ [][Next]_vars

-----------------------------------------------------------------------------
(* Properties                                                              *)

\* Nothing is under way for the subscriptions of c.
Quiet(c) ==
  \A s \in Calls : connOf(s) = c =>
    /\ call[s].pc \in {"live", "failed"}
    /\ s \notin tearing \cup receiving

\* Once a connection is down and its requests are through, nothing of it is
\* left: no subscriber in a fanout, and Unsubscribed was called for every
\* subscription that had begun (StreamFrom: "the subscription is torn down
\* automatically when s's own subscription ends"; Channel.Unsubscribed "is called
\* once, when sub's subscription ends, whether by an explicit unsubscribe or the
\* owning connection disconnecting").
TornDownAfterDisconnect ==
  \A c \in Conns : conn[c] = "down" /\ Quiet(c) =>
    \A s \in Calls : connOf(s) = c =>
      s \notin fan.subs /\ (call[s].pc = "live" => hooks[s] = 1)

\* It holds as long as no subscription is torn down while its Subscribed or
\* Receive runs, and no Disconnect comes between the two halves of Subscribe.
TornDownUnlessRaced == ~raced => TornDownAfterDisconnect

\* Unsubscribed is never called twice for a subscription, whichever of
\* Unsubscribe and Disconnect get to it, and a connection never has two live
\* subscriptions under one channel name, although Subscribe gives up the lock
\* between its check and its entry.
OneSubscription ==
  /\ \A s \in Calls : hooks[s] <= 1
  /\ ~raced => \A s, t \in Calls :
       /\ s # t /\ connOf(s) = connOf(t) /\ connOf(s) # NoConn
       /\ {call[s].pc, call[t].pc} \subseteq {"subscribing", "live"}
       /\ hooks[s] = 0 /\ hooks[t] = 0 /\ {s, t} \cap tearing = {}
       => FALSE

\* A payload published while a subscriber streams from the topic is on its way
\* to the subscriber's outbox unless a full buffer or outbox dropped it: other
\* subscribers coming and going never lose it.
NoSilentLoss ==
  \A s \in Calls, m \in Msgs : fate[s][m] = "owed" =>
    \/ s \in fan.subs /\ \E i \in DOMAIN fan.buf : fan.buf[i] = m
    \/ pump[fan.gen].msg = m /\ s \in pump[fan.gen].to

\* A subscriber never gets a payload after a later one.
InOrder ==
  [][raced \/ \A s \in Calls, m \in Msgs :
       fate[s][m] # "got" /\ fate'[s][m] = "got" =>
         \A n \in Msgs : fate[s][n] = "got" => n < m]_vars
=============================================================================
