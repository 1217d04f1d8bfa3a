----------------------------- MODULE HubProofs -----------------------------
(***************************************************************************)
(* Proofs about the hub, for any number of connections, Subscribe calls,   *)
(* payloads and fanouts, and any sizes of the buffers.  Requests interleave *)
(* at every point where the code gives up Hub.mu, so the invariant says for *)
(* each place a subscriber can be referred to from (Conn.subs, a teardown   *)
(* under way, a running callback, a fanout, a pump's copy of the            *)
(* subscribers) what the other places then hold.                            *)
(***************************************************************************)
EXTENDS Hub, SequenceTheorems, TLAPS

-----------------------------------------------------------------------------
(* The inductive invariant.                                                *)

\* A connection is known for a call once it has passed Subscribe's check.
CallConn == \A s \in Calls : call[s].pc # "new" => call[s].conn \in Conns

\* The subscriber under the channel name is the connection's own, has begun
\* and has not ended.
SubsOwn ==
  \A c \in Conns : subs[c] # NoCall =>
    /\ connOf(subs[c]) = c
    /\ call[subs[c]].pc \in {"subscribing", "live"}
    /\ hooks[subs[c]] = 0
    /\ subs[c] \notin tearing

\* A subscription is torn down at most once, and not before it began.
Ends ==
  \A s \in Calls :
    /\ hooks[s] <= 1
    /\ s \in tearing => hooks[s] = 0 /\ call[s].pc \notin {"new", "checked"}
    /\ call[s].pc \in {"new", "checked"} => hooks[s] = 0 /\ s \notin fan.subs \cup receiving

\* As long as nothing raced: a connection that is not up has no subscriber; a
\* subscription with a callback running, and a live one that has not ended, is
\* under the channel name; and a subscriber of the fanout is there too, or about
\* to be untracked.
Unraced ==
  ~raced =>
    /\ \A c \in Conns : conn[c] # "up" => subs[c] = NoCall
    /\ \A s \in Calls :
         \/ call[s].pc = "subscribing"
         \/ s \in receiving
         \/ call[s].pc = "live" /\ hooks[s] = 0 /\ s \notin tearing
         => call[s].conn \in Conns /\ subs[connOf(s)] = s
    /\ \A s \in fan.subs :
         \/ call[s].pc = "rejecting"
         \/ call[s].conn \in Conns /\ subs[connOf(s)] = s
         \/ s \in tearing

SubInv == TypeOK /\ CallConn /\ SubsOwn /\ Ends /\ Unraced

\* A payload is owed only to subscribers of a fanout that is there.
Owing ==
  /\ ~fan.on => fan.subs = {}
  /\ \A s \in Calls, m \in Msgs : fate[s][m] = "owed" => s \in fan.subs

LossInv == Owing /\ NoSilentLoss

\* s may still be subscribed to the topic: its call is not through, or it is
\* under the channel name.
Streams(s) ==
  \/ call[s].pc \in {"new", "checked"}
  \/ call[s].conn \in Conns /\ subs[connOf(s)] = s

\* Payloads wait in the order they were published in, behind the one the
\* fanout's pump is sending.
Waiting ==
  /\ \A i, j \in DOMAIN fan.buf : i < j => fan.buf[i] < fan.buf[j]
  /\ \A i \in DOMAIN fan.buf : pump[fan.gen].msg < fan.buf[i] /\ fan.buf[i] <= published
  /\ \A g \in Gens : /\ pump[g].msg <= published
                     /\ pump[g].to # {} => pump[g].msg # 0
                     /\ g > fan.gen => pump[g].to = {} /\ pump[g].msg = 0

\* A subscriber is on one pump's list at most, and an abandoned fanout's pump
\* sends to subscribers that can no longer join another.
OnePump(s) ==
  \A g \in Gens : s \in pump[g].to =>
    /\ \A h \in Gens : s \in pump[h].to => g = h
    /\ g # fan.gen => s \notin fan.subs /\ ~Streams(s)

\* What a subscriber has got came before all that it can get, and one that has
\* yet to join has got nothing.
GotBefore(s) ==
  /\ \A n \in Msgs : fate[s][n] = "got" =>
       /\ n <= published
       /\ \A g \in Gens : s \in pump[g].to => n < pump[g].msg
       /\ s \in fan.subs => \A i \in DOMAIN fan.buf : n < fan.buf[i]
  /\ s \notin fan.subs /\ Streams(s) =>
       /\ \A n \in Msgs : fate[s][n] # "got"
       /\ \A g \in Gens : s \notin pump[g].to

Behind == ~raced => \A s \in Calls : OnePump(s) /\ GotBefore(s)

OrderInv == Waiting /\ Behind

-----------------------------------------------------------------------------
(* Type correctness.                                                       *)

LEMMA InitTypeOK == Init => TypeOK
<1> SUFFICES ASSUME Init PROVE TypeOK
  OBVIOUS
<1>1. <<>> \in Seq(Msgs) /\ Len(<<>>) = 0
  BY EmptySeq
<1>2. fan \in [on: BOOLEAN, gen: Gens, subs: SUBSET Calls, buf: Seq(Msgs)] /\ Len(fan.buf) <= BufferSize
  BY <1>1, HubAssumption DEF Init, Gens
<1>3. pump \in [Gens -> [msg: Msgs \cup {0}, to: SUBSET Calls]]
  BY DEF Init
<1>4. call \in [Calls -> [pc: CallPcs, conn: Conns \cup {NoConn}]]
  BY DEF Init, CallPcs
<1>5. fate \in [Calls -> [Msgs -> Fates]]
  BY DEF Init, Fates
<1>6. outbox \in [Conns -> 0 .. OutboxSize] /\ published \in 0 .. MaxMsgs
  BY HubAssumption DEF Init
<1>7. QED BY <1>2, <1>3, <1>4, <1>5, <1>6 DEF Init, TypeOK

Fan == [on: BOOLEAN, gen: Gens, subs: SUBSET Calls, buf: Seq(Msgs)]

\* A smaller set of subscribers, or an empty buffer, keeps the fanout's type.
LEMMA UntrackType ==
  ASSUME TypeOK, NEW s \in Calls, untrackTopics(s)
  PROVE  fan' \in Fan /\ Len(fan'.buf) <= BufferSize /\ fate' \in [Calls -> [Msgs -> Fates]]
<1>1. fan \in Fan /\ Len(fan.buf) <= BufferSize /\ fate \in [Calls -> [Msgs -> Fates]]
  BY DEF TypeOK, Fan
<1>2. fan' \in Fan /\ Len(fan'.buf) <= BufferSize
  <2>1. CASE s \notin fan.subs
    BY <1>1, <2>1 DEF untrackTopics
  <2>2. CASE s \in fan.subs /\ fan.subs = {s}
    <3>1. <<>> \in Seq(Msgs) /\ Len(<<>>) = 0
      BY EmptySeq
    <3>2. fan' = [fan EXCEPT !.on = FALSE, !.subs = {}, !.buf = <<>>]
      BY <2>2 DEF untrackTopics
    <3>3. fan'.buf = <<>>
      BY <1>1, <3>2 DEF Fan
    <3>4. fan' = [on |-> FALSE, gen |-> fan.gen, subs |-> {}, buf |-> <<>>]
      BY <1>1, <3>2 DEF Fan
    <3>5. fan' \in Fan
      BY <1>1, <3>1, <3>4 DEF Fan
    <3>6. QED BY <3>1, <3>3, <3>5, HubAssumption
  <2>3. CASE s \in fan.subs /\ fan.subs # {s}
    <3>1. fan' = [fan EXCEPT !.subs = @ \ {s}]
      BY <2>3 DEF untrackTopics
    <3>2. QED BY <1>1, <3>1 DEF Fan
  <2>4. QED BY <2>1, <2>2, <2>3
<1>3. fate' \in [Calls -> [Msgs -> Fates]]
  <2>1. [m \in Msgs |-> IF fate[s][m] = "owed" THEN "none" ELSE fate[s][m]] \in [Msgs -> Fates]
    BY <1>1 DEF Fates
  <2>2. fate' = [fate EXCEPT ![s] =
                   [m \in Msgs |-> IF fate[s][m] = "owed" THEN "none" ELSE fate[s][m]]]
    BY DEF untrackTopics
  <2>3. QED BY <1>1, <2>1, <2>2
<1>4. QED BY <1>2, <1>3

LEMMA StreamType ==
  ASSUME TypeOK, NEW s \in Calls, StreamFrom(s)
  PROVE  fan' \in Fan /\ Len(fan'.buf) <= BufferSize
<1>1. fan \in Fan /\ Len(fan.buf) <= BufferSize
  BY DEF TypeOK, Fan
<1>2. CASE fan' = [fan EXCEPT !.subs = @ \cup {s}]
  BY <1>1, <1>2 DEF Fan
<1>3. CASE fan.gen + 1 \in Gens /\ fan' = [on |-> TRUE, gen |-> fan.gen + 1, subs |-> {s}, buf |-> <<>>]
  <2>1. <<>> \in Seq(Msgs) /\ Len(<<>>) = 0
    BY EmptySeq
  <2>2. QED BY <1>3, <2>1, HubAssumption DEF Fan
<1>4. QED BY <1>2, <1>3 DEF StreamFrom

LEMMA PublishType ==
  ASSUME TypeOK, Publish
  PROVE  /\ published' \in 0 .. MaxMsgs
         /\ fan' \in Fan /\ Len(fan'.buf) <= BufferSize
         /\ fate' \in [Calls -> [Msgs -> Fates]]
<1> DEFINE m == published + 1
           room == Len(fan.buf) < BufferSize
<1>1. fan \in Fan /\ Len(fan.buf) <= BufferSize /\ fate \in [Calls -> [Msgs -> Fates]]
  BY DEF TypeOK, Fan
<1>2. m \in Msgs /\ published' = m /\ m \in 0 .. MaxMsgs
  BY HubAssumption DEF Publish, TypeOK, Msgs
<1>3. fan' \in Fan /\ Len(fan'.buf) <= BufferSize
  <2>1. CASE fan.on /\ room
    <3>0. fan.buf \in Seq(Msgs)
      BY <1>1 DEF Fan
    <3>1. Append(fan.buf, m) \in Seq(Msgs) /\ Len(Append(fan.buf, m)) = Len(fan.buf) + 1
      BY <1>2, <3>0, AppendProperties
    <3>2. fan' = [fan EXCEPT !.buf = Append(@, m)]
      BY <2>1 DEF Publish
    <3>3. fan' \in Fan /\ fan'.buf = Append(fan.buf, m)
      BY <1>1, <3>1, <3>2 DEF Fan
    <3>4. Len(fan.buf) \in Nat
      BY <3>0, LenProperties
    <3>5. QED BY <2>1, <3>1, <3>3, <3>4, HubAssumption
  <2>2. CASE ~(fan.on /\ room)
    <3>1. fan' = fan
      BY <2>2 DEF Publish
    <3>2. QED BY <1>1, <3>1
  <2>3. QED BY <2>1, <2>2
<1>4. fate' \in [Calls -> [Msgs -> Fates]]
  <2>1. \A s \in Calls : [fate[s] EXCEPT ![m] = IF room THEN "owed" ELSE "lost"] \in [Msgs -> Fates]
    BY <1>1 DEF Fates
  <2>2. fate' = [s \in Calls |->
          IF s \in fan.subs THEN [fate[s] EXCEPT ![m] = IF room THEN "owed" ELSE "lost"]
          ELSE fate[s]]
    BY DEF Publish
  <2>3. QED BY <1>1, <2>1, <2>2
<1>5. QED BY <1>2, <1>3, <1>4

LEMMA PumpTakeType ==
  ASSUME TypeOK, PumpTake
  PROVE  /\ pump' \in [Gens -> [msg: Msgs \cup {0}, to: SUBSET Calls]]
         /\ fan' \in Fan /\ Len(fan'.buf) <= BufferSize
<1>1. fan \in Fan /\ Len(fan.buf) <= BufferSize
  BY DEF TypeOK, Fan
<1>2. fan.buf \in Seq(Msgs) /\ fan.buf # <<>>
  BY <1>1 DEF Fan, PumpTake
<1>3. /\ Head(fan.buf) \in Msgs /\ Tail(fan.buf) \in Seq(Msgs)
      /\ Len(Tail(fan.buf)) = Len(fan.buf) - 1 /\ Len(fan.buf) \in Nat
  BY <1>2, HeadTailProperties, LenProperties
<1>4. fan' \in Fan /\ fan'.buf = Tail(fan.buf)
  BY <1>1, <1>3 DEF PumpTake, Fan
<1>5. [msg |-> Head(fan.buf), to |-> fan.subs] \in [msg: Msgs \cup {0}, to: SUBSET Calls]
  BY <1>1, <1>3 DEF Fan
<1>6. pump' \in [Gens -> [msg: Msgs \cup {0}, to: SUBSET Calls]]
  BY <1>5 DEF PumpTake, TypeOK
<1>7. QED BY <1>1, <1>3, <1>4, <1>6, HubAssumption

LEMMA PumpSendType ==
  ASSUME TypeOK, NEW g \in Gens, NEW s \in Calls, PumpSend(g, s)
  PROVE  /\ pump' \in [Gens -> [msg: Msgs \cup {0}, to: SUBSET Calls]]
         /\ outbox' \in [Conns -> 0 .. OutboxSize]
         /\ fate' \in [Calls -> [Msgs -> Fates]]
<1> DEFINE m == pump[g].msg
           room == outbox[connOf(s)] < OutboxSize
           rest == pump[g].to \ {s}
<1>1. pump[g] \in [msg: Msgs \cup {0}, to: SUBSET Calls]
  BY DEF TypeOK
<1>2. [msg |-> IF rest = {} THEN 0 ELSE m, to |-> rest] \in [msg: Msgs \cup {0}, to: SUBSET Calls]
  BY <1>1
<1>3. pump' \in [Gens -> [msg: Msgs \cup {0}, to: SUBSET Calls]]
  BY <1>2 DEF PumpSend, TypeOK
<1>4. outbox' \in [Conns -> 0 .. OutboxSize]
  <2>1. CASE outbox' = outbox
    BY <2>1 DEF TypeOK
  <2>2. CASE room /\ outbox' = [outbox EXCEPT ![connOf(s)] = @ + 1]
    <3>1. outbox \in [Conns -> 0 .. OutboxSize]
      BY DEF TypeOK
    <3>2. connOf(s) \in Conns => outbox[connOf(s)] + 1 \in 0 .. OutboxSize
      BY <2>2, <3>1, HubAssumption
    <3>3. QED BY <2>2, <3>1, <3>2
  <2>3. QED BY <2>1, <2>2 DEF PumpSend
<1>5. fate' \in [Calls -> [Msgs -> Fates]]
  <2>1. [fate[s] EXCEPT ![m] = IF room THEN "got" ELSE "lost"] \in [Msgs -> Fates]
    BY DEF TypeOK, Fates
  <2>2. fate' = [fate EXCEPT ![s] = [fate[s] EXCEPT ![m] = IF room THEN "got" ELSE "lost"]]
    BY DEF PumpSend
  <2>3. QED BY <2>1, <2>2 DEF TypeOK
<1>6. QED BY <1>3, <1>4, <1>5

\* The steps of a Subscribe call that change its place in call.
LEMMA CallType ==
  ASSUME TypeOK, NEW s \in Calls, NEW p \in CallPcs, call' = [call EXCEPT ![s].pc = p]
  PROVE  call' \in [Calls -> [pc: CallPcs, conn: Conns \cup {NoConn}]]
<1>1. call \in [Calls -> [pc: CallPcs, conn: Conns \cup {NoConn}]]
  BY DEF TypeOK
<1>2. [call[s] EXCEPT !.pc = p] \in [pc: CallPcs, conn: Conns \cup {NoConn}]
  BY <1>1
<1>3. call' = [call EXCEPT ![s] = [call[s] EXCEPT !.pc = p]]
  OBVIOUS
<1>4. QED BY <1>1, <1>2, <1>3

LEMMA RacedType ==
  ASSUME TypeOK, [Next]_vars
  PROVE  raced' \in BOOLEAN /\ bclosed' \in BOOLEAN
<1>1. raced \in BOOLEAN /\ bclosed \in BOOLEAN
  BY Zenon DEF TypeOK
<1>2. bclosed' \in BOOLEAN
  BY <1>1 DEF Next, vars, ConnStep, SubscriberStep, CheckSubscribe, Connect, Unsubscribe,
              Disconnect, BeginReceive, WriteSSE, AddSub, StreamFrom, SubscribedOk, SubscribedErr,
              Reject, Teardown, EndReceive, PumpSend, Publish, PumpTake, CloseBroadcaster
<1>3. raced' \in BOOLEAN
  BY <1>1 DEF Next, vars, ConnStep, SubscriberStep, CheckSubscribe, Connect, Unsubscribe, TakeSub,
              Disconnect, BeginReceive, WriteSSE, AddSub, StreamFrom, SubscribedOk, SubscribedErr,
              Reject, Teardown, EndReceive, PumpSend, Publish, PumpTake, CloseBroadcaster
<1>4. QED BY <1>2, <1>3

LEMMA NextTypeOK == TypeOK /\ [Next]_vars => TypeOK'
<1> SUFFICES ASSUME TypeOK, [Next]_vars PROVE TypeOK'
  OBVIOUS
<1>0. raced' \in BOOLEAN /\ bclosed' \in BOOLEAN
  BY RacedType
<1>1. ASSUME NEW c \in Conns, NEW s \in Calls, CheckSubscribe(s, c) PROVE TypeOK'
  <2>1. call' \in [Calls -> [pc: CallPcs, conn: Conns \cup {NoConn}]]
    BY <1>1 DEF CheckSubscribe, TypeOK, CallPcs
  <2>2. QED BY <1>0, <1>1, <2>1 DEF CheckSubscribe, TypeOK
<1>2. ASSUME NEW c \in Conns, ConnStep(c) PROVE TypeOK'
  <2>1. CASE Connect(c)
    BY <1>0, <2>1 DEF Connect, TypeOK
  <2>2. CASE Unsubscribe(c) \/ Disconnect(c)
    <3>1. subs' \in [Conns -> Calls \cup {NoCall}] /\ tearing' \subseteq Calls
      <4>1. /\ subs' = [subs EXCEPT ![c] = NoCall]
            /\ tearing' = (tearing \cup {subs[c]}) \ {NoCall}
        BY <2>2 DEF Unsubscribe, Disconnect, TakeSub
      <4>2. subs \in [Conns -> Calls \cup {NoCall}] /\ tearing \subseteq Calls
        BY DEF TypeOK
      <4>3. QED BY <4>1, <4>2
    <3>2. conn' \in [Conns -> {"none", "up", "down"}]
      BY <2>2 DEF Unsubscribe, Disconnect, TypeOK
    <3>3. UNCHANGED <<call, receiving, fan, pump, outbox, published, hooks, fate>>
      BY <2>2 DEF Unsubscribe, Disconnect
    <3>4. QED BY <1>0, <3>1, <3>2, <3>3 DEF TypeOK
  <2>3. CASE BeginReceive(c)
    BY <1>0, <2>3 DEF BeginReceive, TypeOK
  <2>4. CASE WriteSSE(c)
    <3>1. outbox' \in [Conns -> 0 .. OutboxSize]
      BY <2>4, HubAssumption DEF WriteSSE, TypeOK
    <3>2. QED BY <1>0, <2>4, <3>1 DEF WriteSSE, TypeOK
  <2>5. QED BY <1>2, <2>1, <2>2, <2>3, <2>4 DEF ConnStep
<1>3. ASSUME NEW s \in Calls, SubscriberStep(s) PROVE TypeOK'
  <2>1. CASE AddSub(s)
    <3>1. call' \in [Calls -> [pc: CallPcs, conn: Conns \cup {NoConn}]]
      <4>1. \E p \in CallPcs : call' = [call EXCEPT ![s].pc = p]
        BY <2>1 DEF AddSub, CallPcs
      <4>2. QED BY <4>1, CallType
    <3>2. subs' \in [Conns -> Calls \cup {NoCall}]
      <4>1. subs' = subs \/ subs' = [subs EXCEPT ![connOf(s)] = s]
        BY <2>1 DEF AddSub
      <4>2. QED BY <4>1 DEF TypeOK
    <3>3. QED BY <1>0, <2>1, <3>1, <3>2 DEF AddSub, TypeOK
  <2>2. CASE StreamFrom(s)
    <3>1. fan' \in Fan /\ Len(fan'.buf) <= BufferSize
      BY <2>2, StreamType
    <3>2. UNCHANGED <<conn, subs, call, tearing, receiving, pump, outbox, published, hooks, fate>>
      BY <2>2 DEF StreamFrom
    <3>3. QED BY <1>0, <3>1, <3>2 DEF TypeOK, Fan
  <2>3. CASE SubscribedOk(s)
    <3>1. call' \in [Calls -> [pc: CallPcs, conn: Conns \cup {NoConn}]]
      BY <2>3, CallType DEF SubscribedOk, CallPcs
    <3>2. QED BY <1>0, <2>3, <3>1 DEF SubscribedOk, TypeOK
  <2>4. CASE SubscribedErr(s)
    <3>1. call' \in [Calls -> [pc: CallPcs, conn: Conns \cup {NoConn}]]
      BY <2>4, CallType DEF SubscribedErr, CallPcs
    <3>2. subs' \in [Conns -> Calls \cup {NoCall}]
      BY <2>4 DEF SubscribedErr, TypeOK
    <3>3. QED BY <1>0, <2>4, <3>1, <3>2 DEF SubscribedErr, TypeOK
  <2>5. CASE Reject(s)
    <3>1. call' \in [Calls -> [pc: CallPcs, conn: Conns \cup {NoConn}]]
      BY <2>5, CallType DEF Reject, CallPcs
    <3>2. /\ fan' \in Fan /\ Len(fan'.buf) <= BufferSize
          /\ fate' \in [Calls -> [Msgs -> Fates]]
      BY <2>5, UntrackType DEF Reject
    <3>3. UNCHANGED <<conn, subs, tearing, receiving, pump, outbox, published, hooks>>
      BY <2>5 DEF Reject
    <3>4. QED BY <1>0, <3>1, <3>2, <3>3 DEF TypeOK, Fan
  <2>6. CASE Teardown(s)
    <3>1. hooks' \in [Calls -> Nat] /\ tearing' \subseteq Calls
      BY <2>6 DEF Teardown, TypeOK
    <3>2. /\ fan' \in Fan /\ Len(fan'.buf) <= BufferSize
          /\ fate' \in [Calls -> [Msgs -> Fates]]
      BY <2>6, UntrackType DEF Teardown
    <3>3. UNCHANGED <<conn, subs, call, receiving, pump, outbox, published>>
      BY <2>6 DEF Teardown
    <3>4. QED BY <1>0, <3>1, <3>2, <3>3 DEF TypeOK, Fan
  <2>7. CASE EndReceive(s)
    BY <1>0, <2>7 DEF EndReceive, TypeOK
  <2>8. QED BY <1>3, <2>1, <2>2, <2>3, <2>4, <2>5, <2>6, <2>7 DEF SubscriberStep
<1>4. ASSUME NEW s \in Calls, NEW g \in Gens, PumpSend(g, s) PROVE TypeOK'
  <2>1. UNCHANGED <<conn, subs, call, tearing, receiving, fan, published, hooks>>
    BY <1>4 DEF PumpSend
  <2>2. QED BY <1>0, <1>4, <2>1, PumpSendType DEF TypeOK
<1>5. CASE Publish
  <2>1. UNCHANGED <<conn, subs, call, tearing, receiving, pump, outbox, hooks>>
    BY <1>5 DEF Publish
  <2>2. QED BY <1>0, <1>5, <2>1, PublishType DEF TypeOK, Fan
<1>6. CASE PumpTake
  <2>1. UNCHANGED <<conn, subs, call, tearing, receiving, outbox, published, hooks, fate>>
    BY <1>6 DEF PumpTake
  <2>2. QED BY <1>0, <1>6, <2>1, PumpTakeType DEF TypeOK, Fan
<1>7. CASE CloseBroadcaster \/ UNCHANGED vars
  BY <1>0, <1>7 DEF CloseBroadcaster, vars, TypeOK
<1>8. QED BY <1>1, <1>2, <1>3, <1>4, <1>5, <1>6, <1>7 DEF Next

\* Every variable keeps its type: no buffer or outbox outgrows its capacity,
\* and every payload is accounted for.
THEOREM TypeCorrect == Spec => []TypeOK
BY InitTypeOK, NextTypeOK, PTL DEF Spec

-----------------------------------------------------------------------------
(* Subscriptions.                                                          *)

LEMMA InitSub == Init => SubInv
<1> SUFFICES ASSUME Init PROVE SubInv
  OBVIOUS
<1>1. CallConn /\ SubsOwn /\ Ends /\ Unraced
  BY DEF Init, CallConn, SubsOwn, Ends, Unraced
<1>2. QED BY <1>1, InitTypeOK DEF SubInv

\* What a step of s to another place in its call changes.
LEMMA CallStep ==
  ASSUME TypeOK, NEW s \in Calls, NEW p, call' = [call EXCEPT ![s].pc = p]
  PROVE  /\ call'[s].pc = p /\ call'[s].conn = call[s].conn
         /\ \A t \in Calls : t # s => call'[t] = call[t]
BY DEF TypeOK

\* A step that changes no subscription, and at most ends a Receive or takes
\* subscribers out of the fanout.
LEMMA SubQuiet ==
  ASSUME SubInv, TypeOK', UNCHANGED <<conn, subs, call, tearing, hooks, raced>>,
         receiving' \subseteq receiving, fan'.subs \subseteq fan.subs
  PROVE  SubInv'
<1>1. CallConn' /\ SubsOwn'
  BY DEF SubInv, CallConn, SubsOwn, connOf
<1>2. Ends'
  BY DEF SubInv, Ends
<1>3. Unraced'
  BY DEF SubInv, Unraced, connOf
<1>4. QED BY <1>1, <1>2, <1>3 DEF SubInv

LEMMA SubCheck ==
  ASSUME SubInv, TypeOK', NEW s \in Calls, NEW c \in Conns, CheckSubscribe(s, c)
  PROVE  SubInv'
<1>0. TypeOK /\ NoCall \notin Calls
  BY HubAssumption DEF SubInv
<1>1. /\ call[s].pc = "new" /\ call'[s] = [pc |-> "checked", conn |-> c]
      /\ \A t \in Calls : t # s => call'[t] = call[t]
  BY <1>0 DEF CheckSubscribe, TypeOK
<1>2. UNCHANGED <<conn, subs, tearing, receiving, fan, hooks, raced>>
  BY DEF CheckSubscribe
<1>3. call'[s].pc = "checked" /\ call'[s].conn = c
  BY <1>1
<1>4. \A d \in Conns : subs[d] # NoCall => subs[d] \in Calls /\ subs[d] # s
  BY <1>0, <1>1 DEF SubInv, SubsOwn, TypeOK
<1>5. CallConn'
  BY <1>1, <1>3 DEF SubInv, CallConn
<1>6. SubsOwn'
  BY <1>1, <1>2, <1>4 DEF SubInv, SubsOwn, connOf
<1>7. Ends'
  BY <1>1, <1>2, <1>3 DEF SubInv, Ends
<1>8. Unraced'
  <2> SUFFICES ASSUME ~raced'
               PROVE  /\ \A d \in Conns : conn'[d] # "up" => subs'[d] = NoCall
                      /\ \A t \in Calls :
                           \/ call'[t].pc = "subscribing" \/ t \in receiving'
                           \/ call'[t].pc = "live" /\ hooks'[t] = 0 /\ t \notin tearing'
                           => call'[t].conn \in Conns /\ subs'[call'[t].conn] = t
                      /\ \A t \in fan'.subs :
                           \/ call'[t].pc = "rejecting"
                           \/ call'[t].conn \in Conns /\ subs'[call'[t].conn] = t
                           \/ t \in tearing'
    BY DEF Unraced, connOf
  <2>1. ~raced
    BY <1>2
  <2>2. s \notin fan.subs /\ s \notin receiving /\ fan.subs \subseteq Calls
    <3>1. s \notin fan.subs /\ fan.subs \subseteq Calls
      BY <1>0, <1>1 DEF SubInv, Ends, TypeOK
    <3>2. s \notin receiving
      BY <1>0, <1>1, <1>4, <2>1 DEF SubInv, Unraced, connOf
    <3>3. QED BY <3>1, <3>2
  <2>3. QED BY <1>1, <1>2, <1>3, <2>1, <2>2 DEF SubInv, Unraced, connOf
<1>9. QED BY <1>5, <1>6, <1>7, <1>8 DEF SubInv

LEMMA SubAdd ==
  ASSUME SubInv, TypeOK', NEW s \in Calls, AddSub(s)
  PROVE  SubInv'
<1> DEFINE c == call[s].conn
<1>0. TypeOK /\ NoCall \notin Calls /\ call[s].pc = "checked" /\ c \in Conns
  BY HubAssumption DEF SubInv, AddSub, CallConn
<1>1. UNCHANGED <<conn, tearing, receiving, fan, hooks>>
  BY DEF AddSub
<1>2. \A d \in Conns : subs[d] # NoCall => subs[d] \in Calls /\ subs[d] # s
  BY <1>0 DEF SubInv, SubsOwn, TypeOK
<1>3. s \notin tearing /\ hooks[s] = 0 /\ s \notin fan.subs
  BY <1>0 DEF SubInv, Ends
<1>4. ~raced => s \notin receiving
  BY <1>0, <1>2 DEF SubInv, Unraced, connOf
<1>5. CASE subs[c] = NoCall
  <2>1. /\ subs' = [subs EXCEPT ![c] = s]
        /\ call' = [call EXCEPT ![s].pc = "subscribing"]
        /\ raced' = (raced \/ conn[c] # "up")
    BY <1>5 DEF AddSub, connOf
  <2>2. /\ call'[s].pc = "subscribing" /\ call'[s].conn = c
        /\ \A t \in Calls : t # s => call'[t] = call[t]
    BY <1>0, <2>1, CallStep
  <2>3. subs'[c] = s /\ \A d \in Conns : d # c => subs'[d] = subs[d]
    BY <1>0, <2>1 DEF TypeOK
  <2>4. CallConn'
    BY <1>0, <2>2 DEF SubInv, CallConn
  <2>5. SubsOwn'
    <3> SUFFICES ASSUME NEW d \in Conns, subs'[d] # NoCall
                 PROVE  /\ call'[subs'[d]].conn = d
                        /\ call'[subs'[d]].pc \in {"subscribing", "live"}
                        /\ hooks[subs'[d]] = 0 /\ subs'[d] \notin tearing
      BY <1>1 DEF SubsOwn, connOf
    <3>1. CASE d = c
      BY <1>3, <2>2, <2>3, <3>1
    <3>2. CASE d # c
      BY <1>2, <2>2, <2>3, <3>2 DEF SubInv, SubsOwn, connOf
    <3>3. QED BY <3>1, <3>2
  <2>6. Ends'
    BY <1>0, <1>1, <1>3, <2>2 DEF SubInv, Ends
  <2>7. Unraced'
    <3> SUFFICES ASSUME ~raced'
                 PROVE  /\ \A d \in Conns : conn[d] # "up" => subs'[d] = NoCall
                        /\ \A t \in Calls :
                             \/ call'[t].pc = "subscribing" \/ t \in receiving
                             \/ call'[t].pc = "live" /\ hooks[t] = 0 /\ t \notin tearing
                             => call'[t].conn \in Conns /\ subs'[call'[t].conn] = t
                        /\ \A t \in fan.subs :
                             \/ call'[t].pc = "rejecting"
                             \/ call'[t].conn \in Conns /\ subs'[call'[t].conn] = t
                             \/ t \in tearing
      BY <1>1 DEF Unraced, connOf
    <3>1. ~raced /\ conn[c] = "up"
      BY <2>1
    <3>2. ASSUME NEW t \in Calls, t # s, call[t].conn \in Conns, subs[call[t].conn] = t
          PROVE  call'[t].conn \in Conns /\ subs'[call'[t].conn] = t
      BY <1>0, <1>5, <2>2, <2>3, <3>2
    <3>3. \A t \in fan.subs : t \in Calls /\ t # s
      BY <1>0, <1>3 DEF TypeOK
    <3>4. QED BY <1>0, <2>2, <2>3, <3>1, <3>2, <3>3 DEF SubInv, Unraced, connOf
  <2>8. QED BY <2>4, <2>5, <2>6, <2>7 DEF SubInv
<1>6. CASE subs[c] # NoCall
  <2>1. /\ UNCHANGED <<subs, raced>>
        /\ call' = [call EXCEPT ![s].pc = "failed"]
    BY <1>6 DEF AddSub, connOf
  <2>2. /\ call'[s].pc = "failed" /\ call'[s].conn = c
        /\ \A t \in Calls : t # s => call'[t] = call[t]
    BY <1>0, <2>1, CallStep
  <2>3. CallConn'
    BY <1>0, <2>2 DEF SubInv, CallConn
  <2>4. SubsOwn'
    BY <1>1, <1>2, <2>1, <2>2 DEF SubInv, SubsOwn, connOf
  <2>5. Ends'
    BY <1>1, <1>3, <2>2 DEF SubInv, Ends
  <2>6. Unraced'
    <3>1. \A t \in fan.subs : t \in Calls /\ t # s
      BY <1>0, <1>3 DEF TypeOK
    <3>2. QED BY <1>1, <1>4, <2>1, <2>2, <3>1 DEF SubInv, Unraced, connOf
  <2>7. QED BY <2>3, <2>4, <2>5, <2>6 DEF SubInv
<1>7. QED BY <1>5, <1>6

\* A callback streams from the topic: it is the callback of a subscription
\* that has begun.
LEMMA SubStream ==
  ASSUME SubInv, TypeOK', NEW s \in Calls, StreamFrom(s)
  PROVE  SubInv'
<1>0. TypeOK /\ call[s].pc \notin {"new", "checked"}
  BY DEF SubInv, Ends, StreamFrom
<1>1. UNCHANGED <<conn, subs, call, tearing, receiving, hooks, raced>>
  BY DEF StreamFrom
<1>2. fan'.subs \subseteq fan.subs \cup {s}
  <2>0. fan \in Fan
    BY <1>0 DEF TypeOK, Fan
  <2>1. CASE fan' = [fan EXCEPT !.subs = @ \cup {s}]
    BY <2>0, <2>1 DEF Fan
  <2>2. CASE fan' = [on |-> TRUE, gen |-> fan.gen + 1, subs |-> {s}, buf |-> <<>>]
    BY <2>2
  <2>3. QED BY <2>1, <2>2 DEF StreamFrom
<1>3. CallConn' /\ SubsOwn'
  BY <1>1 DEF SubInv, CallConn, SubsOwn, connOf
<1>4. Ends'
  BY <1>0, <1>1, <1>2 DEF SubInv, Ends
<1>5. Unraced'
  <2>1. call[s].pc = "subscribing" \/ s \in receiving
    BY DEF StreamFrom
  <2>2. QED BY <1>1, <1>2, <2>1 DEF SubInv, Unraced, connOf
<1>6. QED BY <1>3, <1>4, <1>5 DEF SubInv

LEMMA SubSubscribedOk ==
  ASSUME SubInv, TypeOK', NEW s \in Calls, SubscribedOk(s)
  PROVE  SubInv'
<1>0. TypeOK /\ call[s].pc = "subscribing"
  BY DEF SubInv, SubscribedOk
<1>1. UNCHANGED <<conn, subs, tearing, receiving, fan, hooks, raced>>
  BY DEF SubscribedOk
<1>2. /\ call'[s].pc = "live" /\ call'[s].conn = call[s].conn
      /\ \A t \in Calls : t # s => call'[t] = call[t]
  BY <1>0, CallStep DEF SubscribedOk
<1>3. CallConn'
  BY <1>0, <1>2 DEF SubInv, CallConn
<1>4. SubsOwn'
  <2>1. \A c \in Conns : subs[c] # NoCall => subs[c] \in Calls
    BY <1>0 DEF TypeOK
  <2>2. QED BY <1>1, <1>2, <2>1 DEF SubInv, SubsOwn, connOf
<1>5. Ends'
  BY <1>0, <1>1, <1>2 DEF SubInv, Ends
<1>6. Unraced'
  <2>1. fan.subs \subseteq Calls
    BY <1>0 DEF TypeOK
  <2>2. QED BY <1>0, <1>1, <1>2, <2>1 DEF SubInv, Unraced, connOf
<1>7. QED BY <1>3, <1>4, <1>5, <1>6 DEF SubInv

LEMMA SubSubscribedErr ==
  ASSUME SubInv, TypeOK', NEW s \in Calls, SubscribedErr(s)
  PROVE  SubInv'
<1> DEFINE c == call[s].conn
<1>0. TypeOK /\ NoCall \notin Calls /\ call[s].pc = "subscribing" /\ c \in Conns
  BY HubAssumption DEF SubInv, SubscribedErr, CallConn
<1>1. /\ UNCHANGED <<conn, tearing, receiving, fan, hooks>>
      /\ subs' = [subs EXCEPT ![c] = NoCall]
      /\ raced' = (raced \/ subs[c] # s \/ s \in receiving)
  BY DEF SubscribedErr, connOf
<1>2. /\ call'[s].pc = "rejecting" /\ call'[s].conn = c
      /\ \A t \in Calls : t # s => call'[t] = call[t]
  BY <1>0, CallStep DEF SubscribedErr
<1>3. subs'[c] = NoCall /\ \A d \in Conns : d # c => subs'[d] = subs[d]
  BY <1>0, <1>1 DEF TypeOK
<1>4. CallConn'
  BY <1>0, <1>2 DEF SubInv, CallConn
<1>5. SubsOwn'
  <2> SUFFICES ASSUME NEW d \in Conns, subs'[d] # NoCall
               PROVE  /\ call'[subs'[d]].conn = d
                      /\ call'[subs'[d]].pc \in {"subscribing", "live"}
                      /\ hooks[subs'[d]] = 0 /\ subs'[d] \notin tearing
    BY <1>1 DEF SubsOwn, connOf
  <2>1. d # c /\ subs'[d] = subs[d] /\ subs[d] \in Calls
    BY <1>0, <1>3 DEF TypeOK
  <2>2. subs[d] # s
    BY <2>1 DEF SubInv, SubsOwn, connOf
  <2>3. QED BY <1>2, <2>1, <2>2 DEF SubInv, SubsOwn, connOf
<1>6. Ends'
  BY <1>0, <1>1, <1>2 DEF SubInv, Ends
<1>7. Unraced'
  <2> SUFFICES ASSUME ~raced'
               PROVE  /\ \A d \in Conns : conn[d] # "up" => subs'[d] = NoCall
                      /\ \A t \in Calls :
                           \/ call'[t].pc = "subscribing" \/ t \in receiving
                           \/ call'[t].pc = "live" /\ hooks[t] = 0 /\ t \notin tearing
                           => call'[t].conn \in Conns /\ subs'[call'[t].conn] = t
                      /\ \A t \in fan.subs :
                           \/ call'[t].pc = "rejecting"
                           \/ call'[t].conn \in Conns /\ subs'[call'[t].conn] = t
                           \/ t \in tearing
    BY <1>1 DEF Unraced, connOf
  <2>1. ~raced /\ subs[c] = s /\ s \notin receiving
    BY <1>1
  <2>2. ASSUME NEW t \in Calls, t # s, call[t].conn \in Conns, subs[call[t].conn] = t
        PROVE  call'[t].conn \in Conns /\ subs'[call'[t].conn] = t
    BY <1>2, <1>3, <2>1, <2>2
  <2>3. \A t \in fan.subs : t \in Calls
    BY <1>0 DEF TypeOK
  <2>4. QED BY <1>0, <1>2, <1>3, <2>1, <2>2, <2>3 DEF SubInv, Unraced, connOf
<1>8. QED BY <1>4, <1>5, <1>6, <1>7 DEF SubInv

\* untrackTopics takes the subscriber out of the fanout and no other.
LEMMA UntrackSubs ==
  ASSUME TypeOK, NEW s, untrackTopics(s)
  PROVE  fan'.subs = fan.subs \ {s} /\ fan'.gen = fan.gen
<1>0. fan \in Fan
  BY DEF TypeOK, Fan
<1>1. CASE s \notin fan.subs
  BY <1>1 DEF untrackTopics
<1>2. CASE s \in fan.subs /\ fan.subs = {s}
  <2>1. fan' = [fan EXCEPT !.on = FALSE, !.subs = {}, !.buf = <<>>]
    BY <1>2 DEF untrackTopics
  <2>2. QED BY <1>0, <1>2, <2>1 DEF Fan
<1>3. CASE s \in fan.subs /\ fan.subs # {s}
  <2>1. fan' = [fan EXCEPT !.subs = @ \ {s}]
    BY <1>3 DEF untrackTopics
  <2>2. QED BY <1>0, <2>1 DEF Fan
<1>4. QED BY <1>1, <1>2, <1>3

LEMMA SubReject ==
  ASSUME SubInv, TypeOK', NEW s \in Calls, Reject(s)
  PROVE  SubInv'
<1>0. TypeOK /\ call[s].pc = "rejecting"
  BY DEF SubInv, Reject
<1>1. UNCHANGED <<conn, subs, tearing, receiving, hooks, raced>>
  BY DEF Reject
<1>2. /\ call'[s].pc = "failed" /\ call'[s].conn = call[s].conn
      /\ \A t \in Calls : t # s => call'[t] = call[t]
  BY <1>0, CallStep DEF Reject
<1>3. fan'.subs = fan.subs \ {s} /\ fan.subs \subseteq Calls
  BY <1>0, UntrackSubs DEF Reject, TypeOK
<1>4. CallConn'
  BY <1>0, <1>2 DEF SubInv, CallConn
<1>5. SubsOwn'
  <2>1. \A c \in Conns : subs[c] # NoCall => subs[c] \in Calls /\ subs[c] # s
    BY <1>0 DEF SubInv, SubsOwn, TypeOK
  <2>2. QED BY <1>1, <1>2, <2>1 DEF SubInv, SubsOwn, connOf
<1>6. Ends'
  BY <1>0, <1>1, <1>2, <1>3 DEF SubInv, Ends
<1>7. Unraced'
  BY <1>0, <1>1, <1>2, <1>3 DEF SubInv, Unraced, connOf
<1>8. QED BY <1>4, <1>5, <1>6, <1>7 DEF SubInv

\* Unsubscribe or Disconnect takes the subscriber out of subs.
LEMMA SubTake ==
  ASSUME SubInv, TypeOK', NEW c \in Conns, Unsubscribe(c) \/ Disconnect(c)
  PROVE  SubInv'
<1>0. TypeOK /\ NoCall \notin Calls
  BY HubAssumption DEF SubInv
<1>1. /\ UNCHANGED <<call, receiving, fan, hooks>>
      /\ subs' = [subs EXCEPT ![c] = NoCall]
      /\ tearing' = (tearing \cup {subs[c]}) \ {NoCall}
      /\ raced' = (raced \/ (subs[c] # NoCall /\ Busy(subs[c])))
  BY DEF Unsubscribe, Disconnect, TakeSub
<1>2. \A d \in Conns : d # c => conn'[d] = conn[d]
  BY <1>0 DEF Unsubscribe, Disconnect, TypeOK
<1>3. subs'[c] = NoCall /\ \A d \in Conns : d # c => subs'[d] = subs[d]
  BY <1>0, <1>1 DEF TypeOK
<1>4. \A t \in Calls : t \in tearing' <=> t \in tearing \/ t = subs[c]
  BY <1>0, <1>1
<1>5. CallConn'
  BY <1>1 DEF SubInv, CallConn
<1>6. SubsOwn'
  <2> SUFFICES ASSUME NEW d \in Conns, subs'[d] # NoCall
               PROVE  /\ call[subs'[d]].conn = d
                      /\ call[subs'[d]].pc \in {"subscribing", "live"}
                      /\ hooks[subs'[d]] = 0 /\ subs'[d] \notin tearing'
    BY <1>1 DEF SubsOwn, connOf
  <2>1. d # c /\ subs'[d] = subs[d] /\ subs[d] \in Calls
    BY <1>0, <1>3 DEF TypeOK
  <2>2. subs[d] # subs[c]
    BY <2>1 DEF SubInv, SubsOwn, connOf
  <2>3. QED BY <1>4, <2>1, <2>2 DEF SubInv, SubsOwn, connOf
<1>7. Ends'
  <2>1. subs[c] \in Calls => hooks[subs[c]] = 0 /\ call[subs[c]].pc \notin {"new", "checked"}
    BY <1>0 DEF SubInv, SubsOwn
  <2>2. QED BY <1>1, <1>4, <2>1 DEF SubInv, Ends
<1>8. Unraced'
  <2> SUFFICES ASSUME ~raced'
               PROVE  /\ \A d \in Conns : conn'[d] # "up" => subs'[d] = NoCall
                      /\ \A t \in Calls :
                           \/ call[t].pc = "subscribing" \/ t \in receiving
                           \/ call[t].pc = "live" /\ hooks[t] = 0 /\ t \notin tearing'
                           => call[t].conn \in Conns /\ subs'[call[t].conn] = t
                      /\ \A t \in fan.subs :
                           \/ call[t].pc = "rejecting"
                           \/ call[t].conn \in Conns /\ subs'[call[t].conn] = t
                           \/ t \in tearing'
    BY <1>1 DEF Unraced, connOf
  <2>1. ~raced /\ (subs[c] # NoCall => call[subs[c]].pc = "live" /\ subs[c] \notin receiving)
    BY <1>1 DEF Busy
  <2>2. ASSUME NEW t \in Calls, call[t].conn \in Conns, subs[call[t].conn] = t
        PROVE  (call[t].conn # c /\ subs'[call[t].conn] = t) \/ t = subs[c]
    BY <1>3, <2>2
  <2>3. \A t \in fan.subs : t \in Calls
    BY <1>0 DEF TypeOK
  <2>4. \A d \in Conns : conn'[d] # "up" => subs'[d] = NoCall
    BY <1>2, <1>3, <2>1 DEF SubInv, Unraced
  <2>5. ASSUME NEW t \in Calls, \/ call[t].pc = "subscribing" \/ t \in receiving
                                \/ call[t].pc = "live" /\ hooks[t] = 0 /\ t \notin tearing'
        PROVE  call[t].conn \in Conns /\ subs'[call[t].conn] = t
    <3>1. call[t].conn \in Conns /\ subs[call[t].conn] = t
      BY <1>4, <2>1, <2>5 DEF SubInv, Unraced, connOf
    <3>2. t # subs[c]
      BY <1>0, <1>4, <2>1, <2>5
    <3>3. QED BY <2>2, <3>1, <3>2
  <2>6. ASSUME NEW t \in fan.subs
        PROVE  \/ call[t].pc = "rejecting"
               \/ call[t].conn \in Conns /\ subs'[call[t].conn] = t
               \/ t \in tearing'
    BY <1>4, <2>1, <2>2, <2>3 DEF SubInv, Unraced, connOf
  <2>7. QED BY <2>4, <2>5, <2>6
<1>9. QED BY <1>5, <1>6, <1>7, <1>8 DEF SubInv

LEMMA SubTeardown ==
  ASSUME SubInv, TypeOK', NEW s \in Calls, Teardown(s)
  PROVE  SubInv'
<1>0. TypeOK /\ s \in tearing
  BY DEF SubInv, Teardown
<1>1. UNCHANGED <<conn, subs, call, receiving, raced>> /\ tearing' = tearing \ {s}
  BY DEF Teardown
<1>2. /\ hooks[s] = 0 /\ hooks'[s] = 1 /\ call[s].pc \notin {"new", "checked"}
      /\ \A t \in Calls : t # s => hooks'[t] = hooks[t]
  BY <1>0 DEF SubInv, Ends, Teardown, TypeOK
<1>3. fan'.subs = fan.subs \ {s} /\ fan.subs \subseteq Calls
  BY <1>0, UntrackSubs DEF Teardown, TypeOK
<1>4. CallConn'
  BY <1>1 DEF SubInv, CallConn
<1>5. SubsOwn'
  <2>1. \A c \in Conns : subs[c] # NoCall => subs[c] \in Calls /\ subs[c] # s
    BY <1>0 DEF SubInv, SubsOwn, TypeOK
  <2>2. QED BY <1>1, <1>2, <2>1 DEF SubInv, SubsOwn, connOf
<1>6. Ends'
  BY <1>1, <1>2, <1>3 DEF SubInv, Ends
<1>7. Unraced'
  BY <1>1, <1>2, <1>3 DEF SubInv, Unraced, connOf
<1>8. QED BY <1>4, <1>5, <1>6, <1>7 DEF SubInv

LEMMA SubBeginReceive ==
  ASSUME SubInv, TypeOK', NEW c \in Conns, BeginReceive(c) \/ Connect(c)
  PROVE  SubInv'
<1>0. TypeOK
  BY DEF SubInv
<1>1. UNCHANGED <<subs, call, tearing, fan, hooks, raced>>
  BY DEF BeginReceive, Connect
<1>2. \A t \in receiving' : t \in receiving \/ (t = subs[c] /\ subs[c] # NoCall)
  BY DEF BeginReceive, Connect
<1>3. subs[c] # NoCall => call[subs[c]].conn = c /\ call[subs[c]].pc \in {"subscribing", "live"}
  BY DEF SubInv, SubsOwn, connOf
<1>4. CallConn' /\ SubsOwn'
  BY <1>1 DEF SubInv, CallConn, SubsOwn, connOf
<1>5. Ends'
  BY <1>1, <1>2, <1>3 DEF SubInv, Ends
<1>6. Unraced'
  <2>1. \A d \in Conns : conn'[d] # "up" => conn[d] # "up"
    BY <1>0 DEF BeginReceive, Connect, TypeOK
  <2>2. QED BY <1>1, <1>2, <1>3, <2>1 DEF SubInv, Unraced, connOf
<1>7. QED BY <1>4, <1>5, <1>6 DEF SubInv

LEMMA NextSub == SubInv /\ [Next]_vars => SubInv'
<1> SUFFICES ASSUME SubInv, [Next]_vars PROVE SubInv'
  OBVIOUS
<1>0. TypeOK /\ TypeOK'
  BY NextTypeOK DEF SubInv
<1>1. ASSUME NEW c \in Conns, NEW s \in Calls, CheckSubscribe(s, c) PROVE SubInv'
  BY <1>0, <1>1, SubCheck
<1>2. ASSUME NEW c \in Conns, ConnStep(c) PROVE SubInv'
  <2>1. CASE Connect(c) \/ BeginReceive(c)
    BY <1>0, <2>1, SubBeginReceive
  <2>2. CASE Unsubscribe(c) \/ Disconnect(c)
    BY <1>0, <2>2, SubTake
  <2>3. CASE WriteSSE(c)
    BY <1>0, <2>3, SubQuiet DEF WriteSSE
  <2>4. QED BY <1>2, <2>1, <2>2, <2>3 DEF ConnStep
<1>3. ASSUME NEW s \in Calls, SubscriberStep(s) PROVE SubInv'
  <2>1. CASE EndReceive(s)
    BY <1>0, <2>1, SubQuiet DEF EndReceive
  <2>2. QED BY <1>0, <1>3, <2>1, SubAdd, SubStream, SubSubscribedOk, SubSubscribedErr,
               SubReject, SubTeardown DEF SubscriberStep
<1>4. ASSUME NEW s \in Calls, NEW g \in Gens, PumpSend(g, s) PROVE SubInv'
  BY <1>0, <1>4, SubQuiet DEF PumpSend
<1>5. CASE Publish
  <2>0. fan \in Fan
    BY <1>0 DEF TypeOK, Fan
  <2>1. fan'.subs = fan.subs
    BY <1>5, <2>0 DEF Publish, Fan
  <2>2. QED BY <1>0, <1>5, <2>1, SubQuiet DEF Publish
<1>6. CASE PumpTake
  <2>0. fan \in Fan
    BY <1>0 DEF TypeOK, Fan
  <2>1. fan'.subs = fan.subs
    BY <1>6, <2>0 DEF PumpTake, Fan
  <2>2. QED BY <1>0, <1>6, <2>1, SubQuiet DEF PumpTake
<1>7. CASE CloseBroadcaster \/ UNCHANGED vars
  BY <1>0, <1>7, SubQuiet DEF CloseBroadcaster, vars
<1>8. QED BY <1>1, <1>2, <1>3, <1>4, <1>5, <1>6, <1>7 DEF Next

LEMMA Subscriptions == Spec => []SubInv
BY InitSub, NextSub, PTL DEF Spec

\* However Subscribe, Unsubscribe and Disconnect interleave, Unsubscribed is
\* called at most once per subscription, and, unless a callback was overtaken, a
\* connection has at most one live subscription of a name.
THEOREM SubscribedOnce == Spec => []OneSubscription
<1>1. SubInv => OneSubscription
  <2> SUFFICES ASSUME SubInv PROVE OneSubscription
    OBVIOUS
  <2>1. \A s \in Calls : hooks[s] <= 1
    BY DEF SubInv, Ends
  <2>2. ASSUME ~raced, NEW s \in Calls, NEW t \in Calls, s # t, connOf(s) = connOf(t),
               {call[s].pc, call[t].pc} \subseteq {"subscribing", "live"},
               hooks[s] = 0, hooks[t] = 0, {s, t} \cap tearing = {}
        PROVE  FALSE
    <3>1. subs[connOf(s)] = s /\ subs[connOf(t)] = t
      BY <2>2 DEF SubInv, Unraced
    <3>2. QED BY <2>2, <3>1
  <2>3. QED BY <2>1, <2>2 DEF OneSubscription
<1>2. QED BY <1>1, Subscriptions, PTL

\* Unless a callback was overtaken, a connection that is down and has no
\* request under way has left nothing in a fanout, and Unsubscribed was called
\* for every subscription of it that began.
THEOREM NothingLeftBehind == Spec => []TornDownUnlessRaced
<1>1. SubInv => TornDownUnlessRaced
  <2> SUFFICES ASSUME SubInv, ~raced, NEW c \in Conns, conn[c] = "down", Quiet(c),
                      NEW s \in Calls, connOf(s) = c
               PROVE  s \notin fan.subs /\ (call[s].pc = "live" => hooks[s] = 1)
    BY DEF TornDownUnlessRaced, TornDownAfterDisconnect
  <2>1. /\ call[s].pc \in {"live", "failed"}
        /\ s \notin tearing /\ s \notin receiving
    BY DEF Quiet
  <2>2. subs[c] # s
    <3>1. subs[c] = NoCall
      BY DEF SubInv, Unraced
    <3>2. QED BY <3>1, HubAssumption
  <2>3. s \notin fan.subs
    BY <2>1, <2>2 DEF SubInv, Unraced
  <2>4. call[s].pc = "live" => hooks[s] # 0
    BY <2>1, <2>2 DEF SubInv, Unraced
  <2>5. hooks[s] \in Nat /\ hooks[s] <= 1
    BY DEF SubInv, TypeOK, Ends
  <2>6. QED BY <2>3, <2>4, <2>5
<1>2. QED BY <1>1, Subscriptions, PTL

-----------------------------------------------------------------------------
(* Payloads.                                                               *)

LEMMA LossQuiet ==
  ASSUME LossInv, UNCHANGED <<fan, pump, fate>>
  PROVE  LossInv'
<1>1. Owing'
  BY DEF LossInv, Owing
<1>2. NoSilentLoss'
  BY DEF LossInv, NoSilentLoss
<1>3. QED BY <1>1, <1>2 DEF LossInv

LEMMA LossStream ==
  ASSUME TypeOK, LossInv, NEW s \in Calls, StreamFrom(s)
  PROVE  LossInv'
<1>0. fan \in Fan /\ UNCHANGED <<pump, fate>>
  BY DEF TypeOK, Fan, StreamFrom
<1>1. CASE fan.on /\ fan' = [fan EXCEPT !.subs = @ \cup {s}]
  <2>1. /\ fan'.subs = fan.subs \cup {s} /\ fan'.buf = fan.buf /\ fan'.gen = fan.gen
        /\ fan'.on = fan.on
    BY <1>0, <1>1 DEF Fan
  <2>2. fan'.on
    BY <1>1, <2>1
  <2>3. Owing'
    BY <1>0, <2>1, <2>2 DEF LossInv, Owing
  <2>4. NoSilentLoss'
    BY <1>0, <2>1 DEF LossInv, NoSilentLoss
  <2>5. QED BY <2>3, <2>4 DEF LossInv
<1>2. CASE ~fan.on /\ fan' = [on |-> TRUE, gen |-> fan.gen + 1, subs |-> {s}, buf |-> <<>>]
  <2>1. \A t \in Calls, m \in Msgs : fate[t][m] # "owed"
    BY <1>2 DEF LossInv, Owing
  <2>2. fan'.on
    BY <1>2
  <2>3. QED BY <1>0, <2>1, <2>2 DEF LossInv, Owing, NoSilentLoss
<1>3. QED BY <1>1, <1>2 DEF StreamFrom

LEMMA LossUntrack ==
  ASSUME TypeOK, LossInv, NEW s \in Calls, untrackTopics(s), UNCHANGED pump
  PROVE  LossInv'
<1>0. fan \in Fan /\ fate \in [Calls -> [Msgs -> Fates]]
  BY DEF TypeOK, Fan
<1>1. \A t \in Calls, m \in Msgs : fate'[t][m] = "owed" => fate[t][m] = "owed" /\ t # s
  <2>1. fate' = [fate EXCEPT ![s] =
                   [m \in Msgs |-> IF fate[s][m] = "owed" THEN "none" ELSE fate[s][m]]]
    BY DEF untrackTopics
  <2>2. \A m \in Msgs : fate'[s][m] # "owed"
    BY <1>0, <2>1
  <2>3. \A t \in Calls : t # s => fate'[t] = fate[t]
    BY <1>0, <2>1
  <2>4. QED BY <2>2, <2>3
<1>2. fan'.subs = fan.subs \ {s} /\ fan'.gen = fan.gen
  BY UntrackSubs
<1>3. fan'.subs # {} => fan'.on = fan.on /\ fan'.buf = fan.buf
  <2>1. CASE s \notin fan.subs
    BY <2>1 DEF untrackTopics
  <2>2. CASE fan.subs = {s}
    BY <1>2, <2>2
  <2>3. CASE s \in fan.subs /\ fan.subs # {s}
    <3>1. fan' = [fan EXCEPT !.subs = @ \ {s}]
      BY <2>3 DEF untrackTopics
    <3>2. QED BY <1>0, <3>1 DEF Fan
  <2>4. QED BY <2>1, <2>2, <2>3
<1>4. Owing'
  <2>1. fan'.subs # {} => fan'.on
    BY <1>2, <1>3 DEF LossInv, Owing
  <2>2. QED BY <1>1, <1>2, <2>1 DEF LossInv, Owing
<1>5. NoSilentLoss'
  <2> SUFFICES ASSUME NEW t \in Calls, NEW m \in Msgs, fate'[t][m] = "owed"
               PROVE  \/ t \in fan'.subs /\ \E i \in DOMAIN fan'.buf : fan'.buf[i] = m
                      \/ pump[fan.gen].msg = m /\ t \in pump[fan.gen].to
    BY <1>2 DEF NoSilentLoss
  <2>1. fate[t][m] = "owed" /\ t # s /\ t \in fan.subs
    BY <1>1 DEF LossInv, Owing
  <2>2. t \in fan'.subs /\ fan'.buf = fan.buf
    BY <1>2, <1>3, <2>1
  <2>3. QED BY <2>1, <2>2 DEF LossInv, NoSilentLoss
<1>6. QED BY <1>4, <1>5 DEF LossInv

LEMMA LossPublish ==
  ASSUME TypeOK, LossInv, Publish
  PROVE  LossInv'
<1> DEFINE m == published + 1
           room == Len(fan.buf) < BufferSize
<1>0. /\ fan \in Fan /\ fate \in [Calls -> [Msgs -> Fates]] /\ pump' = pump
      /\ fan.buf \in Seq(Msgs)
  BY DEF TypeOK, Fan, Publish
<1>1. m \in Msgs
  BY HubAssumption DEF Publish, TypeOK, Msgs
<1>2. fan'.subs = fan.subs /\ fan'.gen = fan.gen /\ fan'.on = fan.on
  BY <1>0 DEF Publish, Fan
<1>3. fan.on /\ room => fan'.buf = Append(fan.buf, m)
  BY <1>0 DEF Publish, Fan
<1>4. \A i \in DOMAIN fan.buf : i \in DOMAIN fan'.buf /\ fan'.buf[i] = fan.buf[i]
  <2>1. CASE fan.on /\ room
    BY <1>0, <1>1, <1>3, <2>1, AppendProperties
  <2>2. CASE ~(fan.on /\ room)
    <3>1. fan' = fan
      BY <2>2 DEF Publish
    <3>2. QED BY <3>1
  <2>3. QED BY <2>1, <2>2
<1>5. \A t \in Calls, n \in Msgs :
        fate'[t][n] = "owed" => fate[t][n] = "owed" \/ (n = m /\ t \in fan.subs /\ room)
  <2> SUFFICES ASSUME NEW t \in Calls, NEW n \in Msgs, fate'[t][n] = "owed"
               PROVE  fate[t][n] = "owed" \/ (n = m /\ t \in fan.subs /\ room)
    OBVIOUS
  <2>1. CASE t \in fan.subs
    <3>1. fate'[t] = [fate[t] EXCEPT ![m] = IF room THEN "owed" ELSE "lost"]
      BY <2>1 DEF Publish
    <3>2. QED BY <1>0, <1>1, <2>1, <3>1
  <2>2. CASE t \notin fan.subs
    BY <2>2 DEF Publish
  <2>3. QED BY <2>1, <2>2
<1>6. Owing'
  BY <1>2, <1>5 DEF LossInv, Owing
<1>7. NoSilentLoss'
  <2> SUFFICES ASSUME NEW t \in Calls, NEW n \in Msgs, fate'[t][n] = "owed"
               PROVE  \/ t \in fan.subs /\ \E i \in DOMAIN fan'.buf : fan'.buf[i] = n
                      \/ pump[fan.gen].msg = n /\ t \in pump[fan.gen].to
    BY <1>0, <1>2 DEF NoSilentLoss
  <2>1. CASE fate[t][n] = "owed"
    BY <1>4, <2>1 DEF LossInv, NoSilentLoss
  <2>2. CASE n = m /\ t \in fan.subs /\ room
    <3>1. fan.on
      BY <2>2 DEF LossInv, Owing
    <3>2. fan'.buf = Append(fan.buf, m)
      BY <1>3, <2>2, <3>1
    <3>3. Len(fan.buf) + 1 \in DOMAIN fan'.buf /\ fan'.buf[Len(fan.buf) + 1] = m
      BY <1>0, <1>1, <3>2, AppendProperties, LenProperties
    <3>4. QED BY <2>2, <3>3
  <2>3. QED BY <1>5, <2>1, <2>2
<1>8. QED BY <1>6, <1>7 DEF LossInv

LEMMA LossPumpTake ==
  ASSUME TypeOK, LossInv, PumpTake
  PROVE  LossInv'
<1>0. fan \in Fan /\ fan.buf \in Seq(Msgs) /\ fan.buf # <<>> /\ fate' = fate /\ fan.gen \in Gens
  BY DEF TypeOK, Fan, PumpTake
<1>1. /\ fan'.subs = fan.subs /\ fan'.gen = fan.gen /\ fan'.on = fan.on
      /\ fan'.buf = Tail(fan.buf)
  BY <1>0 DEF PumpTake, Fan
<1>2. /\ pump[fan.gen].msg = 0
      /\ pump'[fan.gen].msg = Head(fan.buf) /\ pump'[fan.gen].to = fan.subs
  BY <1>0 DEF PumpTake, TypeOK
<1>3. Owing'
  BY <1>0, <1>1 DEF LossInv, Owing
<1>4. NoSilentLoss'
  <2> SUFFICES ASSUME NEW t \in Calls, NEW n \in Msgs, fate[t][n] = "owed"
               PROVE  \/ t \in fan.subs /\ \E i \in DOMAIN fan'.buf : fan'.buf[i] = n
                      \/ Head(fan.buf) = n /\ t \in fan.subs
    BY <1>0, <1>1, <1>2 DEF NoSilentLoss
  <2>1. t \in fan.subs
    BY DEF LossInv, Owing
  <2>2. PICK i \in DOMAIN fan.buf : fan.buf[i] = n
    BY <1>2 DEF LossInv, NoSilentLoss, Msgs
  <2>3. CASE i = 1
    BY <1>0, <2>1, <2>2, <2>3, HeadTailProperties
  <2>4. CASE i # 1
    <3>1. i \in 1 .. Len(fan.buf) /\ Len(fan.buf) \in Nat
      BY <1>0, <2>2, LenProperties
    <3>2. i - 1 \in 1 .. Len(Tail(fan.buf)) /\ Tail(fan.buf)[i - 1] = fan.buf[i]
      BY <1>0, <2>4, <3>1, HeadTailProperties
    <3>3. DOMAIN Tail(fan.buf) = 1 .. Len(Tail(fan.buf))
      BY <1>0, HeadTailProperties, LenProperties
    <3>4. QED BY <1>1, <2>1, <2>2, <3>2, <3>3
  <2>5. QED BY <2>3, <2>4
<1>5. QED BY <1>3, <1>4 DEF LossInv

\* What the pump's step changes.
LEMMA PumpSendEffect ==
  ASSUME TypeOK, NEW g \in Gens, NEW s \in Calls, PumpSend(g, s)
  PROVE  /\ s \in pump[g].to /\ UNCHANGED <<fan, published, raced, call, subs>>
         /\ pump'[g].to = pump[g].to \ {s}
         /\ pump'[g].msg = IF pump'[g].to = {} THEN 0 ELSE pump[g].msg
         /\ \A h \in Gens : h # g => pump'[h] = pump[h]
         /\ \A t \in Calls : t # s => fate'[t] = fate[t]
         /\ \A n \in Msgs : n # pump[g].msg => fate'[s][n] = fate[s][n]
         /\ pump[g].msg \in Msgs => fate'[s][pump[g].msg] \in {"got", "lost"}
<1>1. s \in pump[g].to /\ UNCHANGED <<fan, published, raced, call, subs>>
  BY DEF PumpSend
<1>2. /\ pump'[g].to = pump[g].to \ {s}
      /\ pump'[g].msg = IF pump'[g].to = {} THEN 0 ELSE pump[g].msg
      /\ \A h \in Gens : h # g => pump'[h] = pump[h]
  BY DEF PumpSend, TypeOK
<1>3. \E x \in {"got", "lost"} : fate' = [fate EXCEPT ![s] = [fate[s] EXCEPT ![pump[g].msg] = x]]
  BY DEF PumpSend
<1>4. /\ \A t \in Calls : t # s => fate'[t] = fate[t]
      /\ \A n \in Msgs : n # pump[g].msg => fate'[s][n] = fate[s][n]
      /\ pump[g].msg \in Msgs => fate'[s][pump[g].msg] \in {"got", "lost"}
  BY <1>3 DEF TypeOK
<1>5. QED BY <1>1, <1>2, <1>4

LEMMA LossPumpSend ==
  ASSUME TypeOK, LossInv, NEW g \in Gens, NEW s \in Calls, PumpSend(g, s)
  PROVE  LossInv'
<1>1. \A t \in Calls, n \in Msgs :
        fate'[t][n] = "owed" => fate[t][n] = "owed" /\ ~(t = s /\ n = pump[g].msg)
  BY PumpSendEffect
<1>2. Owing'
  BY <1>1, PumpSendEffect DEF LossInv, Owing
<1>3. NoSilentLoss'
  <2> SUFFICES ASSUME NEW t \in Calls, NEW n \in Msgs, fate'[t][n] = "owed"
               PROVE  \/ t \in fan.subs /\ \E i \in DOMAIN fan.buf : fan.buf[i] = n
                      \/ pump'[fan.gen].msg = n /\ t \in pump'[fan.gen].to
    BY PumpSendEffect DEF NoSilentLoss
  <2>1. \/ t \in fan.subs /\ \E i \in DOMAIN fan.buf : fan.buf[i] = n
        \/ pump[fan.gen].msg = n /\ t \in pump[fan.gen].to
    BY <1>1 DEF LossInv, NoSilentLoss
  <2>2. CASE fan.gen = g /\ pump[g].msg = n /\ t \in pump[g].to
    BY <1>1, <2>2, PumpSendEffect
  <2>3. CASE fan.gen # g
    <3>1. fan.gen \in Gens
      BY DEF TypeOK
    <3>2. QED BY <2>1, <2>3, <3>1, PumpSendEffect
  <2>4. QED BY <2>1, <2>2, <2>3
<1>4. QED BY <1>2, <1>3 DEF LossInv

LEMMA NextLoss == TypeOK /\ LossInv /\ [Next]_vars => LossInv'
<1> SUFFICES ASSUME TypeOK, LossInv, [Next]_vars PROVE LossInv'
  OBVIOUS
<1>1. ASSUME NEW c \in Conns, ConnStep(c) PROVE LossInv'
  BY <1>1, LossQuiet DEF ConnStep, Connect, Unsubscribe, Disconnect, BeginReceive, WriteSSE
<1>2. ASSUME NEW c \in Conns, NEW s \in Calls, CheckSubscribe(s, c) PROVE LossInv'
  BY <1>2, LossQuiet DEF CheckSubscribe
<1>3. ASSUME NEW s \in Calls, SubscriberStep(s) PROVE LossInv'
  <2>1. CASE StreamFrom(s)
    BY <2>1, LossStream
  <2>2. CASE Reject(s) \/ Teardown(s)
    BY <2>2, LossUntrack DEF Reject, Teardown
  <2>3. CASE AddSub(s) \/ SubscribedOk(s) \/ SubscribedErr(s) \/ EndReceive(s)
    BY <2>3, LossQuiet DEF AddSub, SubscribedOk, SubscribedErr, EndReceive
  <2>4. QED BY <1>3, <2>1, <2>2, <2>3 DEF SubscriberStep
<1>4. ASSUME NEW s \in Calls, NEW g \in Gens, PumpSend(g, s) PROVE LossInv'
  BY <1>4, LossPumpSend
<1>5. CASE Publish \/ PumpTake
  BY <1>5, LossPublish, LossPumpTake
<1>6. CASE CloseBroadcaster \/ UNCHANGED vars
  BY <1>6, LossQuiet DEF CloseBroadcaster, vars
<1>7. QED BY <1>1, <1>2, <1>3, <1>4, <1>5, <1>6 DEF Next

\* A payload published to a topic reaches the outbox of every subscriber of the
\* topic, or a full buffer dropped it, or the subscriber left: no interleaving of
\* other subscribers, pumps and teardowns loses it.
THEOREM NothingLostSilently == Spec => []NoSilentLoss
<1>1. Init => LossInv
  BY DEF Init, LossInv, Owing, NoSilentLoss
<1>2. LossInv => NoSilentLoss
  BY DEF LossInv
<1>3. QED BY <1>1, <1>2, NextLoss, TypeCorrect, PTL DEF Spec

-----------------------------------------------------------------------------
(* The order of payloads.                                                  *)

\* Every element of the buffer is a payload's number.
LEMMA BufferFacts ==
  ASSUME TypeOK
  PROVE  /\ fan.buf \in Seq(Msgs) /\ Len(fan.buf) \in Nat /\ DOMAIN fan.buf = 1 .. Len(fan.buf)
         /\ \A i \in DOMAIN fan.buf : fan.buf[i] \in Msgs
         /\ Msgs \subseteq Nat /\ published \in Nat /\ fan.gen \in Gens /\ Gens \subseteq Nat
         /\ \A g \in Gens : pump[g].msg \in Nat
<1>1. fan.buf \in Seq(Msgs) /\ fan.gen \in Gens
  BY DEF TypeOK
<1>2. /\ Len(fan.buf) \in Nat /\ DOMAIN fan.buf = 1 .. Len(fan.buf)
      /\ \A i \in DOMAIN fan.buf : fan.buf[i] \in Msgs
  BY <1>1, LenProperties, ElementOfSeq
<1>3. /\ Msgs \subseteq Nat /\ published \in Nat /\ Gens \subseteq Nat
      /\ \A g \in Gens : pump[g].msg \in Nat
  BY HubAssumption DEF TypeOK, Msgs, Gens
<1>4. QED BY <1>1, <1>2, <1>3

LEMMA WaitingKept ==
  ASSUME TypeOK, Waiting, UNCHANGED <<pump, published>>, fan'.gen = fan.gen,
         fan'.buf = fan.buf \/ fan'.buf = <<>>
  PROVE  Waiting'
BY DEF Waiting

LEMMA WaitingStream ==
  ASSUME TypeOK, Waiting, NEW s \in Calls, StreamFrom(s)
  PROVE  Waiting'
<1>0. fan \in Fan /\ UNCHANGED <<pump, published>>
  BY DEF TypeOK, Fan, StreamFrom
<1>1. CASE fan' = [fan EXCEPT !.subs = @ \cup {s}]
  <2>1. fan'.buf = fan.buf /\ fan'.gen = fan.gen
    BY <1>0, <1>1 DEF Fan
  <2>2. QED BY <1>0, <2>1, WaitingKept
<1>2. CASE fan' = [on |-> TRUE, gen |-> fan.gen + 1, subs |-> {s}, buf |-> <<>>]
  <2>1. fan'.buf = <<>> /\ fan'.gen = fan.gen + 1
    BY <1>2
  <2>2. \A g \in Gens : g > fan.gen + 1 => g > fan.gen
    BY BufferFacts
  <2>3. QED BY <1>0, <2>1, <2>2 DEF Waiting
<1>3. QED BY <1>1, <1>2 DEF StreamFrom

LEMMA WaitingPublish ==
  ASSUME TypeOK, Waiting, Publish
  PROVE  Waiting'
<1> DEFINE m == published + 1
<1>0. fan \in Fan /\ pump' = pump /\ published' = m /\ m \in Msgs
  BY HubAssumption DEF TypeOK, Fan, Publish, Msgs
<1>1. fan'.gen = fan.gen
  BY <1>0 DEF Publish, Fan
<1>2. \A g \in Gens : pump[g].msg <= m
  BY BufferFacts DEF Waiting
<1>3. CASE fan' = fan
  BY <1>0, <1>2, <1>3, BufferFacts DEF Waiting
<1>4. CASE fan' = [fan EXCEPT !.buf = Append(@, m)]
  <2>1. fan'.buf = Append(fan.buf, m)
    BY <1>0, <1>4 DEF Fan
  <2>2. /\ DOMAIN fan'.buf = 1 .. Len(fan.buf) + 1
        /\ \A i \in 1 .. Len(fan.buf) : fan'.buf[i] = fan.buf[i]
        /\ fan'.buf[Len(fan.buf) + 1] = m
    BY <1>0, <2>1, BufferFacts, AppendProperties
  <2>3. \A i \in 1 .. Len(fan.buf) : fan.buf[i] \in Nat /\ fan.buf[i] < m /\ pump[fan.gen].msg < fan.buf[i]
    BY BufferFacts DEF Waiting
  <2>4. pump[fan.gen].msg < m
    <3>1. fan.gen \in Gens /\ pump[fan.gen].msg \in Nat /\ published \in Nat
      BY BufferFacts
    <3>2. pump[fan.gen].msg <= published
      BY <3>1 DEF Waiting
    <3>3. QED BY <3>1, <3>2
  <2>5. \A i, j \in DOMAIN fan'.buf : i < j => fan'.buf[i] < fan'.buf[j]
    <3> SUFFICES ASSUME NEW i \in DOMAIN fan'.buf, NEW j \in DOMAIN fan'.buf, i < j
                 PROVE  fan'.buf[i] < fan'.buf[j]
      OBVIOUS
    <3>1. i \in 1 .. Len(fan.buf) /\ (j \in 1 .. Len(fan.buf) \/ j = Len(fan.buf) + 1)
      BY SMTT(15), <2>2, BufferFacts
    <3>2. QED BY <2>2, <2>3, <3>1, BufferFacts DEF Waiting
  <2>6. \A i \in DOMAIN fan'.buf : pump[fan.gen].msg < fan'.buf[i] /\ fan'.buf[i] <= m
    <3> SUFFICES ASSUME NEW i \in DOMAIN fan'.buf
                 PROVE  pump[fan.gen].msg < fan'.buf[i] /\ fan'.buf[i] <= m
      OBVIOUS
    <3>0. m \in Nat /\ Len(fan.buf) \in Nat
      BY BufferFacts
    <3>1. CASE i = Len(fan.buf) + 1
      BY <2>2, <2>4, <3>0, <3>1
    <3>2. CASE i \in 1 .. Len(fan.buf)
      BY <2>2, <2>3, <3>0, <3>2
    <3>3. QED BY <2>2, <3>0, <3>1, <3>2
  <2>7. QED BY <1>0, <1>1, <1>2, <2>5, <2>6 DEF Waiting
<1>5. QED BY <1>3, <1>4 DEF Publish

\* What PumpTake does to the buffer.
LEMMA TakenHead ==
  ASSUME TypeOK, PumpTake
  PROVE  /\ fan'.subs = fan.subs /\ fan'.gen = fan.gen /\ fan'.buf = Tail(fan.buf)
         /\ 1 \in DOMAIN fan.buf /\ Head(fan.buf) = fan.buf[1]
         /\ \A i \in DOMAIN fan'.buf :
              i \in Nat /\ i >= 1 /\ i + 1 \in DOMAIN fan.buf /\ fan'.buf[i] = fan.buf[i + 1]
         /\ pump'[fan.gen].msg = fan.buf[1] /\ pump'[fan.gen].to = fan.subs
         /\ \A g \in Gens : g # fan.gen => pump'[g] = pump[g]
<1>0. fan \in Fan /\ fan.buf # <<>>
  BY DEF TypeOK, Fan, PumpTake
<1>1. fan'.subs = fan.subs /\ fan'.gen = fan.gen /\ fan'.buf = Tail(fan.buf)
  BY <1>0 DEF PumpTake, Fan
<1>2. /\ Tail(fan.buf) \in Seq(Msgs) /\ Len(Tail(fan.buf)) = Len(fan.buf) - 1
      /\ \A i \in 1 .. Len(Tail(fan.buf)) : Tail(fan.buf)[i] = fan.buf[i + 1]
  BY <1>0, BufferFacts, HeadTailProperties
<1>3. DOMAIN Tail(fan.buf) = 1 .. Len(fan.buf) - 1
  BY <1>2, LenProperties
<1>4. Len(fan.buf) # 0
  BY <1>0, BufferFacts, EmptySeq
<1>5. 1 \in DOMAIN fan.buf
  BY <1>4, BufferFacts
<1>6. Head(fan.buf) = fan.buf[1]
  BY <1>0, BufferFacts, HeadTailProperties
<1>7. \A i \in DOMAIN fan'.buf :
        i \in Nat /\ i >= 1 /\ i + 1 \in DOMAIN fan.buf /\ fan'.buf[i] = fan.buf[i + 1]
  BY <1>1, <1>2, <1>3, BufferFacts
<1>8. /\ pump'[fan.gen].msg = fan.buf[1] /\ pump'[fan.gen].to = fan.subs
      /\ \A g \in Gens : g # fan.gen => pump'[g] = pump[g]
  BY <1>6, BufferFacts DEF PumpTake, TypeOK
<1>9. QED BY <1>1, <1>5, <1>6, <1>7, <1>8

LEMMA WaitingPumpTake ==
  ASSUME TypeOK, Waiting, PumpTake
  PROVE  Waiting'
<1>0. published' = published /\ fan.gen \in Gens
  BY BufferFacts DEF PumpTake
<1>1. \A i, j \in DOMAIN fan'.buf : i < j => fan'.buf[i] < fan'.buf[j]
  BY TakenHead DEF Waiting
<1>2. \A i \in DOMAIN fan'.buf : fan.buf[1] < fan'.buf[i] /\ fan'.buf[i] <= published
  BY TakenHead DEF Waiting
<1>3. fan.buf[1] <= published /\ fan.buf[1] # 0
  BY TakenHead, BufferFacts DEF Waiting, Msgs
<1>4. \A g \in Gens : /\ pump'[g].msg <= published
                      /\ pump'[g].to # {} => pump'[g].msg # 0
                      /\ g > fan.gen => pump'[g].to = {} /\ pump'[g].msg = 0
  <2> SUFFICES ASSUME NEW g \in Gens
               PROVE  /\ pump'[g].msg <= published
                      /\ pump'[g].to # {} => pump'[g].msg # 0
                      /\ g > fan.gen => pump'[g].to = {} /\ pump'[g].msg = 0
    OBVIOUS
  <2>1. CASE g = fan.gen
    BY <1>3, <2>1, TakenHead, BufferFacts
  <2>2. CASE g # fan.gen
    BY <2>2, TakenHead DEF Waiting
  <2>3. QED BY <2>1, <2>2
<1>5. QED BY <1>0, <1>1, <1>2, <1>4, TakenHead DEF Waiting

LEMMA WaitingPumpSend ==
  ASSUME TypeOK, Waiting, NEW g \in Gens, NEW s \in Calls, PumpSend(g, s)
  PROVE  Waiting'
<1>1. \A h \in Gens : /\ pump'[h].msg <= pump[h].msg
                      /\ pump'[h].to # {} => pump'[h].msg = pump[h].msg /\ pump[h].to # {}
                      /\ pump[h].to = {} /\ pump[h].msg = 0 => pump'[h].to = {} /\ pump'[h].msg = 0
  <2> SUFFICES ASSUME NEW h \in Gens
               PROVE  /\ pump'[h].msg <= pump[h].msg
                      /\ pump'[h].to # {} => pump'[h].msg = pump[h].msg /\ pump[h].to # {}
                      /\ pump[h].to = {} /\ pump[h].msg = 0 => pump'[h].to = {} /\ pump'[h].msg = 0
    OBVIOUS
  <2>0. pump[h].msg \in Nat
    BY BufferFacts
  <2>1. CASE h = g
    <3>1. /\ pump'[g].to = pump[g].to \ {s}
          /\ pump'[g].msg = IF pump'[g].to = {} THEN 0 ELSE pump[g].msg
      BY PumpSendEffect
    <3>2. QED BY <2>0, <2>1, <3>1
  <2>2. CASE h # g
    BY <2>0, <2>2, PumpSendEffect
  <2>3. QED BY <2>1, <2>2
<1>2. \A h \in Gens : pump'[h].msg \in Nat
  BY PumpSendEffect, BufferFacts
<1>3. ASSUME NEW i \in DOMAIN fan.buf
      PROVE  pump'[fan.gen].msg < fan.buf[i] /\ fan.buf[i] <= published
  <2>1. fan.buf[i] \in Nat /\ fan.gen \in Gens /\ pump[fan.gen].msg \in Nat
    BY BufferFacts
  <2>2. pump'[fan.gen].msg \in Nat /\ pump'[fan.gen].msg <= pump[fan.gen].msg
    BY <1>1, <1>2, <2>1
  <2>3. pump[fan.gen].msg < fan.buf[i] /\ fan.buf[i] <= published
    BY DEF Waiting
  <2>4. QED BY <2>1, <2>2, <2>3
<1>4. \A h \in Gens : /\ pump'[h].msg <= published
                      /\ pump'[h].to # {} => pump'[h].msg # 0
                      /\ h > fan.gen => pump'[h].to = {} /\ pump'[h].msg = 0
  <2> SUFFICES ASSUME NEW h \in Gens
               PROVE  /\ pump'[h].msg <= published
                      /\ pump'[h].to # {} => pump'[h].msg # 0
                      /\ h > fan.gen => pump'[h].to = {} /\ pump'[h].msg = 0
    OBVIOUS
  <2>1. pump[h].msg \in Nat /\ pump'[h].msg \in Nat /\ published \in Nat
    BY <1>2, BufferFacts
  <2>2. pump[h].msg <= published
    BY DEF Waiting
  <2>3. QED BY <1>1, <2>1, <2>2 DEF Waiting
<1>5. QED BY <1>3, <1>4, PumpSendEffect DEF Waiting

\* A step after which nobody streams who did not before, that gives nobody a
\* payload, adds nobody to the fanout or a pump's list, and at most drops
\* those it takes out of the fanout for good.
LEMMA BehindKept ==
  ASSUME TypeOK, Behind, raced \in BOOLEAN, raced' \in BOOLEAN, raced => raced',
         UNCHANGED <<pump, published>>, fan'.gen = fan.gen,
         fan'.buf = fan.buf \/ fan'.buf = <<>>, fan'.subs \subseteq fan.subs,
         \A t \in Calls : /\ Streams(t)' => Streams(t)
                          /\ t \in fan.subs /\ t \notin fan'.subs => ~Streams(t)
                          /\ \A n \in Msgs : fate'[t][n] = "got" => fate[t][n] = "got"
  PROVE  Behind'
<1> SUFFICES ASSUME ~raced', NEW t \in Calls PROVE OnePump(t)' /\ GotBefore(t)'
  BY DEF Behind
<1>1. OnePump(t) /\ GotBefore(t)
  BY DEF Behind
<1>2. OnePump(t)'
  BY <1>1 DEF OnePump
<1>3. GotBefore(t)'
  BY <1>1 DEF GotBefore
<1>4. QED BY <1>2, <1>3

\* Once a subscription is through, nothing brings it back.
LEMMA StreamsKept ==
  ASSUME SubInv, [Next]_vars, NEW t \in Calls, Streams(t)'
  PROVE  Streams(t)
<1>0. TypeOK /\ NoCall \notin Calls
  BY HubAssumption DEF SubInv
<1>1. ASSUME UNCHANGED <<call, subs>> PROVE Streams(t)
  BY <1>1 DEF Streams, connOf
<1>2. ASSUME NEW c, subs' = [subs EXCEPT ![c] = NoCall], call'[t].conn = call[t].conn,
             call'[t].pc \in {"new", "checked"} => call[t].pc \in {"new", "checked"}
      PROVE  Streams(t)
  BY <1>0, <1>2 DEF Streams, connOf, TypeOK
<1>3. ASSUME NEW s \in Calls, NEW p \in {"live", "rejecting", "failed", "subscribing"},
             call' = [call EXCEPT ![s].pc = p]
      PROVE  /\ call'[t].conn = call[t].conn
             /\ call'[t].pc \in {"new", "checked"} => call[t].pc \in {"new", "checked"}
  BY <1>0, <1>3, CallStep
<1>4. ASSUME NEW c \in Conns, NEW s \in Calls, CheckSubscribe(s, c) PROVE Streams(t)
  <2>1. call[s].pc = "new" /\ subs' = subs /\ (t # s => call'[t] = call[t])
    BY <1>0, <1>4 DEF CheckSubscribe, TypeOK
  <2>2. QED BY <2>1 DEF Streams, connOf
<1>5. ASSUME NEW c \in Conns, ConnStep(c) PROVE Streams(t)
  <2>1. CASE Unsubscribe(c) \/ Disconnect(c)
    BY <1>2, <2>1 DEF Unsubscribe, Disconnect, TakeSub
  <2>2. CASE Connect(c) \/ BeginReceive(c) \/ WriteSSE(c)
    BY <1>1, <2>2 DEF Connect, BeginReceive, WriteSSE
  <2>3. QED BY <1>5, <2>1, <2>2 DEF ConnStep
<1>6. ASSUME NEW s \in Calls, SubscriberStep(s) PROVE Streams(t)
  <2>1. CASE AddSub(s)
    <3>1. CASE t = s
      BY <2>1, <3>1 DEF AddSub, Streams
    <3>2. CASE t # s
      <4>1. call'[t] = call[t]
        BY <1>0, <2>1, <3>2, CallStep DEF AddSub
      <4>2. subs' = subs \/ subs' = [subs EXCEPT ![call[s].conn] = s]
        BY <2>1 DEF AddSub, connOf
      <4>3. QED BY <1>0, <3>2, <4>1, <4>2 DEF Streams, connOf, TypeOK
    <3>3. QED BY <3>1, <3>2
  <2>2. CASE SubscribedErr(s)
    BY <1>2, <1>3, <2>2 DEF SubscribedErr
  <2>3. CASE SubscribedOk(s) \/ Reject(s)
    <3>1. subs' = subs /\ \E p \in {"live", "failed"} : call' = [call EXCEPT ![s].pc = p]
      BY <2>3 DEF SubscribedOk, Reject
    <3>2. QED BY <1>3, <3>1 DEF Streams, connOf
  <2>4. CASE StreamFrom(s) \/ Teardown(s) \/ EndReceive(s)
    BY <1>1, <2>4 DEF StreamFrom, Teardown, EndReceive
  <2>5. QED BY <1>6, <2>1, <2>2, <2>3, <2>4 DEF SubscriberStep
<1>7. CASE \/ \E s \in Calls, g \in Gens : PumpSend(g, s)
           \/ Publish \/ PumpTake \/ CloseBroadcaster \/ UNCHANGED vars
  BY <1>1, <1>7 DEF PumpSend, Publish, PumpTake, CloseBroadcaster, vars
<1>8. QED BY <1>4, <1>5, <1>6, <1>7 DEF Next

LEMMA BehindStream ==
  ASSUME SubInv, Owing, Waiting, Behind, NEW s \in Calls, StreamFrom(s)
  PROVE  Behind'
<1> SUFFICES ASSUME ~raced', NEW t \in Calls PROVE OnePump(t)' /\ GotBefore(t)'
  BY DEF Behind
<1>0. /\ TypeOK /\ fan \in Fan /\ s \notin fan.subs
      /\ UNCHANGED <<pump, published, call, subs, fate>> /\ raced' = raced
  BY DEF SubInv, TypeOK, Fan, StreamFrom
<1>1. ~raced
  BY <1>0
<1>2. OnePump(t) /\ GotBefore(t) /\ GotBefore(s)
  BY <1>1 DEF Behind
<1>3. Streams(s) /\ (Streams(t)' <=> Streams(t))
  <2>1. call[s].pc = "subscribing" \/ s \in receiving
    BY DEF StreamFrom
  <2>2. Streams(s)
    BY <1>1, <2>1 DEF SubInv, Unraced, Streams
  <2>3. QED BY <1>0, <2>2 DEF Streams, connOf
<1>4. (\A n \in Msgs : fate[s][n] # "got") /\ (\A g \in Gens : s \notin pump[g].to)
  BY <1>0, <1>2, <1>3 DEF GotBefore
<1>5. CASE fan' = [fan EXCEPT !.subs = @ \cup {s}]
  <2>1. fan'.buf = fan.buf /\ fan'.gen = fan.gen /\ fan'.subs = fan.subs \cup {s}
    BY <1>0, <1>5 DEF Fan
  <2>2. OnePump(t)'
    BY <1>0, <1>2, <1>3, <1>4, <2>1 DEF OnePump
  <2>3. GotBefore(t)'
    BY <1>0, <1>2, <1>3, <1>4, <2>1 DEF GotBefore
  <2>4. QED BY <2>2, <2>3
<1>6. CASE ~fan.on /\ fan' = [on |-> TRUE, gen |-> fan.gen + 1, subs |-> {s}, buf |-> <<>>]
  <2>1. fan'.buf = <<>> /\ fan'.gen = fan.gen + 1 /\ fan'.subs = {s} /\ fan.subs = {}
    BY <1>6 DEF Owing
  <2>2. OnePump(t)'
    BY <1>0, <1>2, <1>3, <1>4, <2>1 DEF OnePump, GotBefore
  <2>3. GotBefore(t)'
    BY <1>0, <1>2, <1>3, <1>4, <2>1 DEF GotBefore
  <2>4. QED BY <2>2, <2>3
<1>7. QED BY <1>5, <1>6 DEF StreamFrom

LEMMA BehindPublish ==
  ASSUME TypeOK, Behind, Publish
  PROVE  Behind'
<1> SUFFICES ASSUME ~raced', NEW t \in Calls PROVE OnePump(t)' /\ GotBefore(t)'
  BY DEF Behind
<1> DEFINE m == published + 1
<1>0. /\ fan \in Fan /\ UNCHANGED <<pump, call, subs, raced>> /\ published' = m
      /\ fate \in [Calls -> [Msgs -> Fates]] /\ m \in Msgs
  BY HubAssumption DEF TypeOK, Fan, Publish, Msgs
<1>1. OnePump(t) /\ GotBefore(t)
  BY <1>0 DEF Behind
<1>2. fan'.subs = fan.subs /\ fan'.gen = fan.gen
  BY <1>0 DEF Publish, Fan
<1>3. Streams(t)' <=> Streams(t)
  BY <1>0 DEF Streams, connOf
<1>4. \A n \in Msgs : fate'[t][n] = "got" => fate[t][n] = "got"
  <2>1. fate'[t] = fate[t] \/ \E x \in {"owed", "lost"} : fate'[t] = [fate[t] EXCEPT ![m] = x]
    BY DEF Publish
  <2>2. fate[t] \in [Msgs -> Fates]
    BY <1>0
  <2>3. QED BY <2>1, <2>2
<1>5. \A i \in DOMAIN fan'.buf : (i \in DOMAIN fan.buf /\ fan'.buf[i] = fan.buf[i]) \/ fan'.buf[i] = m
  <2>1. CASE fan' = fan
    BY <2>1
  <2>2. CASE fan' = [fan EXCEPT !.buf = Append(@, m)]
    <3>1. fan'.buf = Append(fan.buf, m)
      BY <1>0, <2>2 DEF Fan
    <3>2. /\ DOMAIN fan'.buf = 1 .. Len(fan.buf) + 1
          /\ \A i \in 1 .. Len(fan.buf) : fan'.buf[i] = fan.buf[i]
          /\ fan'.buf[Len(fan.buf) + 1] = m
      BY <1>0, <3>1, BufferFacts, AppendProperties
    <3>3. QED BY SMTT(15), <3>2, BufferFacts
  <2>3. QED BY <2>1, <2>2 DEF Publish
<1>6. OnePump(t)'
  BY <1>0, <1>1, <1>2, <1>3 DEF OnePump
<1>7. \A n \in Msgs : n <= published => n < m /\ n <= m
  BY BufferFacts
<1>8. GotBefore(t)'
  BY <1>0, <1>1, <1>2, <1>3, <1>4, <1>5, <1>7 DEF GotBefore
<1>9. QED BY <1>6, <1>8

LEMMA BehindPumpTake ==
  ASSUME TypeOK, Behind, PumpTake
  PROVE  Behind'
<1> SUFFICES ASSUME ~raced', NEW t \in Calls PROVE OnePump(t)' /\ GotBefore(t)'
  BY DEF Behind
<1>0. UNCHANGED <<call, subs, raced, published, fate>> /\ fan.gen \in Gens
  BY BufferFacts DEF PumpTake
<1>1. OnePump(t) /\ GotBefore(t)
  BY <1>0 DEF Behind
<1>2. Streams(t)' <=> Streams(t)
  BY <1>0 DEF Streams, connOf
<1>3. \A g \in Gens : t \in pump'[g].to <=> IF g = fan.gen THEN t \in fan.subs ELSE t \in pump[g].to
  BY TakenHead
<1>4. OnePump(t)'
  BY <1>0, <1>1, <1>2, <1>3, TakenHead DEF OnePump
<1>5. GotBefore(t)'
  <2>1. ASSUME NEW n \in Msgs, fate[t][n] = "got"
        PROVE  /\ \A g \in Gens : t \in pump'[g].to => n < pump'[g].msg
               /\ t \in fan.subs => \A i \in DOMAIN fan'.buf : n < fan'.buf[i]
    BY <1>1, <1>3, <2>1, TakenHead DEF GotBefore
  <2>2. t \notin fan.subs /\ Streams(t) => \A g \in Gens : t \notin pump'[g].to
    BY <1>1, <1>3 DEF GotBefore
  <2>3. QED BY <1>0, <1>1, <1>2, <2>1, <2>2, TakenHead DEF GotBefore
<1>6. QED BY <1>4, <1>5

LEMMA BehindPumpSend ==
  ASSUME TypeOK, Waiting, Behind, NEW g \in Gens, NEW s \in Calls, PumpSend(g, s)
  PROVE  Behind'
<1> SUFFICES ASSUME ~raced', NEW t \in Calls PROVE OnePump(t)' /\ GotBefore(t)'
  BY DEF Behind
<1>0. ~raced /\ UNCHANGED <<fan, published, call, subs>> /\ s \in pump[g].to
  BY PumpSendEffect
<1>1. OnePump(t) /\ GotBefore(t)
  BY <1>0 DEF Behind
<1>2. Streams(t)' <=> Streams(t)
  BY <1>0 DEF Streams, connOf
<1>3. \A h \in Gens : t \in pump'[h].to =>
        t \in pump[h].to /\ pump'[h].msg = pump[h].msg /\ ~(h = g /\ t = s)
  BY PumpSendEffect
<1>4. OnePump(t)'
  BY <1>0, <1>1, <1>2, <1>3 DEF OnePump
<1>5. CASE t # s
  <2>1. fate'[t] = fate[t]
    BY <1>5, PumpSendEffect
  <2>2. GotBefore(t)'
    BY <1>0, <1>1, <1>2, <1>3, <2>1 DEF GotBefore
  <2>3. QED BY <1>4, <2>2
<1>6. CASE t = s
  <2>1. \A h \in Gens : s \notin pump'[h].to
    BY <1>0, <1>1, <1>3, <1>6 DEF OnePump
  <2>2. \A n \in Msgs : fate'[s][n] = "got" => fate[s][n] = "got" \/ n = pump[g].msg
    BY PumpSendEffect
  <2>3. pump[g].msg <= published
    BY DEF Waiting
  <2>4. s \in fan.subs => \A i \in DOMAIN fan.buf : pump[g].msg < fan.buf[i]
    BY <1>0, <1>1, <1>6 DEF OnePump, Waiting
  <2>5. ~(s \notin fan.subs /\ Streams(s))
    BY <1>0, <1>1, <1>6 DEF GotBefore
  <2>6. GotBefore(s)'
    BY <1>0, <1>1, <1>2, <1>6, <2>1, <2>2, <2>3, <2>4, <2>5 DEF GotBefore
  <2>7. QED BY <1>4, <1>6, <2>6
<1>7. QED BY <1>5, <1>6

\* What raced stays so.
LEMMA RacedKept ==
  ASSUME TypeOK, [Next]_vars
  PROVE  raced \in BOOLEAN /\ raced' \in BOOLEAN /\ (raced => raced')
<1>1. raced \in BOOLEAN
  BY Zenon DEF TypeOK
<1>2. raced => raced'
  BY <1>1 DEF Next, vars, ConnStep, SubscriberStep, CheckSubscribe, Connect, Unsubscribe, TakeSub,
              Disconnect, BeginReceive, WriteSSE, AddSub, StreamFrom, SubscribedOk, SubscribedErr,
              Reject, Teardown, EndReceive, PumpSend, Publish, PumpTake, CloseBroadcaster
<1>3. QED BY <1>1, <1>2, RacedType

\* Leaving the fanout is for good: the subscription has ended or never began.
LEMMA OrderUntrack ==
  ASSUME SubInv, OrderInv, [Next]_vars, NEW s \in Calls, untrackTopics(s),
         UNCHANGED <<pump, published, subs>>, s \in tearing \/ call[s].pc = "rejecting"
  PROVE  OrderInv'
<1>0. TypeOK /\ fan \in Fan /\ fate \in [Calls -> [Msgs -> Fates]]
  BY DEF SubInv, TypeOK, Fan
<1>1. fan'.subs = fan.subs \ {s} /\ fan'.gen = fan.gen
  BY <1>0, UntrackSubs
<1>2. fan'.buf = fan.buf \/ fan'.buf = <<>>
  BY <1>0 DEF untrackTopics, Fan
<1>3. ~Streams(s)
  <2>1. call[s].pc \notin {"new", "checked"}
    BY DEF SubInv, Ends
  <2>2. call[s].conn \in Conns => subs[call[s].conn] # s
    BY HubAssumption DEF SubInv, SubsOwn
  <2>3. QED BY <2>1, <2>2 DEF Streams, connOf
<1>4. \A t \in Calls : \A n \in Msgs : fate'[t][n] = "got" => fate[t][n] = "got"
  <2>1. fate' = [fate EXCEPT ![s] =
                   [m \in Msgs |-> IF fate[s][m] = "owed" THEN "none" ELSE fate[s][m]]]
    BY DEF untrackTopics
  <2>2. QED BY <1>0, <2>1
<1>5. Waiting'
  BY <1>0, <1>1, <1>2, WaitingKept DEF OrderInv
<1>6. Behind'
  BY <1>0, <1>1, <1>2, <1>3, <1>4, StreamsKept, RacedKept, BehindKept DEF OrderInv
<1>7. QED BY <1>5, <1>6 DEF OrderInv

LEMMA NextOrder == SubInv /\ LossInv /\ OrderInv /\ [Next]_vars => OrderInv'
<1> SUFFICES ASSUME SubInv, LossInv, OrderInv, [Next]_vars PROVE OrderInv'
  OBVIOUS
<1>0. TypeOK /\ Owing /\ Waiting /\ Behind
  BY DEF SubInv, LossInv, OrderInv
<1>1. ASSUME UNCHANGED <<fan, pump, published, fate>> PROVE OrderInv'
  <2>1. Waiting'
    BY <1>0, <1>1, WaitingKept
  <2>2. Behind'
    BY <1>0, <1>1, StreamsKept, RacedKept, BehindKept
  <2>3. QED BY <2>1, <2>2 DEF OrderInv
<1>2. ASSUME NEW c \in Conns, ConnStep(c) PROVE OrderInv'
  BY <1>1, <1>2 DEF ConnStep, Connect, Unsubscribe, Disconnect, BeginReceive, WriteSSE
<1>3. ASSUME NEW c \in Conns, NEW s \in Calls, CheckSubscribe(s, c) PROVE OrderInv'
  BY <1>1, <1>3 DEF CheckSubscribe
<1>4. ASSUME NEW s \in Calls, SubscriberStep(s) PROVE OrderInv'
  <2>1. CASE StreamFrom(s)
    BY <1>0, <2>1, WaitingStream, BehindStream DEF OrderInv
  <2>2. CASE Reject(s) \/ Teardown(s)
    BY <2>2, OrderUntrack DEF Reject, Teardown
  <2>3. CASE AddSub(s) \/ SubscribedOk(s) \/ SubscribedErr(s) \/ EndReceive(s)
    BY <1>1, <2>3 DEF AddSub, SubscribedOk, SubscribedErr, EndReceive
  <2>4. QED BY <1>4, <2>1, <2>2, <2>3 DEF SubscriberStep
<1>5. ASSUME NEW s \in Calls, NEW g \in Gens, PumpSend(g, s) PROVE OrderInv'
  BY <1>0, <1>5, WaitingPumpSend, BehindPumpSend DEF OrderInv
<1>6. CASE Publish
  BY <1>0, <1>6, WaitingPublish, BehindPublish DEF OrderInv
<1>7. CASE PumpTake
  BY <1>0, <1>7, WaitingPumpTake, BehindPumpTake DEF OrderInv
<1>8. CASE CloseBroadcaster \/ UNCHANGED vars
  BY <1>1, <1>8 DEF CloseBroadcaster, vars
<1>9. QED BY <1>2, <1>3, <1>4, <1>5, <1>6, <1>7, <1>8 DEF Next

\* A step of the hub gives a subscriber a payload only after all those it has
\* got before it, as long as nothing raced: also across the fanouts that come
\* and go, whose pumps may still be sending.
OrderStep ==
  raced \/ \A s \in Calls, m \in Msgs :
    fate[s][m] # "got" /\ fate'[s][m] = "got" =>
      \A n \in Msgs : fate[s][n] = "got" => n < m

LEMMA StepInOrder == SubInv /\ OrderInv /\ [Next]_vars => [OrderStep]_vars
<1> SUFFICES ASSUME SubInv, OrderInv, Next, ~raced,
                    NEW s \in Calls, NEW m \in Msgs,
                    fate[s][m] # "got", fate'[s][m] = "got",
                    NEW n \in Msgs, fate[s][n] = "got"
             PROVE  n < m
  BY DEF OrderStep
<1>0. TypeOK /\ fate \in [Calls -> [Msgs -> Fates]] /\ GotBefore(s)
  BY DEF SubInv, TypeOK, OrderInv, Behind
<1>1. fate' # fate
  OBVIOUS
<1>2. ASSUME NEW t \in Calls, untrackTopics(t) PROVE FALSE
  <2>1. fate' = [fate EXCEPT ![t] =
                   [k \in Msgs |-> IF fate[t][k] = "owed" THEN "none" ELSE fate[t][k]]]
    BY <1>2 DEF untrackTopics
  <2>2. QED BY <1>0, <2>1
<1>3. CASE Publish
  <2>1. \/ fate'[s] = fate[s]
        \/ \E x \in {"owed", "lost"} : fate'[s] = [fate[s] EXCEPT ![published + 1] = x]
    BY <1>3 DEF Publish
  <2>2. fate[s] \in [Msgs -> Fates]
    BY <1>0
  <2>3. QED BY <2>1, <2>2
<1>4. ASSUME NEW g \in Gens, NEW t \in Calls, PumpSend(g, t) PROVE n < m
  <2>1. t = s /\ m = pump[g].msg /\ s \in pump[g].to
    BY <1>0, <1>4, PumpSendEffect
  <2>2. QED BY <1>0, <2>1 DEF GotBefore
<1>5. \/ \E t \in Calls : untrackTopics(t)
      \/ \E t \in Calls, g \in Gens : PumpSend(g, t)
      \/ Publish
  BY <1>1 DEF Next, ConnStep, SubscriberStep, CheckSubscribe, Connect, Unsubscribe,
              Disconnect, BeginReceive, WriteSSE, AddSub, StreamFrom, SubscribedOk, SubscribedErr,
              Reject, Teardown, EndReceive, PumpTake, CloseBroadcaster
<1>6. QED BY <1>2, <1>3, <1>4, <1>5

\* As long as nothing raced, each subscriber gets the payloads of its topic in
\* the order they were published in.
THEOREM DeliveredInOrder == Spec => InOrder
<1>1. Init => LossInv /\ OrderInv
  <2> SUFFICES ASSUME Init PROVE LossInv /\ OrderInv
    OBVIOUS
  <2>1. LossInv
    BY DEF Init, LossInv, Owing, NoSilentLoss
  <2>2. Waiting
    BY DEF Init, Waiting
  <2>3. Behind
    BY DEF Init, Behind, OnePump, GotBefore
  <2>4. QED BY <2>1, <2>2, <2>3 DEF OrderInv
<1>2. SubInv => TypeOK
  BY DEF SubInv
<1>3. Spec => [](SubInv /\ OrderInv)
  BY <1>1, <1>2, InitSub, NextSub, NextLoss, NextOrder, PTL DEF Spec
<1>4. Spec => [][OrderStep]_vars
  BY <1>3, StepInOrder, PTL DEF Spec
<1>5. QED BY <1>4 DEF InOrder, OrderStep
=============================================================================
