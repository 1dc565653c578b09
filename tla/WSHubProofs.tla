----------------------------- MODULE WSHubProofs -----------------------------
(***************************************************************************)
(* Proofs about WSHub, for every set of topics, buffer size and number of  *)
(* concurrent callbacks: HubInv is inductive.                              *)
(***************************************************************************)
EXTENDS WSHub, TLAPS

\* The parts of HubInv that the connection's shape gives, without TypeOK and
\* NoLostWakeup.
Shape ==
    /\ NoSendOnClosed
    /\ handler # "closed" => subs = subTopics
    /\ handler \in {"auth", "subscription"} => subs = {} /\ reader.pc = "read"
    /\ handler = "pump" => /\ open
                           /\ active = IF reader.pc = "update" THEN reader.topics ELSE subs
    /\ handler = "closed" => subs = {} /\ reader.pc # "update"
    /\ handler # "pump" => loop # "write"

EntryArmed == \A t \in Debounced : entry[t] = "armed" => armed[t] > 0

ToldOK == \A t \in Topics : told[t] <= ver[t]

\* HubInv by its parts.
LEMMA Parts ==
    /\ HubInv <=> TypeOK /\ NoLostWakeup /\ Shape /\ EntryArmed /\ ToldOK
    /\ HubInv' <=> TypeOK' /\ NoLostWakeup' /\ Shape' /\ EntryArmed' /\ ToldOK'
BY DEF HubInv, Shape, EntryArmed, ToldOK

\* A step that writes no data leaves the versions in order.
LEMMA ToldKept == ASSUME HubInv, UNCHANGED <<ver, told>> PROVE ToldOK'
BY Parts DEF ToldOK

\* What is read now is at least what was last announced.
LEMMA ReadsTold ==
    ASSUME HubInv, NEW t \in Debounced, told' = told, fetched'[t] = ver[t]
    PROVE  ReadUp(t)'
BY Parts DEF ToldOK, ReadUp, TypeOK, Topics, Versions

\* Nothing is subscribed at the start.
LEMMA InitInv == Init => HubInv
<1> SUFFICES ASSUME Init PROVE HubInv
  OBVIOUS
<1>1. TypeOK
  <2>1. /\ ver \in [Topics -> Versions] /\ told \in [Topics -> Versions] /\ pending \in [Topics -> Nat]
        /\ armed \in [Debounced -> Nat]
        /\ view \in [Debounced -> Versions] /\ fetched \in [Debounced -> Versions]
        /\ messages \in 0..MaxMessages /\ failures \in 0..MaxFailures
        /\ chan \in Seq(Topics) /\ Len(chan) <= BufferSize
    BY WSHubAssumption DEF Init, Versions
  <2>2. push \in [Slots -> Push]
    <3>1. [pc : {"free"}, topic : Debounced, seen : {0}] \subseteq Push
      BY WSHubAssumption DEF Push, Versions
    <3> QED BY <3>1 DEF Init
  <2>3. /\ handler \in {"auth", "subscription", "pump", "closed"}
        /\ subs \in SUBSET Topics /\ subTopics \in SUBSET Topics
        /\ active \in SUBSET Topics
        /\ loop \in {"select", "write", "done"}
        /\ entry \in [Debounced -> {"none", "armed", "fired"}]
        /\ reader \in [pc : {"read", "update", "done"}, topics : SUBSET Topics]
    BY DEF Init
  <2>4. open \in BOOLEAN /\ cancelled \in BOOLEAN /\ missed \in [Debounced -> BOOLEAN]
    BY DEF Init
  <2> QED BY <2>1, <2>2, <2>3, <2>4 DEF TypeOK
<1>2. Shape
  BY DEF Init, Shape, NoSendOnClosed
<1>3. NoLostWakeup
  BY DEF Init, NoLostWakeup, Watched
<1>4. EntryArmed /\ ToldOK
  BY DEF Init, EntryArmed, ToldOK
<1> QED BY <1>1, <1>2, <1>3, <1>4, Parts

\* NoLostWakeup, for a step that changes neither what is watched nor the versions:
\* it is enough that every topic whose read was due is read, missed or still under way.
LEMMA WakeupKept ==
    ASSUME NoLostWakeup,
           UNCHANGED <<subTopics, active>>, handler' = "pump" => handler = "pump",
           cancelled => cancelled',
           \A t \in Debounced : ReadUp(t) => ReadUp(t)',
           \A t \in Debounced : missed[t] => missed'[t] \/ ReadUp(t)',
           \A t \in Debounced : UnderWay(t) =>
                UnderWay(t)' \/ missed'[t] \/ ReadUp(t)' \/ t \notin active
                \/ cancelled'
    PROVE  NoLostWakeup'
BY DEF NoLostWakeup, Watched

\* A step that leaves the connection's shape alone.
LEMMA ShapeKept ==
    ASSUME Shape, UNCHANGED <<subs, subTopics, handler, open, active, reader, loop>>
    PROVE  Shape'
BY DEF Shape, NoSendOnClosed

\* A write makes the data stale and leaves its publication pending, or publishes
\* nothing and leaves alone what was announced.
LEMMA CommitInv ==
    ASSUME HubInv, NEW t \in Topics, Commit(t) \/ CommitSilently(t)
    PROVE  HubInv'
<1>1. TypeOK' /\ ToldOK'
  <2>1. ver[t] + 1 \in Versions /\ ver[t] \in Nat
    BY WSHubAssumption DEF HubInv, TypeOK, Commit, CommitSilently, Versions
  <2>2. ver' \in [Topics -> Versions] /\ told' \in [Topics -> Versions] /\ pending' \in [Topics -> Nat]
    <3>1. CASE Commit(t)
      BY <2>1, <3>1 DEF HubInv, TypeOK, Commit
    <3>2. CASE CommitSilently(t)
      BY <2>1, <3>2 DEF HubInv, TypeOK, CommitSilently
    <3> QED BY <3>1, <3>2
  <2>3. ToldOK'
    <3> SUFFICES ASSUME NEW u \in Topics PROVE told'[u] <= ver'[u]
      BY DEF ToldOK
    <3>0. told[u] <= ver[u] /\ ver[u] \in Nat /\ told[u] \in Nat
      BY Parts DEF ToldOK, TypeOK, Versions
    <3>1. CASE Commit(t)
      BY <2>1, <3>0, <3>1 DEF HubInv, TypeOK, Commit
    <3>2. CASE CommitSilently(t)
      BY <2>1, <3>0, <3>2 DEF HubInv, TypeOK, CommitSilently
    <3> QED BY <3>1, <3>2
  <2> QED BY <2>2, <2>3 DEF HubInv, TypeOK, Commit, CommitSilently
<1>2. ASSUME NEW u \in Debounced
      PROVE  \/ pending'[u] > 0
             \/ told'[u] = told[u] /\ pending'[u] = pending[u]
  BY DEF HubInv, TypeOK, Commit, CommitSilently, Topics
<1>3. UNCHANGED <<handler, subs, subTopics, active, cancelled, fetched, missed, chan, armed, push, entry>>
  BY DEF Commit, CommitSilently
<1>4. NoLostWakeup'
  <2> SUFFICES ASSUME handler = "pump", ~cancelled, NEW u \in Watched
               PROVE  ReadUp(u)' \/ missed'[u] \/ UnderWay(u)'
    BY <1>3 DEF NoLostWakeup, Watched
  <2>1. CASE pending'[u] > 0
    BY <2>1 DEF UnderWay
  <2>2. CASE told'[u] = told[u] /\ pending'[u] = pending[u]
    BY <1>3, <2>2 DEF UnderWay, Queued, Watched, HubInv, NoLostWakeup, ReadUp
  <2> QED BY <1>2, <2>1, <2>2 DEF Watched
<1>5. Shape' /\ EntryArmed'
  BY <1>3, Parts, ShapeKept DEF Commit, CommitSilently, EntryArmed
<1> QED BY <1>1, <1>4, <1>5, Parts

\* A published event is in the buffer, or another one of its topic is, or it counts as missed.
LEMMA PublishInv == ASSUME HubInv, NEW t \in Topics, Publish(t) PROVE HubInv'
<1>0. UNCHANGED <<ver, told, handler, subs, subTopics, open, cancelled, active, reader, loop,
                  entry, armed, push, view, fetched, messages, failures>>
  BY DEF Publish
<1>1. pending' \in [Topics -> Nat] /\ \A u \in Debounced : u # t => pending'[u] = pending[u]
  BY DEF HubInv, TypeOK, Publish, Topics
<1>2. CASE t \in subs /\ HasRoom
  <2>1. chan' = Append(chan, t) /\ missed' = missed
    BY <1>2 DEF Publish
  <2>2. chan \in Seq(Topics) /\ Len(chan) < BufferSize
    BY <1>2 DEF HasRoom, HubInv, TypeOK
  <2>3. /\ chan' \in Seq(Topics) /\ Len(chan') = Len(chan) + 1
        /\ chan'[Len(chan) + 1] = t
        /\ \A i \in 1..Len(chan) : chan'[i] = chan[i]
    BY <2>1, <2>2
  <2>4. Len(chan') <= BufferSize
    BY <2>2, <2>3, WSHubAssumption
  <2>5. TypeOK'
    BY <1>0, <1>1, <2>1, <2>3, <2>4 DEF HubInv, TypeOK
  <2>6. \A u \in Debounced : UnderWay(u) => UnderWay(u)'
    <3> SUFFICES ASSUME NEW u \in Debounced, UnderWay(u) PROVE UnderWay(u)'
      OBVIOUS
    <3>1. Len(chan) \in Nat /\ Len(chan') \in Nat
      BY <2>2, <2>3
    <3>2. CASE u = t
      BY <2>3, <3>1, <3>2 DEF UnderWay, Queued
    <3>3. CASE u # t
      <4>1. CASE \E i \in 1..Len(chan) : chan[i] = u
        BY <2>3, <3>1, <4>1 DEF UnderWay, Queued
      <4>2. CASE ~\E i \in 1..Len(chan) : chan[i] = u
        BY <1>0, <1>1, <3>3, <4>2 DEF UnderWay, Queued
      <4> QED BY <4>1, <4>2
    <3> QED BY <3>2, <3>3
  <2>7. NoLostWakeup'
    BY <1>0, <2>1, <2>6, WakeupKept DEF HubInv, ReadUp
  <2> QED BY <1>0, <2>5, <2>7, Parts, ShapeKept, ToldKept DEF EntryArmed
<1>3. CASE ~(t \in subs /\ HasRoom)
  <2>1. chan' = chan /\ missed' = [u \in Debounced |-> missed[u] \/ (u = t /\ t \in subs /\ ~Queued(t))]
    BY <1>3 DEF Publish
  <2>2. missed' \in [Debounced -> BOOLEAN]
    BY <2>1 DEF HubInv, TypeOK
  <2>3. TypeOK'
    BY <1>0, <1>1, <2>1, <2>2 DEF HubInv, TypeOK
  <2>4. NoLostWakeup'
    <3> SUFFICES ASSUME handler = "pump", ~cancelled, NEW u \in Watched
                 PROVE  ReadUp(u)' \/ missed'[u] \/ UnderWay(u)'
      BY <1>0 DEF NoLostWakeup, Watched
    <3>0. u \in Debounced /\ u \in subs
      BY Parts DEF Watched, Shape
    <3>1. CASE u = t
      <4>1. CASE Queued(t)
        BY <2>1, <3>1, <4>1 DEF UnderWay, Queued
      <4>2. CASE ~Queued(t)
        BY <2>1, <3>0, <3>1, <4>2
      <4> QED BY <4>1, <4>2
    <3>2. CASE u # t
      <4>1. ReadUp(u) \/ missed[u] \/ UnderWay(u)
        BY DEF HubInv, NoLostWakeup
      <4>2. missed[u] => missed'[u]
        BY <2>1, <3>0
      <4>3. UnderWay(u) => UnderWay(u)'
        BY <1>0, <1>1, <2>1, <3>0, <3>2 DEF UnderWay, Queued
      <4> QED BY <1>0, <4>1, <4>2, <4>3 DEF ReadUp
    <3> QED BY <3>1, <3>2
  <2> QED BY <1>0, <2>3, <2>4, Parts, ShapeKept, ToldKept DEF EntryArmed
<1> QED BY <1>2, <1>3

\* The handshake, the subscription, and the reader's steps: a new topic counts as read,
\* and the maps follow sub.Topics.
LEMMA ConnectionInv ==
    ASSUME HubInv,
           \/ Authenticate
           \/ \E ts \in SUBSET Topics : Subscribe(ts)
           \/ RejectSubscription
           \/ \E ts \in SUBSET Topics, subscribe \in BOOLEAN : ReadMessage(ts, subscribe)
           \/ Update
           \/ StopReading
           \/ Unsubscribe
    PROVE  HubInv'
<1>0. UNCHANGED <<ver, told, pending, chan, loop, entry, armed, push, failures>>
  BY DEF Authenticate, Subscribe, RejectSubscription, ReadMessage, Update, StopReading,
         Unsubscribe
<1>1. \A t \in Debounced : UnderWay(t)' <=> UnderWay(t)
  BY <1>0 DEF UnderWay, Queued
<1>2. EntryArmed'
  BY <1>0, Parts DEF EntryArmed
<1>3. ASSUME NEW new \in SUBSET Topics, SubscribedNow(new)
      PROVE  /\ view' \in [Debounced -> Versions]
             /\ fetched' \in [Debounced -> Versions]
             /\ missed' \in [Debounced -> BOOLEAN]
             /\ \A t \in Debounced :
                  IF t \in new THEN fetched'[t] = ver[t]
                  ELSE fetched'[t] = fetched[t] /\ missed'[t] = missed[t]
  <2>1. \A t \in Debounced : ver[t] \in Versions
    BY DEF HubInv, TypeOK, Topics
  <2>2. view' \in [Debounced -> Versions] /\ fetched' \in [Debounced -> Versions]
    BY <1>3, <2>1 DEF SubscribedNow, HubInv, TypeOK
  <2>3. missed' \in [Debounced -> BOOLEAN]
    BY <1>3 DEF SubscribedNow
  <2>4. \A t \in Debounced : t \notin new => missed'[t] = missed[t]
    BY <1>3, Zenon DEF SubscribedNow, HubInv, TypeOK
  <2> QED BY <1>3, <2>2, <2>3, <2>4 DEF SubscribedNow
<1>4. CASE Authenticate \/ RejectSubscription
  <2>1. UNCHANGED <<subs, subTopics, open, cancelled, active, reader, view, fetched,
                    missed, messages>>
        /\ handler \in {"auth", "subscription"} /\ handler' \in {"subscription", "closed"}
    BY <1>4 DEF Authenticate, RejectSubscription
  <2>2. TypeOK'
    BY <1>0, <2>1 DEF HubInv, TypeOK
  <2>3. NoLostWakeup'
    BY <1>0, <1>1, <2>1, WakeupKept DEF HubInv, ReadUp
  <2>4. Shape'
    BY <1>0, <2>1 DEF HubInv, Shape, NoSendOnClosed
  <2> QED BY <1>2, <2>2, <2>3, <2>4, <1>0, Parts, ToldKept
<1>5. ASSUME NEW ts \in SUBSET Topics, Subscribe(ts) PROVE HubInv'
  <2>1. /\ handler = "subscription" /\ handler' = "pump" /\ open' = TRUE
        /\ subs' = ts /\ subTopics' = ts /\ active' = ts /\ SubscribedNow(ts)
        /\ UNCHANGED <<cancelled, reader, messages>>
    BY <1>5 DEF Subscribe
  <2>2. TypeOK'
    BY <1>0, <1>3, <2>1 DEF HubInv, TypeOK
  <2>3. NoLostWakeup'
    <3>1. \A t \in Debounced : t \in ts => ReadUp(t)'
      BY <1>0, <1>3, <2>1, ReadsTold
    <3> QED BY <2>1, <3>1 DEF NoLostWakeup, Watched
  <2>4. Shape'
    BY <1>0, <2>1 DEF HubInv, Shape, NoSendOnClosed
  <2> QED BY <1>2, <2>2, <2>3, <2>4, <1>0, Parts, ToldKept
<1>6. ASSUME NEW ts \in SUBSET Topics, NEW subscribe \in BOOLEAN, ReadMessage(ts, subscribe)
      PROVE  HubInv'
  <2>1. /\ handler = "pump" /\ reader.pc = "read" /\ messages' \in 0..MaxMessages
        /\ active' \in {active \cup ts, active \ ts}
        /\ reader' = [pc |-> "update",
                      topics |-> IF subscribe THEN subTopics \cup ts ELSE subTopics \ ts]
        /\ UNCHANGED <<handler, subs, subTopics, open, cancelled, view, fetched, missed>>
    BY <1>6, WSHubAssumption DEF ReadMessage, HubInv, TypeOK
  <2>2. /\ reader' \in [pc : {"read", "update", "done"}, topics : SUBSET Topics]
        /\ reader'.pc = "update" /\ active' \in SUBSET Topics
    BY <2>1 DEF HubInv, TypeOK
  <2>3. TypeOK'
    BY <1>0, <2>1, <2>2 DEF HubInv, TypeOK
  <2>4. NoLostWakeup'
    <3>1. Watched' \subseteq Watched
      BY <1>6, <2>1 DEF Watched, HubInv, ReadMessage
    <3>2. \A t \in Debounced : ReadUp(t)' <=> ReadUp(t)
      BY <1>0, <2>1 DEF ReadUp
    <3>3. Watched \subseteq Debounced
      BY DEF Watched
    <3> QED BY <1>1, <2>1, <3>1, <3>2, <3>3 DEF HubInv, NoLostWakeup
  <2>5. reader'.topics = active'
    BY <1>6, <2>1 DEF ReadMessage, HubInv
  <2>6. Shape'
    BY <1>0, <2>1, <2>2, <2>5 DEF HubInv, Shape, NoSendOnClosed
  <2> QED BY <1>2, <2>3, <2>4, <2>6, <1>0, Parts, ToldKept
<1>7. CASE Update
  <2>1. /\ reader.pc = "update" /\ subs' = reader.topics /\ subTopics' = reader.topics
        /\ reader' = [reader EXCEPT !.pc = "read"]
        /\ SubscribedNow(reader.topics \ subs)
        /\ UNCHANGED <<handler, open, cancelled, active, messages>>
        /\ handler = "pump" /\ active = reader.topics
    BY <1>7 DEF Update, HubInv, TypeOK
  <2>2. /\ reader' \in [pc : {"read", "update", "done"}, topics : SUBSET Topics]
        /\ reader'.pc = "read" /\ reader.topics \in SUBSET Topics
    BY <2>1 DEF HubInv, TypeOK
  <2>3. TypeOK'
    BY <1>0, <1>3, <2>1, <2>2 DEF HubInv, TypeOK
  <2>4. NoLostWakeup'
    <3> SUFFICES ASSUME handler = "pump", ~cancelled, NEW t \in Debounced, t \in reader.topics
                 PROVE  ReadUp(t)' \/ missed'[t] \/ UnderWay(t)'
      BY <2>1 DEF NoLostWakeup, Watched
    <3>1. CASE t \in subs
      <4>1. fetched'[t] = fetched[t] /\ missed'[t] = missed[t]
        BY <1>3, <2>1, <2>2, <3>1
      <4>2. t \in Watched
        BY <2>1, <3>1, Parts DEF Watched, Shape
      <4>3. ReadUp(t)' <=> ReadUp(t)
        BY <1>0, <4>1 DEF ReadUp
      <4> QED BY <1>1, <4>1, <4>2, <4>3 DEF HubInv, NoLostWakeup
    <3>2. CASE t \notin subs
      BY <1>0, <1>3, <2>1, <2>2, <3>2, ReadsTold
    <3> QED BY <3>1, <3>2
  <2>5. Shape'
    BY <1>0, <2>1, <2>2 DEF HubInv, Shape, NoSendOnClosed
  <2> QED BY <1>2, <2>3, <2>4, <2>5, <1>0, Parts, ToldKept
<1>8. CASE StopReading
  <2>1. /\ reader' \in [pc : {"read", "update", "done"}, topics : SUBSET Topics]
        /\ reader'.pc = "done" /\ reader.pc = "read" /\ cancelled' = TRUE
        /\ UNCHANGED <<handler, subs, subTopics, open, active, view, fetched, missed,
                       messages>>
    BY <1>8 DEF StopReading, HubInv, TypeOK
  <2>2. TypeOK'
    BY <1>0, <2>1 DEF HubInv, TypeOK
  <2>3. NoLostWakeup' /\ Shape'
    BY <1>0, <1>8, <2>1 DEF HubInv, Shape, NoSendOnClosed, NoLostWakeup, StopReading
  <2> QED BY <1>2, <2>2, <2>3, <1>0, Parts, ToldKept
<1>9. CASE Unsubscribe
  <2>1. /\ handler = "pump" /\ handler' = "closed" /\ open' = FALSE /\ subs' = {}
        /\ reader.pc = "done" /\ loop = "done"
        /\ UNCHANGED <<subTopics, cancelled, active, reader, view, fetched, missed,
                       messages>>
    BY <1>9 DEF Unsubscribe, PumpDone, HubInv
  <2>2. TypeOK'
    BY <1>0, <2>1 DEF HubInv, TypeOK
  <2>3. NoLostWakeup' /\ Shape'
    BY <1>0, <2>1 DEF Shape, NoSendOnClosed, NoLostWakeup, Watched
  <2> QED BY <1>2, <2>2, <2>3, <1>0, Parts, ToldKept
<1> QED BY <1>4, <1>5, <1>6, <1>7, <1>8, <1>9

\* An event taken from the buffer leaves an armed timer behind, or its topic is no
\* longer active.
LEMMA HandleEventInv == ASSUME HubInv, HandleEvent PROVE HubInv'
<1> DEFINE t == Head(chan)
<1>0. UNCHANGED <<ver, told, pending, handler, subs, subTopics, open, cancelled, active,
                  reader, push, view, fetched, missed, messages, failures>>
  BY DEF HandleEvent
<1>1. /\ chan \in Seq(Topics) /\ chan # <<>> /\ chan' = Tail(chan)
      /\ Len(chan) <= BufferSize
  BY DEF HandleEvent, HubInv, TypeOK
<1>2. /\ t \in Topics /\ t = chan[1]
      /\ chan' \in Seq(Topics) /\ Len(chan') = Len(chan) - 1
      /\ Len(chan) \in Nat /\ Len(chan) > 0
      /\ \A i \in 2..Len(chan) : chan'[i - 1] = chan[i]
  BY <1>1
<1>3. Len(chan') <= BufferSize
  BY <1>1, <1>2, WSHubAssumption
<1>4. ASSUME NEW u, u # t, \E i \in 1..Len(chan) : chan[i] = u
      PROVE  \E i \in 1..Len(chan') : chan'[i] = u
  <2>1. PICK i \in 1..Len(chan) : chan[i] = u
    BY <1>4
  <2>2. i \in 2..Len(chan) /\ i - 1 \in 1..Len(chan')
    BY <1>2, <1>4, <2>1
  <2> QED BY <1>2, <2>1, <2>2
<1> HIDE DEF t
<1>5. CASE t \notin active \/ t \notin Debounced
  <2>1. UNCHANGED <<entry, armed>> /\ loop' \in {"select", "write"} /\ handler = "pump"
    BY <1>5 DEF HandleEvent, t
  <2>2. TypeOK'
    BY <1>0, <1>2, <1>3, <2>1 DEF HubInv, TypeOK
  <2>3. \A u \in Debounced : UnderWay(u) => UnderWay(u)' \/ u \notin active
    BY <1>0, <1>4, <1>5, <2>1 DEF UnderWay, Queued
  <2>4. NoLostWakeup'
    BY <1>0, <2>3, WakeupKept DEF HubInv, ReadUp
  <2>5. Shape' /\ EntryArmed'
    BY <1>0, <2>1, Parts DEF Shape, NoSendOnClosed, EntryArmed
  <2> QED BY <2>2, <2>4, <2>5, <1>0, Parts, ToldKept
<1>6. CASE t \in active /\ t \in Debounced
  <2>1. /\ armed' = [armed EXCEPT ![t] = IF entry[t] = "armed" THEN @ ELSE @ + 1]
        /\ entry' = [entry EXCEPT ![t] = "armed"] /\ loop' = loop
    BY <1>6 DEF HandleEvent, t
  <2>2. /\ armed' \in [Debounced -> Nat]
        /\ entry' \in [Debounced -> {"none", "armed", "fired"}]
        /\ armed'[t] > 0
        /\ \A u \in Debounced : armed'[u] >= armed[u] /\ armed[u] \in Nat
        /\ \A u \in Debounced : u # t => entry'[u] = entry[u]
    BY <1>6, <2>1 DEF HubInv, TypeOK
  <2>3. TypeOK'
    BY <1>0, <1>2, <1>3, <2>1, <2>2 DEF HubInv, TypeOK
  <2>4. ASSUME NEW u \in Debounced, UnderWay(u) PROVE UnderWay(u)'
    <3>0. armed[u] > 0 => armed'[u] > 0
      BY <2>2
    <3>1. CASE u = t
      BY <2>2, <3>1 DEF UnderWay, Queued
    <3>2. CASE u # t /\ (\E i \in 1..Len(chan) : chan[i] = u)
      BY <1>4, <3>2 DEF UnderWay, Queued
    <3>3. CASE ~(\E i \in 1..Len(chan) : chan[i] = u)
      BY <1>0, <2>4, <3>0, <3>3 DEF UnderWay, Queued
    <3> QED BY <3>1, <3>2, <3>3
  <2>5. NoLostWakeup'
    BY <1>0, <2>4, WakeupKept DEF HubInv, ReadUp
  <2>6. EntryArmed'
    <3> SUFFICES ASSUME NEW u \in Debounced, entry'[u] = "armed" PROVE armed'[u] > 0
      BY DEF EntryArmed
    <3> QED BY <2>2, Parts DEF EntryArmed
  <2>7. Shape'
    BY <1>0, <2>1, Parts, ShapeKept
  <2> QED BY <2>3, <2>5, <2>6, <2>7, <1>0, Parts, ToldKept
<1> QED BY <1>5, <1>6

\* The loop's own end cancels the context; timers still armed outside the map only push
\* to a connection that is closing.
LEMMA LoopInv == ASSUME HubInv, LoopStep PROVE HubInv'
<1>1. CASE HandleEvent
  BY <1>1, HandleEventInv
<1>2. CASE Written
  <2>1. /\ loop' = "select"
        /\ UNCHANGED <<ver, told, pending, handler, subs, subTopics, chan, open, cancelled,
                       active, reader, entry, armed, push, view, fetched, missed,
                       messages, failures>>
    BY <1>2 DEF Written
  <2>2. TypeOK'
    BY <2>1 DEF HubInv, TypeOK
  <2>3. Shape' /\ EntryArmed'
    BY <2>1, Parts DEF Shape, NoSendOnClosed, EntryArmed
  <2>4. \A t \in Debounced : UnderWay(t)' <=> UnderWay(t)
    BY <2>1 DEF UnderWay, Queued
  <2>5. NoLostWakeup'
    BY <2>1, <2>4, WakeupKept DEF HubInv, ReadUp
  <2> QED BY <2>2, <2>3, <2>1, <2>5, Parts, ToldKept
<1>3. CASE StopLoop
  <2>1. /\ loop' = "done" /\ cancelled' = TRUE
        /\ armed' = [t \in Debounced |->
                       IF entry[t] = "armed" THEN armed[t] - 1 ELSE armed[t]]
        /\ entry' = [t \in Debounced |-> IF entry[t] = "armed" THEN "fired" ELSE entry[t]]
        /\ UNCHANGED <<ver, told, pending, handler, subs, subTopics, chan, open, active, reader,
                       push, view, fetched, missed, messages>>
    BY <1>3 DEF StopLoop
  <2>2. failures' \in 0..MaxFailures
    BY <1>3, WSHubAssumption DEF StopLoop, Failing, HubInv, TypeOK
  <2>3. /\ armed' \in [Debounced -> Nat]
        /\ entry' \in [Debounced -> {"none", "armed", "fired"}]
        /\ \A t \in Debounced : entry'[t] # "armed"
    BY <2>1 DEF HubInv, TypeOK
  <2>4. TypeOK'
    BY <2>1, <2>2, <2>3 DEF HubInv, TypeOK
  <2>5. Shape' /\ EntryArmed' /\ NoLostWakeup'
    BY <2>1, <2>3, Parts DEF Shape, NoSendOnClosed, EntryArmed, NoLostWakeup
  <2> QED BY <2>4, <2>1, <2>5, Parts, ToldKept
<1> QED BY <1>1, <1>2, <1>3 DEF LoopStep

\* A timer that fires leaves a callback that will read the data.
LEMMA FireInv ==
    ASSUME HubInv, NEW t \in Debounced, NEW s \in Slots, Fire(t, s)
    PROVE  HubInv'
<1>0. UNCHANGED <<ver, told, pending, handler, subs, subTopics, chan, open, cancelled, active,
                  reader, loop, view, fetched, missed, messages, failures>>
  BY DEF Fire
<1>1. /\ armed' = [armed EXCEPT ![t] = armed[t] - 1] /\ armed[t] > 0 /\ armed[t] \in Nat
      /\ push' = [push EXCEPT ![s] = [pc |-> "lock", topic |-> t, seen |-> 0]]
      /\ push[s].pc = "free"
      /\ \/ entry[t] = "armed" /\ entry' = [entry EXCEPT ![t] = "fired"]
         \/ (entry[t] # "armed" \/ armed[t] > 1) /\ entry' = entry
  BY DEF Fire, HubInv, TypeOK
<1>2. /\ armed' \in [Debounced -> Nat]
      /\ entry' \in [Debounced -> {"none", "armed", "fired"}]
      /\ \A u \in Debounced : u # t => armed'[u] = armed[u] /\ entry'[u] = entry[u]
  <2>1. armed[t] - 1 \in Nat
    BY <1>1
  <2>2. armed \in [Debounced -> Nat] /\ entry \in [Debounced -> {"none", "armed", "fired"}]
    BY DEF HubInv, TypeOK
  <2> QED BY <1>1, <2>1, <2>2
<1>3. push' \in [Slots -> Push]
  <2>1. [pc |-> "lock", topic |-> t, seen |-> 0] \in Push
    BY WSHubAssumption DEF Push, Versions
  <2> QED BY <1>1, <2>1 DEF HubInv, TypeOK
<1>4. /\ push'[s].topic = t /\ push'[s].pc = "lock"
      /\ \A r \in Slots : r # s => push'[r] = push[r]
  BY <1>1 DEF HubInv, TypeOK
<1>5. TypeOK'
  BY <1>0, <1>2, <1>3 DEF HubInv, TypeOK
<1>6. ASSUME NEW u \in Debounced, UnderWay(u) PROVE UnderWay(u)'
  <2>1. CASE u = t
    BY <1>4, <2>1 DEF UnderWay, Queued
  <2>2. CASE u # t
    <3>1. CASE \E r \in Slots : push[r].topic = u /\ push[r].pc \in {"lock", "fetch"}
      <4>1. PICK r \in Slots : push[r].topic = u /\ push[r].pc \in {"lock", "fetch"}
        BY <3>1
      <4>2. r # s
        BY <1>1, <4>1
      <4> QED BY <1>4, <4>1, <4>2 DEF UnderWay, Queued
    <3>2. CASE ~\E r \in Slots : push[r].topic = u /\ push[r].pc \in {"lock", "fetch"}
      BY <1>0, <1>2, <1>6, <2>2, <3>2 DEF UnderWay, Queued
    <3> QED BY <3>1, <3>2
  <2> QED BY <2>1, <2>2
<1>7. NoLostWakeup'
  BY <1>0, <1>6, WakeupKept DEF HubInv, ReadUp
<1>8. EntryArmed'
  <2> SUFFICES ASSUME NEW u \in Debounced, entry'[u] = "armed" PROVE armed'[u] > 0
    BY DEF EntryArmed
  <2>1. CASE u = t
    BY <1>1, <2>1 DEF HubInv, TypeOK
  <2>2. CASE u # t
    BY <1>2, <2>2, Parts DEF EntryArmed
  <2> QED BY <2>1, <2>2
<1>9. Shape'
  BY <1>0, Parts, ShapeKept
<1> QED BY <1>5, <1>7, <1>8, <1>9, <1>0, Parts, ToldKept

\* A callback reads the data, or gives up and the topic counts as missed.
LEMMA PushInv == ASSUME HubInv, NEW s \in Slots, PushStep(s) PROVE HubInv'
<1> DEFINE t == push[s].topic
<1>0. UNCHANGED <<ver, told, pending, handler, subs, subTopics, chan, open, cancelled, active,
                  reader, loop, armed, messages>>
  BY DEF PushStep, LockPush, FetchPush, WritePush, GiveUpPush
<1>1. /\ t \in Debounced /\ ver[t] \in Versions /\ push[s].seen \in Versions
      /\ push[s] \in Push
  BY DEF HubInv, TypeOK, Push, Topics
<1>2. /\ push' \in [Slots -> Push] /\ push'[s].topic = t
      /\ \A r \in Slots : r # s => push'[r] = push[r]
  <2>1. PICK x \in Push : x.topic = t /\ push' = [push EXCEPT ![s] = x]
    <3>1. \A pc \in {"free", "fetch"} : /\ [push[s] EXCEPT !.pc = pc] \in Push
                                       /\ [push[s] EXCEPT !.pc = pc].topic = t
      BY <1>1 DEF Push
    <3>2. CASE LockPush(s)
      <4> DEFINE y == [push[s] EXCEPT !.pc = IF t \in active THEN "fetch" ELSE "free"]
      <4>1. push' = [push EXCEPT ![s] = y]
        BY <3>2 DEF LockPush
      <4>2. y \in Push /\ y.topic = t
        BY <3>1
      <4> QED BY <4>1, <4>2
    <3>3. CASE FetchPush(s)
      <4> DEFINE y == [push[s] EXCEPT !.pc = "write", !.seen = ver[t]]
      <4>1. push' = [push EXCEPT ![s] = y]
        BY <1>1, <3>3 DEF FetchPush, HubInv, TypeOK
      <4>2. y \in Push /\ y.topic = t
        BY <1>1 DEF Push
      <4> QED BY <4>1, <4>2
    <3>4. CASE WritePush(s) \/ GiveUpPush(s)
      <4> DEFINE y == [push[s] EXCEPT !.pc = "free"]
      <4>1. push' = [push EXCEPT ![s] = y]
        BY <3>4 DEF WritePush, GiveUpPush
      <4>2. y \in Push /\ y.topic = t
        BY <3>1
      <4> QED BY <4>1, <4>2
    <3> QED BY <3>2, <3>3, <3>4 DEF PushStep
  <2> QED BY <2>1 DEF HubInv, TypeOK
<1>3. Shape'
  BY <1>0, Parts, ShapeKept
<1>4. ASSUME NEW u \in Debounced, UnderWay(u), u # t PROVE UnderWay(u)'
  <2>1. CASE \E r \in Slots : push[r].topic = u /\ push[r].pc \in {"lock", "fetch"}
    <3>1. PICK r \in Slots : push[r].topic = u /\ push[r].pc \in {"lock", "fetch"}
      BY <2>1
    <3>2. r # s
      BY <1>4, <3>1
    <3> QED BY <1>2, <3>1, <3>2 DEF UnderWay, Queued
  <2>2. CASE ~\E r \in Slots : push[r].topic = u /\ push[r].pc \in {"lock", "fetch"}
    BY <1>0, <1>4, <2>2 DEF UnderWay, Queued
  <2> QED BY <2>1, <2>2
<1> HIDE DEF t
<1>5. CASE LockPush(s)
  <2>1. /\ entry' = [entry EXCEPT ![t] = "none"]
        /\ push'[s].pc = IF t \in active THEN "fetch" ELSE "free"
        /\ UNCHANGED <<view, fetched, missed, failures>>
    BY <1>5 DEF LockPush, HubInv, TypeOK, t
  <2>2. TypeOK'
    BY <1>0, <1>2, <2>1 DEF HubInv, TypeOK
  <2>3. EntryArmed'
    BY <1>0, <2>1, Parts DEF EntryArmed, HubInv, TypeOK
  <2>4. ASSUME NEW u \in Debounced, UnderWay(u) PROVE UnderWay(u)' \/ u \notin active
    BY <1>2, <1>4, <2>1, <2>4 DEF UnderWay, Queued
  <2>5. NoLostWakeup'
    BY <1>0, <2>1, <2>4, WakeupKept DEF HubInv, ReadUp
  <2> QED BY <1>3, <2>2, <2>3, <2>5, <1>0, Parts, ToldKept
<1>6. CASE FetchPush(s)
  <2>1. /\ fetched' = [fetched EXCEPT ![t] = ver[t]]
        /\ missed' = [missed EXCEPT ![t] = FALSE]
        /\ UNCHANGED <<view, failures, entry>>
    BY <1>6 DEF FetchPush, t
  <2>2. /\ fetched' \in [Debounced -> Versions] /\ fetched'[t] = ver[t]
        /\ missed' \in [Debounced -> BOOLEAN]
        /\ \A u \in Debounced : u # t => fetched'[u] = fetched[u] /\ missed'[u] = missed[u]
    BY <1>1, <2>1 DEF HubInv, TypeOK, t
  <2>3. TypeOK'
    BY <1>0, <1>2, <2>1, <2>2 DEF HubInv, TypeOK
  <2>4. NoLostWakeup'
    <3>1. \A u \in Debounced : u = t => ReadUp(u)'
      BY <1>0, <2>2, ReadsTold
    <3>2. \A u \in Debounced : ReadUp(u) => ReadUp(u)'
      BY <1>0, <2>2, <3>1 DEF ReadUp
    <3>3. \A u \in Debounced : missed[u] => missed'[u] \/ ReadUp(u)'
      BY <2>2, <3>1
    <3> QED BY <1>0, <1>4, <3>1, <3>2, <3>3, WakeupKept DEF HubInv
  <2>5. EntryArmed'
    BY <1>0, <2>1, Parts DEF EntryArmed
  <2> QED BY <1>3, <2>3, <2>4, <2>5, <1>0, Parts, ToldKept
<1>7. CASE WritePush(s)
  <2>1. /\ view' = [view EXCEPT ![t] = push[s].seen] /\ push[s].pc = "write"
        /\ UNCHANGED <<fetched, missed, failures, entry>>
    BY <1>7 DEF WritePush, t
  <2>2. TypeOK'
    BY <1>0, <1>1, <1>2, <2>1 DEF HubInv, TypeOK
  <2>3. ASSUME NEW u \in Debounced, UnderWay(u) PROVE UnderWay(u)'
    <3>1. \A r \in Slots : push[r].pc \in {"lock", "fetch"} => push'[r] = push[r]
      BY <1>2, <2>1
    <3> QED BY <1>0, <2>3, <3>1 DEF UnderWay, Queued
  <2>4. NoLostWakeup'
    BY <1>0, <2>1, <2>3, WakeupKept DEF HubInv, ReadUp
  <2>5. EntryArmed'
    BY <1>0, <2>1, Parts DEF EntryArmed
  <2> QED BY <1>3, <2>2, <2>4, <2>5, <1>0, Parts, ToldKept
<1>8. CASE GiveUpPush(s)
  <2>1. missed' = [missed EXCEPT ![t] = TRUE] /\ UNCHANGED <<view, fetched, entry>>
    BY <1>8 DEF GiveUpPush, t
  <2>2. failures' \in 0..MaxFailures
    BY <1>8, WSHubAssumption DEF GiveUpPush, Failing, HubInv, TypeOK
  <2>3. /\ missed' \in [Debounced -> BOOLEAN] /\ missed'[t]
        /\ \A u \in Debounced : missed[u] => missed'[u]
    BY <1>1, <2>1 DEF HubInv, TypeOK, t
  <2>4. TypeOK'
    BY <1>0, <1>2, <2>1, <2>2, <2>3 DEF HubInv, TypeOK
  <2>5. NoLostWakeup'
    BY <1>0, <1>4, <2>1, <2>3, WakeupKept DEF HubInv, ReadUp
  <2>6. EntryArmed'
    BY <1>0, <2>1, Parts DEF EntryArmed
  <2> QED BY <1>3, <2>4, <2>5, <2>6, <1>0, Parts, ToldKept
<1> QED BY <1>5, <1>6, <1>7, <1>8 DEF PushStep

\* Every step preserves the invariant.
LEMMA NextInv == HubInv /\ [Next]_vars => HubInv'
<1> SUFFICES ASSUME HubInv, [Next]_vars PROVE HubInv'
  OBVIOUS
<1>1. CASE UNCHANGED vars
  BY <1>1 DEF vars, HubInv, TypeOK, NoSendOnClosed, NoLostWakeup, Watched, UnderWay, Queued, ReadUp
<1>2. CASE Next
  BY <1>2, CommitInv, PublishInv, ConnectionInv, LoopInv, FireInv, PushInv DEF Next
<1> QED BY <1>1, <1>2

\* HubInv holds in every reachable state.
THEOREM HubInvariant == Spec => []HubInv
<1>1. Init => HubInv
  BY InitInv
<1>2. HubInv /\ [Next]_vars => HubInv'
  BY NextInv
<1> QED BY <1>1, <1>2, PTL DEF Spec

\* Publish never sends on the closed channel of a connection that has ended.
THEOREM PublishIsSafe == Spec => []NoSendOnClosed
<1>1. HubInv => NoSendOnClosed
  BY DEF HubInv
<1> QED BY <1>1, HubInvariant, PTL

\* No published change is lost between the write and the read for a push, through full buffers that
\* hold an event of the topic, resets, removed timers and changes of the topics, for any number of
\* timers and callbacks.
THEOREM WakeupsKept == Spec => []NoLostWakeup
<1>1. HubInv => NoLostWakeup
  BY DEF HubInv
<1> QED BY <1>1, HubInvariant, PTL

\* The types of the connection's state; the buffer never exceeds its size.
THEOREM TypeCorrect == Spec => []TypeOK
<1>1. HubInv => TypeOK
  BY DEF HubInv
<1> QED BY <1>1, HubInvariant, PTL
=============================================================================
