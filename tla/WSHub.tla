------------------------------- MODULE WSHub -------------------------------
(***************************************************************************)
(* The live updates of one dashboard connection: the event broker           *)
(* (internal/events), the WebSocket hub's two goroutines and the debounced   *)
(* pushes that its timers start (internal/ws).                               *)
(*                                                                         *)
(* The data behind a debounced topic is its version: every committed write  *)
(* makes a new one.  Most writes publish an event for the topic afterwards; *)
(* some never do (CommitSilently).  The broker keeps subscribers apart by   *)
(* id, so one connection is enough.  The broker's methods and handleEvent   *)
(* run under a mutex and are atomic.                                        *)
(***************************************************************************)
EXTENDS Naturals, Sequences

CONSTANTS
    Debounced,    \* "hosts" and "advisories": pushed with their data after 50 ms
    Immediate,    \* "host:{id}": a notification only
    BufferSize,   \* subscriberBufferSize
    Slots,        \* bound: callbacks that run at the same time
    MaxChanges,   \* bound: committed writes per topic
    MaxMessages,  \* bound: subscribe and unsubscribe messages
    MaxFailures   \* bound: failed fetches and writes

Topics == Debounced \cup Immediate

ASSUME WSHubAssumption ==
    /\ Debounced \cap Immediate = {}
    /\ BufferSize \in Nat
    /\ MaxChanges \in Nat
    /\ MaxMessages \in Nat
    /\ MaxFailures \in Nat

VARIABLES
    ver,       \* version of each topic's data
    pending,   \* writes that are committed and not yet published
    told,      \* history: version of the last write that publishes
    handler,   \* where HandleWS is
    subs,      \* topics whose subscriber map holds this connection's channel
    subTopics, \* sub.Topics
    chan,      \* sub.Events
    open,      \* the channel is not closed
    cancelled, \* the pump's context is done
    active,    \* activeTopics
    reader,    \* readLoop: where it is and the topics it is about to set
    loop,      \* eventLoop
    entry,     \* debouncers: the state of the timer in the map
    armed,     \* timers that will fire, in the map or not
    push,      \* callbacks of fired timers
    view,      \* version of the last push the client received
    fetched,   \* history: the latest version read for a push
    missed,    \* history: an event was crowded out, or a push failed, since the last read
    messages,  \* client messages so far
    failures   \* failures so far

vars == <<ver, told, pending, handler, subs, subTopics, chan, open, cancelled, active,
          reader, loop, entry, armed, push, view, fetched, missed, messages, failures>>

Versions == 0..MaxChanges
Push == [pc : {"free", "lock", "fetch", "write"}, topic : Debounced, seen : Versions]

TypeOK ==
    /\ ver \in [Topics -> Versions]
    /\ told \in [Topics -> Versions]
    /\ pending \in [Topics -> Nat]
    /\ handler \in {"auth", "subscription", "pump", "closed"}
    /\ subs \in SUBSET Topics
    /\ subTopics \in SUBSET Topics
    /\ chan \in Seq(Topics) /\ Len(chan) <= BufferSize
    /\ open \in BOOLEAN
    /\ cancelled \in BOOLEAN
    /\ active \in SUBSET Topics
    /\ reader \in [pc : {"read", "update", "done"}, topics : SUBSET Topics]
    /\ loop \in {"select", "write", "done"}
    /\ entry \in [Debounced -> {"none", "armed", "fired"}]
    /\ armed \in [Debounced -> Nat]
    /\ push \in [Slots -> Push]
    /\ view \in [Debounced -> Versions]
    /\ fetched \in [Debounced -> Versions]
    /\ missed \in [Debounced -> BOOLEAN]
    /\ messages \in 0..MaxMessages
    /\ failures \in 0..MaxFailures

Init ==
    /\ ver = [t \in Topics |-> 0]
    /\ told = [t \in Topics |-> 0]
    /\ pending = [t \in Topics |-> 0]
    /\ handler = "auth"
    /\ subs = {}
    /\ subTopics = {}
    /\ chan = <<>>
    /\ open = FALSE
    /\ cancelled = FALSE
    /\ active = {}
    /\ reader = [pc |-> "read", topics |-> {}]
    /\ loop = "select"
    /\ entry = [t \in Debounced |-> "none"]
    /\ armed = [t \in Debounced |-> 0]
    /\ push \in [Slots -> [pc : {"free"}, topic : Debounced, seen : {0}]]
    /\ view = [t \in Debounced |-> 0]
    /\ fetched = [t \in Debounced |-> 0]
    /\ missed = [t \in Debounced |-> FALSE]
    /\ messages = 0
    /\ failures = 0

Failing == failures < MaxFailures /\ failures' = failures + 1

\* From the subscription to a topic on, a client counts on seeing its changes.
SubscribedNow(new) ==
    /\ view' = [t \in Debounced |-> IF t \in new THEN ver[t] ELSE view[t]]
    /\ fetched' = [t \in Debounced |-> IF t \in new THEN ver[t] ELSE fetched[t]]
    /\ missed' = [t \in Debounced |-> t \notin new /\ missed[t]]

-----------------------------------------------------------------------------
(* Writers: a service commits, then publishes *)

Commit(t) ==
    /\ ver[t] < MaxChanges
    /\ ver' = [ver EXCEPT ![t] = @ + 1]
    /\ told' = [told EXCEPT ![t] = ver[t] + 1]
    /\ pending' = [pending EXCEPT ![t] = @ + 1]
    /\ UNCHANGED <<handler, subs, subTopics, chan, open, cancelled, active, reader,
                   loop, entry, armed, push, view, fetched, missed, messages, failures>>

\* A write to what a topic shows that publishes nothing: the onboarding of an SSH host,
\* and a scope that becomes pending or syncing (RegisterScopeDemand, the start of
\* SyncScope, TriggerManualSync).
CommitSilently(t) ==
    /\ ver[t] < MaxChanges
    /\ ver' = [ver EXCEPT ![t] = @ + 1]
    /\ UNCHANGED <<told, pending, handler, subs, subTopics, chan, open, cancelled,
                   active, reader, loop, entry, armed, push, view, fetched, missed,
                   messages, failures>>

\* Publish sends without blocking: a full buffer drops the event.  The topic is read
\* all the same if the buffer holds an event of its own; otherwise the events of other
\* topics have crowded it out.
HasRoom == Len(chan) < BufferSize
Queued(t) == \E i \in 1..Len(chan) : chan[i] = t
Publish(t) ==
    /\ pending[t] > 0
    /\ pending' = [pending EXCEPT ![t] = @ - 1]
    /\ IF t \in subs /\ HasRoom
       THEN chan' = Append(chan, t) /\ UNCHANGED missed
       ELSE /\ missed' = [u \in Debounced |->
                            missed[u] \/ (u = t /\ t \in subs /\ ~Queued(t))]
            /\ UNCHANGED chan
    /\ UNCHANGED <<ver, told, handler, subs, subTopics, open, cancelled, active, reader,
                   loop, entry, armed, push, view, fetched, messages, failures>>

-----------------------------------------------------------------------------
(* HandleWS *)

\* The auth message is valid, or the connection is closed.
Authenticate ==
    /\ handler = "auth"
    /\ handler' \in {"subscription", "closed"}
    /\ UNCHANGED <<ver, told, pending, subs, subTopics, chan, open, cancelled, active, reader,
                   loop, entry, armed, push, view, fetched, missed, messages, failures>>

\* The first subscribe message; Subscribe; the pump starts its goroutines.
Subscribe(ts) ==
    /\ handler = "subscription"
    /\ ts # {}
    /\ handler' = "pump"
    /\ open' = TRUE
    /\ subs' = ts
    /\ subTopics' = ts
    /\ active' = ts
    /\ SubscribedNow(ts)
    /\ UNCHANGED <<ver, told, pending, chan, cancelled, reader, loop, entry, armed, push,
                   messages, failures>>

RejectSubscription ==
    /\ handler = "subscription"
    /\ handler' = "closed"
    /\ UNCHANGED <<ver, told, pending, subs, subTopics, chan, open, cancelled, active, reader,
                   loop, entry, armed, push, view, fetched, missed, messages, failures>>

\* wg.Wait returned: the deferred Unsubscribe closes the channel and removes it from
\* the maps of sub.Topics.
PumpDone == reader.pc = "done" /\ loop = "done"
UnsubscribeMutant ==
    /\ handler = "pump"
    /\ loop = "done"
    /\ handler' = "closed"
    /\ open' = FALSE
    /\ subs' = subs \ subTopics
    /\ UNCHANGED <<ver, told, pending, subTopics, chan, cancelled, active, reader, loop, entry,
                   armed, push, view, fetched, missed, messages, failures>>
Unsubscribe ==
    /\ handler = "pump"
    /\ PumpDone
    /\ handler' = "closed"
    /\ open' = FALSE
    /\ subs' = subs \ subTopics
    /\ UNCHANGED <<ver, told, pending, subTopics, chan, cancelled, active, reader, loop, entry,
                   armed, push, view, fetched, missed, messages, failures>>

-----------------------------------------------------------------------------
(* readLoop *)

\* A subscribe or unsubscribe message: the active topics change first.
ReadMessage(ts, subscribe) ==
    /\ handler = "pump"
    /\ reader.pc = "read"
    /\ ts # {}
    /\ messages < MaxMessages
    /\ messages' = messages + 1
    /\ active' = IF subscribe THEN active \cup ts ELSE active \ ts
    /\ reader' = [pc |-> "update",
                  topics |-> IF subscribe THEN subTopics \cup ts ELSE subTopics \ ts]
    /\ UNCHANGED <<ver, told, pending, handler, subs, subTopics, chan, open, cancelled, loop,
                   entry, armed, push, view, fetched, missed, failures>>

\* broker.Update.
\* Fault: only the topics that are new are entered again.
UpdateMutant ==
    /\ reader.pc = "update"
    /\ subs' = (subs \ subTopics) \cup (reader.topics \ subTopics)
    /\ subTopics' = reader.topics
    /\ SubscribedNow(reader.topics \ subs)
    /\ reader' = [reader EXCEPT !.pc = "read"]
    /\ UNCHANGED <<ver, told, pending, handler, chan, open, cancelled, active, loop, entry,
                   armed, push, messages, failures>>
Update ==
    /\ reader.pc = "update"
    /\ subs' = (subs \ subTopics) \cup reader.topics
    /\ subTopics' = reader.topics
    /\ SubscribedNow(reader.topics \ subs)
    /\ reader' = [reader EXCEPT !.pc = "read"]
    /\ UNCHANGED <<ver, told, pending, handler, chan, open, cancelled, active, loop, entry,
                   armed, push, messages, failures>>

\* A read error (the client went away) or a cancelled context ends the loop, and its
\* end cancels the other one.
StopReading ==
    /\ handler = "pump"
    /\ reader.pc = "read"
    /\ reader' = [reader EXCEPT !.pc = "done"]
    /\ cancelled' = TRUE
    /\ UNCHANGED <<ver, told, pending, handler, subs, subTopics, chan, open, active, loop,
                   entry, armed, push, view, fetched, missed, messages, failures>>

-----------------------------------------------------------------------------
(* eventLoop *)

\* handleEvent.  A debounced topic's timer is created, or reset: a timer in the map
\* that has already fired is armed again.  A notification is written, which blocks.
\* Events of topics the client dropped meanwhile are ignored.
HandleEvent ==
    /\ handler = "pump"
    /\ loop = "select"
    /\ chan # <<>>
    /\ chan' = Tail(chan)
    /\ LET t == Head(chan) IN
       IF t \notin active
       THEN UNCHANGED <<entry, armed, loop>>
       ELSE IF t \in Debounced
            THEN /\ armed' = [armed EXCEPT ![t] = IF entry[t] = "armed" THEN @ ELSE @ + 1]
                 /\ entry' = [entry EXCEPT ![t] = "armed"]
                 /\ UNCHANGED loop
            ELSE loop' = "write" /\ UNCHANGED <<entry, armed>>
    /\ UNCHANGED <<ver, told, pending, handler, subs, subTopics, open, cancelled, active,
                   reader, push, view, fetched, missed, messages, failures>>

\* The notification was written, or failed and was logged.
Written ==
    /\ loop = "write"
    /\ loop' = "select"
    /\ UNCHANGED <<ver, told, pending, handler, subs, subTopics, chan, open, cancelled, active,
                   reader, entry, armed, push, view, fetched, missed, messages, failures>>

\* A cancelled context, or a ping that could not be written: the timers in the map
\* are stopped.
StopLoopMutant ==
    /\ handler = "pump"
    /\ loop = "select"
    /\ ~cancelled /\ Failing
    /\ loop' = "done"
    /\ cancelled' = TRUE
    /\ armed' = [t \in Debounced |-> IF entry[t] = "armed" THEN armed[t] - 1 ELSE armed[t]]
    /\ entry' = [t \in Debounced |-> IF entry[t] = "armed" THEN "fired" ELSE entry[t]]
    /\ UNCHANGED <<ver, told, pending, handler, subs, subTopics, chan, open, active, reader,
                   push, view, fetched, missed, messages>>
StopLoop ==
    /\ handler = "pump"
    /\ loop = "select"
    /\ \/ cancelled /\ UNCHANGED failures
       \/ ~cancelled /\ Failing
    /\ loop' = "done"
    /\ cancelled' = TRUE
    /\ armed' = [t \in Debounced |-> IF entry[t] = "armed" THEN armed[t] - 1 ELSE armed[t]]
    /\ entry' = [t \in Debounced |-> IF entry[t] = "armed" THEN "fired" ELSE entry[t]]
    /\ UNCHANGED <<ver, told, pending, handler, subs, subTopics, chan, open, active, reader,
                   push, view, fetched, missed, messages>>

-----------------------------------------------------------------------------
(* Debounced pushes *)

\* A timer's window is over: its callback starts.  It is the one in the map, or one
\* that a callback removed from the map after it had been reset.
Fire(t, s) ==
    /\ armed[t] > 0
    /\ push[s].pc = "free"
    /\ armed' = [armed EXCEPT ![t] = @ - 1]
    /\ push' = [push EXCEPT ![s] = [pc |-> "lock", topic |-> t, seen |-> 0]]
    /\ \/ entry[t] = "armed" /\ entry' = [entry EXCEPT ![t] = "fired"]
       \/ (entry[t] # "armed" \/ armed[t] > 1) /\ UNCHANGED entry
    /\ UNCHANGED <<ver, told, pending, handler, subs, subTopics, chan, open, cancelled, active,
                   reader, loop, view, fetched, missed, messages, failures>>

\* The callback removes the topic's map entry, whichever timer is in it, and stops
\* here when the client dropped the topic.
LockPush(s) ==
    LET t == push[s].topic IN
    /\ push[s].pc = "lock"
    /\ entry' = [entry EXCEPT ![t] = "none"]
    /\ push' = [push EXCEPT ![s].pc = IF t \in active THEN "fetch" ELSE "free"]
    /\ UNCHANGED <<ver, told, pending, handler, subs, subTopics, chan, open, cancelled, active,
                   reader, loop, armed, view, fetched, missed, messages, failures>>

\* pushHosts and pushAdvisories: the data is read, then written; no two pushes
\* exclude each other between the two.
FetchPush(s) ==
    LET t == push[s].topic IN
    /\ push[s].pc = "fetch"
    /\ ~cancelled
    /\ push' = [push EXCEPT ![s].pc = "write", ![s].seen = ver[t]]
    /\ fetched' = [fetched EXCEPT ![t] = ver[t]]
    /\ missed' = [missed EXCEPT ![t] = FALSE]
    /\ UNCHANGED <<ver, told, pending, handler, subs, subTopics, chan, open, cancelled, active,
                   reader, loop, entry, armed, view, messages, failures>>

WritePush(s) ==
    LET t == push[s].topic IN
    /\ push[s].pc = "write"
    /\ ~cancelled
    /\ view' = [view EXCEPT ![t] = push[s].seen]
    /\ push' = [push EXCEPT ![s].pc = "free"]
    /\ UNCHANGED <<ver, told, pending, handler, subs, subTopics, chan, open, cancelled, active,
                   reader, loop, entry, armed, fetched, missed, messages, failures>>

\* A failed read or write is logged and the push is given up.
GiveUpPush(s) ==
    /\ push[s].pc \in {"fetch", "write"}
    /\ \/ cancelled /\ UNCHANGED failures
       \/ ~cancelled /\ Failing
    /\ missed' = [missed EXCEPT ![push[s].topic] = TRUE]
    /\ push' = [push EXCEPT ![s].pc = "free"]
    /\ UNCHANGED <<ver, told, pending, handler, subs, subTopics, chan, open, cancelled, active,
                   reader, loop, entry, armed, view, fetched, messages>>

-----------------------------------------------------------------------------
PushStep(s) == LockPush(s) \/ FetchPush(s) \/ WritePush(s) \/ GiveUpPush(s)
LoopStep == HandleEvent \/ Written \/ StopLoop

Next ==
    \/ \E t \in Topics : Commit(t) \/ CommitSilently(t) \/ Publish(t)
    \/ Authenticate
    \/ \E ts \in SUBSET Topics : Subscribe(ts)
    \/ RejectSubscription
    \/ \E ts \in SUBSET Topics, subscribe \in BOOLEAN : ReadMessage(ts, subscribe)
    \/ Update
    \/ StopReading
    \/ LoopStep
    \/ Unsubscribe
    \/ \E t \in Debounced, s \in Slots : Fire(t, s)
    \/ \E s \in Slots : PushStep(s)

\* Goroutines run, timers fire, and a read returns once the context is cancelled.
Fairness ==
    /\ \A t \in Topics : WF_vars(Publish(t))
    /\ WF_vars(Update)
    /\ WF_vars(cancelled /\ StopReading)
    /\ WF_vars(LoopStep)
    /\ WF_vars(Unsubscribe)
    /\ \A t \in Debounced : WF_vars(\E s \in Slots : Fire(t, s))
    /\ \A s \in Slots : WF_vars(PushStep(s))

Spec == Init /\ [][Next]_vars
FairSpec == Spec /\ Fairness

-----------------------------------------------------------------------------
(* Properties *)

\* Publish never sends on a closed channel, which would panic under the broker's lock:
\* a topic map only holds the channel while it is open, whatever Update the reader was
\* about to make when the connection ended.
NoSendOnClosed == subs # {} => open

\* The topics a connection counts on: it asked for them and the loop knows them.
Watched == (subTopics \cap active) \cap Debounced

\* The data of the topic was read since the last write that publishes.
ReadUp(t) == fetched[t] >= told[t]

\* Something is still on its way that ends in a read of the topic's data.
UnderWay(t) ==
    \/ pending[t] > 0
    \/ Queued(t)
    \/ armed[t] > 0
    \/ \E s \in Slots : push[s].topic = t /\ push[s].pc \in {"lock", "fetch"}

\* No published change is lost on the way to a client: the data of a topic it watches
\* was read after the last write that publishes, or an event, timer or callback that
\* will read it is under way.  (An event may meet a full buffer, a reset a timer that
\* has fired, a callback may remove a timer it did not start, and the topics change
\* while events are under way.)  Excused is a topic whose event was dropped while the
\* buffer was full of other topics' events, until its next event, and one whose last
\* push failed.  Of writes that publish nothing this says nothing.
NoLostWakeup ==
    handler = "pump" /\ ~cancelled =>
        \A t \in Watched : ReadUp(t) \/ missed[t] \/ UnderWay(t)

\* The inductive invariant: the broker's maps follow sub.Topics, and outside the
\* reader's step from one to the other the hub and the broker agree on the topics.
HubInv ==
    /\ TypeOK
    /\ NoSendOnClosed
    /\ NoLostWakeup
    /\ handler # "closed" => subs = subTopics
    /\ handler \in {"auth", "subscription"} => subs = {} /\ reader.pc = "read"
    /\ handler = "pump" => /\ open
                           /\ active = IF reader.pc = "update" THEN reader.topics ELSE subs
    /\ handler = "closed" => subs = {} /\ reader.pc # "update"
    /\ handler # "pump" => loop # "write"
    /\ \A t \in Debounced : entry[t] = "armed" => armed[t] > 0
    /\ \A t \in Topics : told[t] <= ver[t]

\* When the connection ends HandleWS returns and the channel is removed: no goroutine
\* waits for another.
CloseCompletes == cancelled ~> handler = "closed"
=============================================================================
