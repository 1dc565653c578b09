----------------------------- MODULE HostMatch -----------------------------
(***************************************************************************)
(* Snapshot ingestion and advisory matching for the hosts of one advisory  *)
(* scope.                                                                  *)
(*                                                                         *)
(* Three kinds of code write the rows this module keeps: the ingestion     *)
(* handlers (IngestAgentSnapshot, RunSSHPull, IngestManualReport), which   *)
(* commit a snapshot and then match it OUTSIDE that transaction; the       *)
(* advisory sync worker, which replaces the scope's advisory rows and      *)
(* rematches every host of the scope; and DeleteHost.  Every matcher runs  *)
(* MatchSnapshot, whose reads of the host's product streams happen before  *)
(* its transaction begins.  PostgreSQL runs at READ COMMITTED: each        *)
(* statement of the match sees what is committed when it starts, and the   *)
(* row lock of LockHost is the only thing that orders two matches.         *)
(*                                                                         *)
(* Advisory data is abstracted to the links <<product stream, advisory>>   *)
(* that hold in PostgreSQL; a decision is a link that hits the host with a *)
(* status other than "resolved" (resolved ones are counted by nothing).    *)
(***************************************************************************)
EXTENDS Naturals, FiniteSets

CONSTANTS
    Hosts,        \* registered and approved hosts
    Ingesters,    \* ingestion handlers that may run at the same time
    Syncer,       \* the advisory_sync job of the scope (one runs at a time)
    Streams,      \* product stream ids
    Advisories,   \* advisory ids
    Builds,       \* published advisory databases of the scope
    Links,        \* Links[b]: the rows of database b
    None,         \* no host, no lock holder
    MaxSnapshots, \* bound: snapshots ever committed
    MaxImports,   \* bound: imports ever committed
    MaxFailures   \* bound: failed matches and process crashes

Matchers == Ingesters \cup {Syncer}
Snapshots == 1..MaxSnapshots
NoSnapshot == 0

ASSUME HostMatchAssumption ==
    /\ Syncer \notin Ingesters
    /\ None \notin Hosts \cup Matchers
    /\ Links \in [Builds -> SUBSET (Streams \X Advisories)]
    /\ MaxSnapshots \in Nat
    /\ MaxImports \in Nat
    /\ MaxFailures \in Nat

VARIABLES
    live,      \* ids present in hosts
    owner,     \* host_snapshots: the snapshot's host_id, None when no row
    nextSnap,  \* next snapshot id; ids increase in commit order
    lastSnap,  \* hosts.last_snapshot_id
    scoped,    \* hosts whose advisory_scope_key is the scope
    state,     \* host_current_state, snap = NoSnapshot when no row
    records,   \* decision_records of a snapshot: the advisories recorded
    links,     \* the scope's rows of advisory_product_streams
    hostLock,  \* holder of the row lock on hosts(id)
    match,     \* what each matcher has read so far, and where it is
    todo,      \* host/snapshot pairs MatchHostsForScope has yet to rematch
    imports,   \* imports committed so far
    failures   \* failures so far

vars == <<live, owner, nextSnap, lastSnap, scoped, state, records, links,
          hostLock, match, todo, imports, failures>>

StreamsOf(lnk) == {l[1] : l \in lnk}
AdvisoriesOf(lnk) == {l[2] : l \in lnk}

\* aggregateHostCurrentState counts decisions; the model keeps the set counted.
StateRow == [snap  : Snapshots \cup {NoSnapshot},
             how   : {"none", "ingested", "matched", "investigate"},
             shown : SUBSET Advisories]
NoState == [snap |-> NoSnapshot, how |-> "none", shown |-> {}]

\* "register": after the ingestion commit.  "match": MatchSnapshot called.
\* "begin": streams resolved, transaction not begun.  From "advisories",
\* "rules", "insert" and "investigate" the transaction is open.  "list" and
\* "next" are MatchHostsForScope's own steps.
PC == {"idle", "register", "match", "begin", "advisories", "rules", "insert",
       "investigate", "list", "next"}
InTx == {"advisories", "rules", "insert", "investigate"}
InMatch == {"match", "begin"} \cup InTx

MatchRow == [pc       : PC,
             host     : Hosts \cup {None},
             snap     : Snapshots \cup {NoSnapshot},
             streams  : SUBSET Streams,
             advs     : SUBSET Advisories,
             decided  : SUBSET (Streams \X Advisories),
             seen     : SUBSET Advisories,
             imports  : 0..MaxImports]
At(pc, h, s) == [pc |-> pc, host |-> h, snap |-> s, streams |-> {},
                 advs |-> {}, decided |-> {}, seen |-> {}, imports |-> 0]
Idle == At("idle", None, NoSnapshot)

TypeOK ==
    /\ live \in SUBSET Hosts
    /\ owner \in [Snapshots -> Hosts \cup {None}]
    /\ nextSnap \in 1..(MaxSnapshots + 1)
    /\ lastSnap \in [Hosts -> Snapshots \cup {NoSnapshot}]
    /\ scoped \in SUBSET Hosts
    /\ state \in [Hosts -> StateRow]
    /\ records \in [Snapshots -> SUBSET Advisories]
    /\ links \in SUBSET (Streams \X Advisories)
    /\ hostLock \in [Hosts -> Matchers \cup {None}]
    /\ match \in [Matchers -> MatchRow]
    /\ todo \in SUBSET (Hosts \X Snapshots)
    /\ imports \in 0..MaxImports
    /\ failures \in 0..MaxFailures

Init ==
    /\ live = Hosts
    /\ owner = [s \in Snapshots |-> None]
    /\ nextSnap = 1
    /\ lastSnap = [h \in Hosts |-> NoSnapshot]
    /\ scoped = {}
    /\ state = [h \in Hosts |-> NoState]
    /\ records = [s \in Snapshots |-> {}]
    /\ links = {}
    /\ hostLock = [h \in Hosts |-> None]
    /\ match = [p \in Matchers |-> Idle]
    /\ todo = {}
    /\ imports = 0
    /\ failures = 0

-----------------------------------------------------------------------------
(* Row locks *)

\* A statement that updates or locks the host row waits for another's FOR UPDATE.
RowFreeMutant(h) == TRUE
RowFree(h) == hostLock[h] = None

\* The end of a match's transaction releases its row lock.
Unlocked(p) == [h \in Hosts |-> IF hostLock[h] = p THEN None ELSE hostLock[h]]

-----------------------------------------------------------------------------
(* Ingestion *)

\* The ingestion transaction: snapshot row, hosts.last_snapshot_id and a
\* host_current_state row with zero counts, committed together.  Its insert
\* needs a KEY SHARE lock on the host row, so it waits for a match's FOR UPDATE.
IngestSnapshot(p, h) ==
    /\ p \in Ingesters
    /\ match[p].pc = "idle"
    /\ h \in live
    /\ RowFree(h)
    /\ nextSnap <= MaxSnapshots
    /\ owner' = [owner EXCEPT ![nextSnap] = h]
    /\ lastSnap' = [lastSnap EXCEPT ![h] = nextSnap]
    /\ state' = [state EXCEPT ![h] =
                    [snap |-> nextSnap, how |-> "ingested", shown |-> {}]]
    /\ match' = [match EXCEPT ![p] = At("register", h, nextSnap)]
    /\ nextSnap' = nextSnap + 1
    /\ UNCHANGED <<live, scoped, records, links, hostLock, todo, imports,
                   failures>>

\* After the commit the handler resolves the scope key, registers demand for
\* it and writes it to the host row; any error is logged and the match runs.
RegisterScope(p) ==
    LET h == match[p].host IN
    /\ match[p].pc = "register"
    /\ \/ /\ RowFree(h)
          /\ scoped' = IF h \in live THEN scoped \cup {h} ELSE scoped
          /\ UNCHANGED failures
       \/ /\ failures < MaxFailures
          /\ failures' = failures + 1
          /\ UNCHANGED scoped
    /\ match' = [match EXCEPT ![p].pc = "match"]
    /\ UNCHANGED <<live, owner, nextSnap, lastSnap, state, records, links,
                   hostLock, todo, imports>>

-----------------------------------------------------------------------------
(* MatchSnapshot *)

\* Where a matcher goes when MatchSnapshot returns, with or without an error:
\* an ingestion handler is done, MatchHostsForScope takes the next host.
Returned(p) == IF p = Syncer THEN At("next", None, NoSnapshot) ELSE Idle

\* Snapshot, host and product streams are read outside the transaction; a
\* missing snapshot or host row is an error.
ReadStreams(p) ==
    LET m == match[p] IN
    /\ m.pc = "match"
    /\ match' = [match EXCEPT ![p] =
                   IF m.host \in live /\ owner[m.snap] = m.host
                   THEN [m EXCEPT !.pc = "begin", !.streams = StreamsOf(links)]
                   ELSE Returned(p)]
    /\ UNCHANGED <<live, owner, nextSnap, lastSnap, scoped, state, records,
                   links, hostLock, todo, imports, failures>>

\* BEGIN; SELECT ... FOR UPDATE, which waits for the holder and reports no
\* error when the row is gone; DELETE of the snapshot's decision records, which
\* removes the ones this statement sees.
LockHost(p) ==
    LET m == match[p] IN
    /\ m.pc = "begin"
    /\ RowFree(m.host)
    /\ hostLock' = IF m.host \in live
                   THEN [hostLock EXCEPT ![m.host] = p] ELSE hostLock
    /\ match' = [match EXCEPT
                   ![p].pc = IF m.streams = {} THEN "investigate" ELSE "advisories",
                   ![p].seen = records[m.snap]]
    /\ UNCHANGED <<live, owner, nextSnap, lastSnap, scoped, state, records,
                   links, todo, imports, failures>>

\* The first query of loadAdvisoryDataForStreams, for the streams read earlier.
ListAdvisories(p) ==
    LET m == match[p] IN
    /\ m.pc = "advisories"
    /\ match' = [match EXCEPT
                   ![p].pc = "rules",
                   ![p].advs = {l[2] : l \in {k \in links : k[1] \in m.streams}},
                   ![p].imports = imports]
    /\ UNCHANGED <<live, owner, nextSnap, lastSnap, scoped, state, records,
                   links, hostLock, todo, imports, failures>>

\* The remaining queries (stream links, rules, fixes) and buildDecisions.  Each
\* query has its own snapshot, so an import may have committed since the first.
BuildDecisions(p) ==
    LET m == match[p] IN
    /\ m.pc = "rules"
    /\ match' = [match EXCEPT
                   ![p].pc = "insert",
                   ![p].decided = {l \in links : l[1] \in m.streams /\ l[2] \in m.advs}]
    /\ UNCHANGED <<live, owner, nextSnap, lastSnap, scoped, state, records,
                   links, hostLock, todo, imports, failures>>

\* The error return: rollback, nothing written.
Rollback(p) ==
    /\ hostLock' = Unlocked(p)
    /\ match' = [match EXCEPT ![p] = Returned(p)]
    /\ UNCHANGED <<live, owner, nextSnap, lastSnap, scoped, state, records,
                   links, todo, imports>>

\* aggregateHostCurrentState: every decision that is not resolved is counted,
\* also those whose insert was skipped.
AggregatedMutant(decided) == {}
Aggregated(decided) == AdvisoriesOf(decided)

\* Foreign keys of host_current_state: the upsert fails without its host and
\* snapshot rows.
StateReferencesMutant(p) == TRUE
StateReferences(p) ==
    match[p].host \in live /\ owner[match[p].snap] = match[p].host

\* Insert every decision under a savepoint, skipping the ones whose advisory
\* row is gone; upsert host_current_state with the counts of ALL decisions,
\* skipped ones included; commit.  When an import replaced the rows since the
\* advisories were listed, an insert that waited for it does not see the new
\* rows either, so any decision may be skipped.
CommitMatch(p) ==
    LET m == match[p] IN
    /\ m.pc = "insert"
    /\ StateReferences(p)
    /\ \E skipped \in SUBSET m.decided :
         LET kept == m.decided \ skipped IN
         /\ \A l \in m.decided : l[2] \notin AdvisoriesOf(links) => l \in skipped
         /\ m.imports = imports =>
               \A l \in skipped : l[2] \notin AdvisoriesOf(links)
         /\ StreamsOf(kept) \subseteq StreamsOf(links)
         /\ AdvisoriesOf(kept) \cap (records[m.snap] \ m.seen) = {}
         /\ records' = [records EXCEPT ![m.snap] =
                          (@ \ m.seen) \cup AdvisoriesOf(kept)]
    /\ state' = [state EXCEPT ![m.host] =
                   [snap |-> m.snap, how |-> "matched",
                    shown |-> Aggregated(m.decided)]]
    /\ hostLock' = Unlocked(p)
    /\ match' = [match EXCEPT ![p] = Returned(p)]
    /\ UNCHANGED <<live, owner, nextSnap, lastSnap, scoped, links, todo,
                   imports, failures>>

\* No product stream resolved: the records are deleted and the state row says
\* "investigate".
CommitInvestigate(p) ==
    LET m == match[p] IN
    /\ m.pc = "investigate"
    /\ StateReferences(p)
    /\ records' = [records EXCEPT ![m.snap] = @ \ m.seen]
    /\ state' = [state EXCEPT ![m.host] =
                   [snap |-> m.snap, how |-> "investigate", shown |-> {}]]
    /\ hostLock' = Unlocked(p)
    /\ match' = [match EXCEPT ![p] = Returned(p)]
    /\ UNCHANGED <<live, owner, nextSnap, lastSnap, scoped, links, todo,
                   imports, failures>>

\* What fails a match at its inserts: the host or snapshot row is gone; a
\* decision's product stream was replaced while its advisory stayed; a record
\* another transaction committed has the same key; an import deleted the stream
\* and waits for the advisory this match already refers to (a deadlock).
ViolatesConstraint(p) ==
    LET m == match[p] IN
    \/ ~StateReferences(p)
    \/ /\ m.pc = "insert"
       /\ \/ \E l \in m.decided : /\ l[2] \in AdvisoriesOf(links)
                                  /\ l[1] \notin StreamsOf(links)
          \/ AdvisoriesOf(m.decided) \cap (records[m.snap] \ m.seen) # {}
          \/ m.imports # imports /\ m.decided # {}
RejectMatch(p) ==
    /\ match[p].pc \in {"insert", "investigate"}
    /\ ViolatesConstraint(p)
    /\ Rollback(p)
    /\ UNCHANGED failures

\* Any other error: a lost connection, a deadlock victim, a cancelled context.
FailMatch(p) ==
    /\ match[p].pc \in InMatch
    /\ failures < MaxFailures
    /\ failures' = failures + 1
    /\ Rollback(p)

-----------------------------------------------------------------------------
(* The advisory sync of the scope *)

\* ImportAdvisoryDB and its commit: every stream of the scope is deleted, with
\* it the advisories that no longer have one, and ON DELETE CASCADE takes the
\* decision records of those advisories (of every snapshot) along; then the
\* rows of the new database are inserted.
ImportBuild(b) ==
    /\ match[Syncer].pc = "idle"
    /\ imports < MaxImports
    /\ imports' = imports + 1
    /\ links' = Links[b]
    /\ records' = [s \in Snapshots |-> records[s] \ AdvisoriesOf(links)]
    /\ match' = [match EXCEPT ![Syncer].pc = "list"]
    /\ UNCHANGED <<live, owner, nextSnap, lastSnap, scoped, state, hostLock,
                   todo, failures>>

\* The periodic refresh found the recorded checksum: no import, rematch only.
SkipImportMutant == match[Syncer].pc = "idle" /\ UNCHANGED vars
SkipImport ==
    /\ match[Syncer].pc = "idle"
    /\ match' = [match EXCEPT ![Syncer].pc = "list"]
    /\ UNCHANGED <<live, owner, nextSnap, lastSnap, scoped, state, records,
                   links, hostLock, todo, imports, failures>>

\* MatchHostsForScope passes over hosts that never sent a snapshot.
HasSnapshot(h) == lastSnap[h] # NoSnapshot

\* MatchHostsForScope lists the hosts of the scope and their last snapshots.
ListHosts ==
    /\ match[Syncer].pc = "list"
    /\ todo' = {<<h, lastSnap[h]>> : h \in {g \in live \cap scoped : HasSnapshot(g)}}
    /\ match' = [match EXCEPT ![Syncer].pc = "next"]
    /\ UNCHANGED <<live, owner, nextSnap, lastSnap, scoped, state, records,
                   links, hostLock, imports, failures>>

RematchNext ==
    /\ match[Syncer].pc = "next"
    /\ \E t \in todo :
         /\ todo' = todo \ {t}
         /\ match' = [match EXCEPT ![Syncer] = At("match", t[1], t[2])]
    /\ UNCHANGED <<live, owner, nextSnap, lastSnap, scoped, state, records,
                   links, hostLock, imports, failures>>

FinishSync ==
    /\ match[Syncer].pc = "next"
    /\ todo = {}
    /\ match' = [match EXCEPT ![Syncer] = Idle]
    /\ UNCHANGED <<live, owner, nextSnap, lastSnap, scoped, state, records,
                   links, hostLock, todo, imports, failures>>

-----------------------------------------------------------------------------
(* Deletion and restarts *)

\* DeleteHost: its first UPDATE waits for the row lock; the snapshots take
\* their decision records along.
DeleteHost(h) ==
    /\ h \in live
    /\ RowFree(h)
    /\ live' = live \ {h}
    /\ scoped' = scoped \ {h}
    /\ lastSnap' = [lastSnap EXCEPT ![h] = NoSnapshot]
    /\ state' = [state EXCEPT ![h] = NoState]
    /\ owner' = [s \in Snapshots |-> IF owner[s] = h THEN None ELSE owner[s]]
    /\ records' = [s \in Snapshots |-> IF owner[s] = h THEN {} ELSE records[s]]
    /\ UNCHANGED <<nextSnap, links, hostLock, match, todo, imports, failures>>

\* The server stops: open transactions roll back, handlers are lost.
Crash ==
    /\ failures < MaxFailures
    /\ failures' = failures + 1
    /\ hostLock' = [h \in Hosts |-> None]
    /\ match' = [p \in Matchers |-> Idle]
    /\ todo' = {}
    /\ UNCHANGED <<live, owner, nextSnap, lastSnap, scoped, state, records,
                   links, imports>>

-----------------------------------------------------------------------------
MatchStep(p) ==
    \/ ReadStreams(p)
    \/ LockHost(p)
    \/ ListAdvisories(p)
    \/ BuildDecisions(p)
    \/ CommitMatch(p)
    \/ CommitInvestigate(p)
    \/ RejectMatch(p)

HandlerStep(p) == RegisterScope(p) \/ MatchStep(p)
SyncStep == ListHosts \/ RematchNext \/ FinishSync

Next ==
    \/ \E p \in Ingesters, h \in Hosts : IngestSnapshot(p, h)
    \/ \E p \in Matchers : HandlerStep(p) \/ FailMatch(p)
    \/ \E b \in Builds : ImportBuild(b)
    \/ SkipImport
    \/ SyncStep
    \/ \E h \in Hosts : DeleteHost(h)
    \/ Crash

\* Handlers and the sync worker keep running; the periodic job starts a sync
\* again and again.  Ingestion, imports, deletion and failures may never happen.
Fairness ==
    /\ \A p \in Matchers : WF_vars(HandlerStep(p))
    /\ WF_vars(SyncStep)
    /\ WF_vars(SkipImport)

Spec == Init /\ [][Next]_vars
FairSpec == Spec /\ Fairness

-----------------------------------------------------------------------------
(* Properties *)

\* Rows refer to rows that exist: a state row, the last snapshot and decision
\* records belong to a live host and to one of its own snapshots, whatever
\* match was in flight when the host was deleted (DeleteHost removes them in an
\* order that satisfies the foreign keys; a late match must not resurrect one).
NoOrphanRows ==
    /\ \A h \in Hosts :
         /\ state[h].snap # NoSnapshot => h \in live /\ owner[state[h].snap] = h
         /\ lastSnap[h] # NoSnapshot => h \in live /\ owner[lastSnap[h]] = h
    /\ \A s \in Snapshots :
         /\ owner[s] # None => owner[s] \in live
         /\ records[s] # {} => owner[s] # None

\* A match that has the host's row lock never meets a decision record it did not
\* delete itself: two matches of one snapshot cannot collide on
\* decision_records_unique_idx, and no record of an older match survives.
NoForeignRecords ==
    \A p \in Matchers :
        match[p].pc \in InTx => records[match[p].snap] \subseteq match[p].seen

\* The counts shown for a host never miss a decision record that the host's page
\* lists: the upsert and the inserts commit together, and an import only removes
\* records.
CountsCoverRecords ==
    \A h \in Hosts :
        state[h].snap # NoSnapshot => records[state[h].snap] \subseteq state[h].shown

\* A match with an open transaction holds the row lock of its host, unless the host
\* was gone when LockHost looked for it.
LockHeld ==
    \A p \in Matchers :
        match[p].pc \in InTx /\ match[p].host \in live =>
            hostLock[match[p].host] = p

\* Snapshot ids are handed out once: an id not yet used has no row, and a match or
\* a rematch still to do names a snapshot that belonged to its host.
SnapshotsOwned ==
    /\ \A s \in Snapshots : s >= nextSnap => owner[s] = None
    /\ \A p \in Matchers :
         match[p].pc \in InMatch \cup {"register"} =>
            /\ match[p].host \in Hosts
            /\ match[p].snap \in Snapshots
            /\ match[p].snap < nextSnap
            /\ owner[match[p].snap] \in {None, match[p].host}
    /\ \A t \in todo : t[2] < nextSnap /\ owner[t[2]] \in {None, t[1]}

\* The inductive invariant: row locks are what keeps two matches of a snapshot from
\* seeing each other's records.
MatchInv ==
    /\ TypeOK
    /\ NoOrphanRows
    /\ LockHeld
    /\ SnapshotsOwned
    /\ NoForeignRecords
    /\ CountsCoverRecords

\* What the dashboard should show for a host: the latest snapshot, matched against
\* the advisories now in the database, with a record for each one counted.
UpToDate(h) ==
    LET now == AdvisoriesOf(links) IN
    /\ state[h].snap = lastSnap[h]
    /\ state[h].how = IF links = {} THEN "investigate" ELSE "matched"
    /\ state[h].shown = now
    /\ records[lastSnap[h]] = now

\* Once snapshots, imports, deletions and failures stop, the periodic syncs bring
\* every host of the scope up to date and keep it so, whatever stale matches were
\* committed before (matcher errors are only logged, so this is the only repair).
EventuallyUpToDate ==
    <>[](\A h \in live \cap scoped : lastSnap[h] # NoSnapshot => UpToDate(h))

\* What docs/architecture/matching-engine.md says of a sync: when the sync has
\* finished and no handler is running, every host of the scope that has a snapshot
\* shows the advisories now in the database.
AdvisoriesReflected ==
    (\A p \in Matchers : match[p].pc = "idle") =>
        \A h \in live \cap scoped :
            lastSnap[h] # NoSnapshot /\ imports > 0 =>
                state[h].shown = AdvisoriesOf(links)
=============================================================================
