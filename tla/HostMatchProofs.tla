-------------------------- MODULE HostMatchProofs --------------------------
(***************************************************************************)
(* MatchInv is an inductive invariant of HostMatch for every set of hosts,  *)
(* handlers, streams, advisories and builds and every bound.  The proof has *)
(* one lemma per action (or group of actions that touch the same rows); the *)
(* heart of it is CommitMatchInv, where the row lock of LockHost shows that *)
(* no other transaction has the snapshot open.                              *)
(***************************************************************************)
EXTENDS HostMatch, TLAPS

USE HostMatchAssumption DEF Matchers, Snapshots, NoSnapshot

\* The initial state, with empty tables and no handler running, satisfies MatchInv.
LEMMA InitInv == Init => MatchInv
<1> SUFFICES ASSUME Init PROVE MatchInv
  OBVIOUS
<1>1. TypeOK
  BY DEF Init, TypeOK, NoState, StateRow, Idle, At, MatchRow, PC
<1>2. NoOrphanRows
  BY DEF Init, NoOrphanRows, NoState
<1>3. LockHeld /\ SnapshotsOwned /\ NoForeignRecords
  BY DEF Init, LockHeld, SnapshotsOwned, NoForeignRecords, Idle, At, InTx, InMatch
<1>4. CountsCoverRecords
  BY DEF Init, CountsCoverRecords, NoState
<1> QED
  BY <1>1, <1>2, <1>3, <1>4 DEF MatchInv

\* IngestSnapshot commits a fresh snapshot: nobody has read it and it has no record.
LEMMA IngestInv ==
    ASSUME MatchInv, NEW p \in Ingesters, NEW h \in Hosts, IngestSnapshot(p, h)
    PROVE  MatchInv'
<1> USE DEF MatchInv
<1>0. nextSnap \in Snapshots /\ h # None /\ p \in Matchers
  BY DEF IngestSnapshot, TypeOK
<1>1. TypeOK'
  BY <1>0 DEF IngestSnapshot, TypeOK, StateRow, Idle, At, MatchRow, PC
<1>a. \A q \in Matchers : q # p => match'[q] = match[q]
  BY DEF IngestSnapshot, TypeOK
<1>b. match'[p].pc = "register" /\ match'[p].host = h /\ match'[p].snap = nextSnap
  BY <1>0 DEF IngestSnapshot, TypeOK, At
<1>c. \A s \in Snapshots : owner'[s] = IF s = nextSnap THEN h ELSE owner[s]
  BY DEF IngestSnapshot, TypeOK
<1>d. \A g \in Hosts : g # h => state'[g] = state[g] /\ lastSnap'[g] = lastSnap[g]
  BY DEF IngestSnapshot, TypeOK
<1>e. state'[h].snap = nextSnap /\ state'[h].shown = {} /\ lastSnap'[h] = nextSnap
  BY DEF IngestSnapshot, TypeOK
<1>f. owner[nextSnap] = None /\ records[nextSnap] = {}
  BY <1>0 DEF SnapshotsOwned, NoOrphanRows, TypeOK
<1>u. h \in live /\ UNCHANGED <<live, records, hostLock, todo>> /\ nextSnap' = nextSnap + 1
  BY DEF IngestSnapshot
<1>g. \A g \in Hosts : /\ state[g].snap \in Snapshots \cup {NoSnapshot}
                       /\ lastSnap[g] \in Snapshots \cup {NoSnapshot}
  BY DEF TypeOK, StateRow
<1>2. NoOrphanRows'
  <2>1. ASSUME NEW g \in Hosts, g # h
        PROVE  /\ state'[g].snap # NoSnapshot => g \in live' /\ owner'[state'[g].snap] = g
               /\ lastSnap'[g] # NoSnapshot => g \in live' /\ owner'[lastSnap'[g]] = g
    BY <2>1, <1>0, <1>c, <1>d, <1>f, <1>g, <1>u DEF NoOrphanRows
  <2>2. /\ h \in live'
        /\ owner'[state'[h].snap] = h
        /\ owner'[lastSnap'[h]] = h
    BY <1>0, <1>c, <1>e, <1>u
  <2>3. ASSUME NEW s \in Snapshots
        PROVE  /\ owner'[s] # None => owner'[s] \in live'
               /\ records'[s] # {} => owner'[s] # None
    BY <1>0, <1>c, <1>f, <1>u DEF NoOrphanRows
  <2> QED
    BY <2>1, <2>2, <2>3 DEF NoOrphanRows
<1>3. LockHeld'
  BY <1>a, <1>b, <1>u DEF LockHeld, InTx
<1>4. SnapshotsOwned'
  <2>1. \A s \in Snapshots : s >= nextSnap' => owner'[s] = None
    BY <1>0, <1>c, <1>u DEF SnapshotsOwned
  <2>2. ASSUME NEW q \in Matchers, match'[q].pc \in InMatch \cup {"register"}
        PROVE  /\ match'[q].host \in Hosts
               /\ match'[q].snap \in Snapshots
               /\ match'[q].snap < nextSnap'
               /\ owner'[match'[q].snap] \in {None, match'[q].host}
    <3>1. CASE q = p
      BY <3>1, <1>0, <1>b, <1>c, <1>u
    <3>2. CASE q # p
      BY <3>2, <2>2, <1>0, <1>a, <1>c, <1>u DEF SnapshotsOwned
    <3> QED
      BY <3>1, <3>2
  <2>3. \A t \in todo' : t[2] < nextSnap' /\ owner'[t[2]] \in {None, t[1]}
    BY <1>0, <1>c, <1>u DEF SnapshotsOwned, TypeOK
  <2> QED
    BY <2>1, <2>2, <2>3 DEF SnapshotsOwned
<1>5. NoForeignRecords'
  BY <1>a, <1>b, <1>u DEF NoForeignRecords, InTx
<1>6. CountsCoverRecords'
  BY <1>d, <1>e, <1>f, <1>u DEF CountsCoverRecords
<1> QED
  BY <1>1, <1>2, <1>3, <1>4, <1>5, <1>6

\* A step that writes no table, keeps every other matcher where it is, and either
\* moves its own matcher forward on the same host and snapshot or ends its match.
MatcherMoves(p) ==
    /\ UNCHANGED <<live, owner, nextSnap, lastSnap, state, records>>
    /\ todo' \subseteq todo
    /\ \A q \in Matchers : q # p => match'[q] = match[q]
    /\ \A h \in Hosts : \/ hostLock'[h] = hostLock[h]
                        \/ hostLock[h] = p /\ match'[p].pc \notin InTx
    /\ \/ match'[p].pc \notin InMatch \cup {"register"}
       \/ /\ match[p].pc \in InMatch \cup {"register"}
          /\ match'[p].host = match[p].host
          /\ match'[p].snap = match[p].snap
          /\ match'[p].pc \in InTx =>
                match[p].pc \in InTx /\ match'[p].seen = match[p].seen

\* Such a step keeps MatchInv: the tables and what the other matchers know are as
\* before, and a lock is given up only at the end of its holder's transaction.
LEMMA MovesInv ==
    ASSUME MatchInv, TypeOK', NEW p \in Matchers, MatcherMoves(p)
    PROVE  MatchInv'
<1> USE DEF MatchInv
<1>u. UNCHANGED <<live, owner, nextSnap, lastSnap, state, records>> /\ todo' \subseteq todo
  BY DEF MatcherMoves
<1>a. \A q \in Matchers : q # p => match'[q] = match[q]
  BY DEF MatcherMoves
<1>2. NoOrphanRows'
  BY <1>u DEF NoOrphanRows
<1>3. LockHeld'
  <2> SUFFICES ASSUME NEW q \in Matchers, match'[q].pc \in InTx, match'[q].host \in live
               PROVE  hostLock'[match'[q].host] = q
    BY <1>u DEF LockHeld
  <2>1. match[q].pc \in InTx /\ match'[q].host = match[q].host
    BY <1>a DEF MatcherMoves, InMatch
  <2>2. match[q].host \in Hosts /\ hostLock[match[q].host] = q
    BY <2>1 DEF LockHeld, TypeOK
  <2> QED
    BY <2>1, <2>2 DEF MatcherMoves
<1>4. SnapshotsOwned'
  BY <1>a, <1>u DEF SnapshotsOwned, MatcherMoves
<1>5. NoForeignRecords'
  BY <1>a, <1>u DEF NoForeignRecords, MatcherMoves, InMatch
<1>6. CountsCoverRecords'
  BY <1>u DEF CountsCoverRecords
<1> QED
  BY <1>2, <1>3, <1>4, <1>5, <1>6

\* RegisterScope writes only the host's scope key.
LEMMA RegisterInv ==
    ASSUME MatchInv, NEW p \in Matchers, RegisterScope(p)
    PROVE  MatchInv'
<1> DEFINE row == [match[p] EXCEPT !.pc = "match"]
<1>t. match[p] \in MatchRow
  BY DEF MatchInv, TypeOK
<1>r. row \in MatchRow
  BY <1>t DEF MatchInv, TypeOK, MatchRow, PC
<1>e. match' = [match EXCEPT ![p] = row]
  BY DEF RegisterScope
<1> HIDE DEF row
<1>f. match' \in [Matchers -> MatchRow]
  BY <1>r, <1>e DEF MatchInv, TypeOK
<1>u. /\ UNCHANGED <<live, owner, nextSnap, lastSnap, state, records, links,
                     hostLock, todo, imports>>
      /\ scoped' \subseteq Hosts
      /\ failures' \in 0..MaxFailures
  BY DEF RegisterScope, MatchInv, TypeOK
<1>1. TypeOK'
  BY <1>f, <1>u DEF MatchInv, TypeOK
<1>2. MatcherMoves(p)
  BY DEF RegisterScope, MatchInv, TypeOK, MatcherMoves, MatchRow, InMatch, InTx
<1> QED
  BY <1>1, <1>2, MovesInv

\* ReadStreams only reads.
LEMMA ReadInv ==
    ASSUME MatchInv, NEW p \in Matchers, ReadStreams(p)
    PROVE  MatchInv'
<1>0. StreamsOf(links) \subseteq Streams
  BY DEF MatchInv, TypeOK, StreamsOf
<1> DEFINE row == IF match[p].host \in live /\ owner[match[p].snap] = match[p].host
                  THEN [match[p] EXCEPT !.pc = "begin", !.streams = StreamsOf(links)]
                  ELSE Returned(p)
<1>t. match[p] \in MatchRow
  BY DEF MatchInv, TypeOK
<1>r. row \in MatchRow
  <2>1. [match[p] EXCEPT !.pc = "begin", !.streams = StreamsOf(links)] \in MatchRow
    BY <1>t, <1>0 DEF MatchRow, PC
  <2>2. Returned(p) \in MatchRow
    BY DEF MatchRow, PC, Returned, Idle, At
  <2> QED
    BY <2>1, <2>2
<1>e. match' = [match EXCEPT ![p] = row]
  BY DEF ReadStreams
<1> HIDE DEF row
<1>f. match' \in [Matchers -> MatchRow]
  BY <1>r, <1>e DEF MatchInv, TypeOK
<1>u. UNCHANGED <<live, owner, nextSnap, lastSnap, scoped, state, records, links,
                  hostLock, todo, imports, failures>>
  BY DEF ReadStreams
<1>1. TypeOK'
  BY <1>f, <1>u DEF MatchInv, TypeOK
<1>2. MatcherMoves(p)
  BY DEF ReadStreams, MatchInv, TypeOK, MatcherMoves, MatchRow, InMatch, InTx, Returned, Idle, At
<1> QED
  BY <1>1, <1>2, MovesInv

\* The queries inside the transaction only read.
LEMMA ListAdvisoriesInv ==
    ASSUME MatchInv, NEW p \in Matchers, ListAdvisories(p)
    PROVE  MatchInv'
<1>0. {l[2] : l \in {k \in links : k[1] \in match[p].streams}} \subseteq Advisories
  BY DEF MatchInv, TypeOK
<1> DEFINE row == [match[p] EXCEPT
       !.pc = "rules",
       !.advs = {l[2] : l \in {k \in links : k[1] \in match[p].streams}},
       !.imports = imports]
<1>t. match[p] \in MatchRow
  BY DEF MatchInv, TypeOK
<1>r. row \in MatchRow
  BY <1>t, <1>0 DEF MatchInv, TypeOK, MatchRow, PC
<1>e. match' = [match EXCEPT ![p] = row]
  BY DEF ListAdvisories
<1> HIDE DEF row
<1>f. match' \in [Matchers -> MatchRow]
  BY <1>r, <1>e DEF MatchInv, TypeOK
<1>u. UNCHANGED <<live, owner, nextSnap, lastSnap, scoped, state, records, links,
                  hostLock, todo, imports, failures>>
  BY DEF ListAdvisories
<1>1. TypeOK'
  BY <1>f, <1>u DEF MatchInv, TypeOK
<1>2. MatcherMoves(p)
  <2>1. \A q \in Matchers : match'[q] = IF q = p THEN row ELSE match[q]
    BY <1>e DEF MatchInv, TypeOK
  <2>2. row.host = match[p].host /\ row.snap = match[p].snap /\ row.seen = match[p].seen
    BY <1>t DEF row, MatchRow
  <2> QED
    BY <2>1, <2>2 DEF ListAdvisories, MatcherMoves, InMatch, InTx
<1> QED
  BY <1>1, <1>2, MovesInv

\* The remaining queries of the match fill in its decisions and write no row.
LEMMA BuildDecisionsInv ==
    ASSUME MatchInv, NEW p \in Matchers, BuildDecisions(p)
    PROVE  MatchInv'
<1> DEFINE row == [match[p] EXCEPT
       !.pc = "insert",
       !.decided = {l \in links : l[1] \in match[p].streams /\ l[2] \in match[p].advs}]
<1>t. match[p] \in MatchRow
  BY DEF MatchInv, TypeOK
<1>r. row \in MatchRow
  BY <1>t DEF MatchInv, TypeOK, MatchRow, PC
<1>e. match' = [match EXCEPT ![p] = row]
  BY DEF BuildDecisions
<1> HIDE DEF row
<1>f. match' \in [Matchers -> MatchRow]
  BY <1>r, <1>e DEF MatchInv, TypeOK
<1>u. UNCHANGED <<live, owner, nextSnap, lastSnap, scoped, state, records, links,
                  hostLock, todo, imports, failures>>
  BY DEF BuildDecisions
<1>1. TypeOK'
  BY <1>f, <1>u DEF MatchInv, TypeOK
<1>2. MatcherMoves(p)
  BY DEF BuildDecisions, MatchInv, TypeOK, MatcherMoves, MatchRow, InMatch, InTx
<1> QED
  BY <1>1, <1>2, MovesInv

\* An error return writes nothing and releases the lock.
LEMMA RollbackInv ==
    ASSUME MatchInv, NEW p \in Matchers, Rollback(p), failures' \in 0..MaxFailures
    PROVE  MatchInv'
<1>1. TypeOK'
  BY DEF Rollback, Unlocked, MatchInv, TypeOK, MatchRow, PC, Returned, Idle, At
<1>2. MatcherMoves(p)
  BY DEF Rollback, Unlocked, MatchInv, TypeOK, MatcherMoves, MatchRow, InMatch, InTx,
         Returned, Idle, At
<1> QED
  BY <1>1, <1>2, MovesInv

\* The sync worker's own steps read the hosts and pick the next one.
LEMMA FinishInv ==
    ASSUME MatchInv, SkipImport \/ FinishSync
    PROVE  MatchInv'
<1> DEFINE row == [match[Syncer] EXCEPT !.pc = "list"]
<1>t. match[Syncer] \in MatchRow
  BY DEF MatchInv, TypeOK
<1>r. row \in MatchRow /\ Idle \in MatchRow
  BY <1>t DEF MatchRow, PC, Idle, At
<1>e. match' = [match EXCEPT ![Syncer] = row] \/ match' = [match EXCEPT ![Syncer] = Idle]
  BY DEF SkipImport, FinishSync
<1> HIDE DEF row
<1>1. TypeOK'
  BY <1>r, <1>e DEF SkipImport, FinishSync, MatchInv, TypeOK
<1>2. MatcherMoves(Syncer)
  BY DEF SkipImport, FinishSync, MatchInv, TypeOK, MatcherMoves, MatchRow, InMatch, InTx,
         Idle, At
<1> QED
  BY <1>1, <1>2, MovesInv

\* LockHost takes the free row lock and deletes what it sees: from here on the
\* snapshot's records are within what it saw.
LEMMA LockHostInv ==
    ASSUME MatchInv, NEW p \in Matchers, LockHost(p)
    PROVE  MatchInv'
<1> USE DEF MatchInv
<1> DEFINE h == match[p].host
           row == [match[p] EXCEPT
                     !.pc = IF match[p].streams = {} THEN "investigate" ELSE "advisories",
                     !.seen = records[match[p].snap]]
<1>t. match[p] \in MatchRow /\ match[p].pc = "begin"
  BY DEF LockHost, TypeOK
<1>o. h \in Hosts /\ match[p].snap \in Snapshots
  BY <1>t DEF SnapshotsOwned, InMatch
<1>r. row \in MatchRow
  BY <1>t, <1>o DEF MatchRow, PC, TypeOK
<1>s. /\ row.pc \in InTx /\ row.host = h /\ row.snap = match[p].snap
      /\ row.seen = records[match[p].snap]
  BY <1>t DEF MatchRow, InTx
<1>e. match' = [match EXCEPT ![p] = row]
  BY DEF LockHost
<1>u. /\ UNCHANGED <<live, owner, nextSnap, lastSnap, scoped, state, records, links,
                     todo, imports, failures>>
      /\ hostLock[h] = None
      /\ hostLock' = IF h \in live THEN [hostLock EXCEPT ![h] = p] ELSE hostLock
  BY DEF LockHost, RowFree
<1> HIDE DEF row, h
<1>m. \A q \in Matchers : match'[q] = IF q = p THEN row ELSE match[q]
  BY <1>e DEF TypeOK
<1>1. TypeOK'
  <2>1. match' \in [Matchers -> MatchRow]
    BY <1>r, <1>e DEF TypeOK
  <2>2. hostLock' \in [Hosts -> Matchers \cup {None}]
    BY <1>o, <1>u DEF TypeOK
  <2> QED
    BY <2>1, <2>2, <1>u DEF TypeOK
<1>2. NoOrphanRows' /\ CountsCoverRecords'
  BY <1>u DEF NoOrphanRows, CountsCoverRecords
<1>3. LockHeld'
  <2> SUFFICES ASSUME NEW q \in Matchers, match'[q].pc \in InTx, match'[q].host \in live
               PROVE  hostLock'[match'[q].host] = q
    BY <1>u DEF LockHeld
  <2>1. CASE q = p
    BY <2>1, <1>m, <1>o, <1>s, <1>u DEF TypeOK
  <2>2. CASE q # p
    <3>1. match[q].host \in Hosts /\ hostLock[match[q].host] = q
      BY <2>2, <1>m DEF LockHeld, TypeOK
    <3>2. match[q].host # h
      BY <3>1, <1>u
    <3> QED
      BY <2>2, <3>1, <3>2, <1>m, <1>u, <1>o DEF TypeOK
  <2> QED
    BY <2>1, <2>2
<1>4. SnapshotsOwned'
  BY <1>t, <1>m, <1>s, <1>u DEF SnapshotsOwned, InMatch, h
<1>5. NoForeignRecords'
  BY <1>m, <1>s, <1>u DEF NoForeignRecords
<1> QED
  BY <1>1, <1>2, <1>3, <1>4, <1>5

\* MatchHostsForScope lists last snapshots, each one its host's own.
LEMMA ListHostsInv ==
    ASSUME MatchInv, ListHosts
    PROVE  MatchInv'
<1> USE DEF MatchInv
<1> DEFINE row == [match[Syncer] EXCEPT !.pc = "next"]
<1>t. match[Syncer] \in MatchRow
  BY DEF TypeOK
<1>r. row \in MatchRow /\ row.pc = "next"
  BY <1>t DEF MatchRow, PC
<1>e. match' = [match EXCEPT ![Syncer] = row]
  BY DEF ListHosts
<1>u. UNCHANGED <<live, owner, nextSnap, lastSnap, scoped, state, records, links, hostLock,
                  imports, failures>>
  BY DEF ListHosts
<1>d. \A x \in todo' : \E g \in live : lastSnap[g] # NoSnapshot /\ x = <<g, lastSnap[g]>>
  BY DEF ListHosts, HasSnapshot
<1> HIDE DEF row
<1>m. \A q \in Matchers : match'[q] = IF q = Syncer THEN row ELSE match[q]
  BY <1>e DEF TypeOK
<1>1. TypeOK'
  <2>1. match' \in [Matchers -> MatchRow]
    BY <1>r, <1>e DEF TypeOK
  <2>2. todo' \in SUBSET (Hosts \X Snapshots)
    BY <1>d DEF TypeOK
  <2> QED
    BY <2>1, <2>2, <1>u DEF TypeOK
<1>2. NoOrphanRows' /\ CountsCoverRecords'
  BY <1>u DEF NoOrphanRows, CountsCoverRecords
<1>3. LockHeld' /\ NoForeignRecords'
  BY <1>m, <1>r, <1>u DEF LockHeld, NoForeignRecords, InTx
<1>4. SnapshotsOwned'
  <2>1. ASSUME NEW x \in todo'
        PROVE  x[2] < nextSnap /\ owner[x[2]] \in {None, x[1]}
    <3>1. PICK g \in live : lastSnap[g] # NoSnapshot /\ x = <<g, lastSnap[g]>>
      BY <1>d
    <3>2. g \in Hosts /\ lastSnap[g] \in Snapshots /\ owner[lastSnap[g]] = g /\ g # None
      BY <3>1 DEF NoOrphanRows, TypeOK
    <3>3. ~(lastSnap[g] >= nextSnap)
      BY <3>2 DEF SnapshotsOwned
    <3> QED
      BY <3>1, <3>2, <3>3 DEF TypeOK
  <2>2. \A q \in Matchers : match'[q].pc \in InMatch \cup {"register"} => match'[q] = match[q]
    BY <1>m, <1>r DEF InMatch, InTx
  <2> QED
    BY <2>1, <2>2, <1>u DEF SnapshotsOwned
<1> QED
  BY <1>1, <1>2, <1>3, <1>4

\* The next rematch starts from a pair on the list.
LEMMA RematchNextInv ==
    ASSUME MatchInv, RematchNext
    PROVE  MatchInv'
<1> USE DEF MatchInv
<1>1. PICK x \in todo : /\ todo' = todo \ {x}
                        /\ match' = [match EXCEPT ![Syncer] = At("match", x[1], x[2])]
  BY DEF RematchNext
<1>2. /\ x[1] \in Hosts /\ x[2] \in Snapshots
      /\ x[2] < nextSnap /\ owner[x[2]] \in {None, x[1]}
  BY DEF TypeOK, SnapshotsOwned
<1>u. UNCHANGED <<live, owner, nextSnap, lastSnap, scoped, state, records, links, hostLock,
                  imports, failures>>
  BY DEF RematchNext
<1>3. At("match", x[1], x[2]) \in MatchRow
  BY <1>2 DEF At, MatchRow, PC
<1>4. /\ At("match", x[1], x[2]).pc = "match"
      /\ At("match", x[1], x[2]).host = x[1]
      /\ At("match", x[1], x[2]).snap = x[2]
  BY DEF At
<1>m. \A q \in Matchers :
        match'[q] = IF q = Syncer THEN At("match", x[1], x[2]) ELSE match[q]
  BY <1>1 DEF TypeOK
<1>5. TypeOK'
  <2>1. match' \in [Matchers -> MatchRow]
    BY <1>1, <1>3 DEF TypeOK
  <2> QED
    BY <2>1, <1>1, <1>u DEF TypeOK
<1>6. NoOrphanRows' /\ CountsCoverRecords'
  BY <1>u DEF NoOrphanRows, CountsCoverRecords
<1>7. LockHeld' /\ NoForeignRecords'
  BY <1>m, <1>4, <1>u DEF LockHeld, NoForeignRecords, InTx
<1>8. SnapshotsOwned'
  BY <1>1, <1>2, <1>4, <1>m, <1>u DEF SnapshotsOwned
<1> QED
  BY <1>5, <1>6, <1>7, <1>8

\* Where MatchSnapshot returns to, the matcher has no match open.
LEMMA ReturnedRow ==
    ASSUME NEW p \in Matchers
    PROVE  Returned(p) \in MatchRow /\ Returned(p).pc \notin InMatch \cup {"register"}
BY DEF Returned, Idle, At, MatchRow, PC, InMatch, InTx

\* The commit of a match.  Another match with the same snapshot open would be one of
\* the same live host and hold the same row lock, so there is none.
LEMMA CommitInv ==
    ASSUME MatchInv, NEW p \in Matchers, match[p].pc \in InTx, StateReferences(p),
           NEW kept \in SUBSET Advisories, NEW shown \in SUBSET Advisories,
           kept \subseteq shown, NEW how \in {"matched", "investigate"},
           records' = [records EXCEPT ![match[p].snap] = (@ \ match[p].seen) \cup kept],
           state' = [state EXCEPT ![match[p].host] =
                       [snap |-> match[p].snap, how |-> how, shown |-> shown]],
           hostLock' = Unlocked(p),
           match' = [match EXCEPT ![p] = Returned(p)],
           UNCHANGED <<live, owner, nextSnap, lastSnap, scoped, links, todo, imports, failures>>
    PROVE  MatchInv'
<1> USE DEF MatchInv
<1> DEFINE h == match[p].host
           s == match[p].snap
<1>o. h \in Hosts /\ s \in Snapshots /\ h \in live /\ owner[s] = h /\ h # None
  BY DEF SnapshotsOwned, InMatch, StateReferences
<1>m. \A q \in Matchers : match'[q] = IF q = p THEN Returned(p) ELSE match[q]
  BY DEF TypeOK
<1>r. \A x \in Snapshots : records'[x] = IF x = s THEN (records[s] \ match[p].seen) \cup kept
                                                  ELSE records[x]
  BY DEF TypeOK
<1>k. records'[s] = kept
  BY <1>o, <1>r DEF NoForeignRecords
<1>g. \A x \in Hosts : x # h => state'[x] = state[x]
  BY DEF TypeOK
<1>i. state'[h].snap = s /\ state'[h].shown = shown
  BY <1>o DEF TypeOK
<1>l. \A x \in Hosts : hostLock'[x] = IF hostLock[x] = p THEN None ELSE hostLock[x]
  BY DEF Unlocked
<1> HIDE DEF h, s
<1>1. TypeOK'
  <2>1. match' \in [Matchers -> MatchRow]
    BY ReturnedRow DEF TypeOK
  <2>2. hostLock' \in [Hosts -> Matchers \cup {None}]
    BY DEF Unlocked, TypeOK
  <2>3. state' \in [Hosts -> StateRow]
    BY <1>o DEF TypeOK, StateRow, h, s
  <2>4. records' \in [Snapshots -> SUBSET Advisories]
    BY <1>o DEF TypeOK, s
  <2> QED
    BY <2>1, <2>2, <2>3, <2>4 DEF TypeOK
<1>2. NoOrphanRows'
  <2>1. ASSUME NEW x \in Hosts
        PROVE  /\ state'[x].snap # NoSnapshot => x \in live /\ owner[state'[x].snap] = x
               /\ lastSnap[x] # NoSnapshot => x \in live /\ owner[lastSnap[x]] = x
    BY <1>o, <1>g, <1>i DEF NoOrphanRows
  <2>2. ASSUME NEW x \in Snapshots
        PROVE  /\ owner[x] # None => owner[x] \in live
               /\ records'[x] # {} => owner[x] # None
    BY <1>o, <1>r DEF NoOrphanRows
  <2> QED
    BY <2>1, <2>2 DEF NoOrphanRows
<1>3. LockHeld'
  <2> SUFFICES ASSUME NEW q \in Matchers, match'[q].pc \in InTx, match'[q].host \in live
               PROVE  hostLock'[match'[q].host] = q
    BY DEF LockHeld
  <2>1. q # p /\ match'[q] = match[q]
    BY <1>m, ReturnedRow DEF InMatch
  <2>2. match[q].host \in Hosts /\ hostLock[match[q].host] = q
    BY <2>1 DEF LockHeld, TypeOK
  <2> QED
    BY <2>1, <2>2, <1>l
<1>4. SnapshotsOwned'
  BY <1>m, ReturnedRow DEF SnapshotsOwned
<1>5. NoForeignRecords'
  <2> SUFFICES ASSUME NEW q \in Matchers, match'[q].pc \in InTx
               PROVE  records'[match'[q].snap] \subseteq match'[q].seen
    BY DEF NoForeignRecords
  <2>1. q # p /\ match'[q] = match[q]
    BY <1>m, ReturnedRow DEF InMatch
  <2>2. match[q].snap \in Snapshots /\ owner[match[q].snap] \in {None, match[q].host}
    BY <2>1 DEF SnapshotsOwned, InMatch
  <2>3. match[q].snap # s
    <3> SUFFICES ASSUME match[q].snap = s PROVE FALSE
      OBVIOUS
    <3>1. match[q].host = h
      BY <2>2, <1>o
    <3>2. hostLock[h] = q /\ hostLock[h] = p
      BY <3>1, <2>1, <1>o DEF LockHeld, h
    <3> QED
      BY <3>2, <2>1
  <2> QED
    BY <2>1, <2>2, <2>3, <1>r DEF NoForeignRecords
<1>6. CountsCoverRecords'
  <2> SUFFICES ASSUME NEW x \in Hosts, state'[x].snap # NoSnapshot
               PROVE  records'[state'[x].snap] \subseteq state'[x].shown
    BY DEF CountsCoverRecords
  <2>1. CASE x = h
    BY <2>1, <1>i, <1>k
  <2>2. CASE x # h
    <3>1. state'[x] = state[x] /\ owner[state[x].snap] = x /\ state[x].snap \in Snapshots
      BY <2>2, <1>g DEF NoOrphanRows, TypeOK, StateRow
    <3>2. state[x].snap # s
      BY <3>1, <2>2, <1>o
    <3> QED
      BY <3>1, <3>2, <1>r DEF CountsCoverRecords
  <2> QED
    BY <2>1, <2>2
<1> QED
  BY <1>1, <1>2, <1>3, <1>4, <1>5, <1>6

\* CommitMatch counts every decision, and records at most those.
LEMMA CommitMatchInv ==
    ASSUME MatchInv, NEW p \in Matchers, CommitMatch(p)
    PROVE  MatchInv'
<1>1. PICK skipped \in SUBSET match[p].decided :
         records' = [records EXCEPT ![match[p].snap] =
                       (@ \ match[p].seen) \cup AdvisoriesOf(match[p].decided \ skipped)]
  BY DEF CommitMatch
<1>2. match[p].decided \in SUBSET (Streams \X Advisories)
  BY DEF MatchInv, TypeOK, MatchRow
<1>3. /\ AdvisoriesOf(match[p].decided \ skipped) \in SUBSET Advisories
      /\ Aggregated(match[p].decided) \in SUBSET Advisories
      /\ AdvisoriesOf(match[p].decided \ skipped) \subseteq Aggregated(match[p].decided)
  BY <1>2 DEF AdvisoriesOf, Aggregated
<1>4. match[p].pc \in InTx /\ StateReferences(p)
  BY DEF CommitMatch, InTx
<1>5. /\ state' = [state EXCEPT ![match[p].host] =
                     [snap |-> match[p].snap, how |-> "matched",
                      shown |-> Aggregated(match[p].decided)]]
      /\ hostLock' = Unlocked(p)
      /\ match' = [match EXCEPT ![p] = Returned(p)]
      /\ UNCHANGED <<live, owner, nextSnap, lastSnap, scoped, links, todo, imports, failures>>
  BY DEF CommitMatch
<1> QED
  BY <1>1, <1>3, <1>4, <1>5, CommitInv

\* CommitInvestigate records and counts nothing.
LEMMA CommitInvestigateInv ==
    ASSUME MatchInv, NEW p \in Matchers, CommitInvestigate(p)
    PROVE  MatchInv'
<1>1. records' = [records EXCEPT ![match[p].snap] = (@ \ match[p].seen) \cup {}]
  BY DEF CommitInvestigate
<1>2. match[p].pc \in InTx /\ StateReferences(p)
  BY DEF CommitInvestigate, InTx
<1>3. /\ state' = [state EXCEPT ![match[p].host] =
                     [snap |-> match[p].snap, how |-> "investigate", shown |-> {}]]
      /\ hostLock' = Unlocked(p)
      /\ match' = [match EXCEPT ![p] = Returned(p)]
      /\ UNCHANGED <<live, owner, nextSnap, lastSnap, scoped, links, todo, imports, failures>>
  BY DEF CommitInvestigate
<1> QED
  BY <1>1, <1>2, <1>3, CommitInv

\* ImportBuild replaces the scope's rows; the cascade only removes records.
LEMMA ImportInv ==
    ASSUME MatchInv, NEW b \in Builds, ImportBuild(b)
    PROVE  MatchInv'
<1> USE DEF MatchInv
<1> DEFINE row == [match[Syncer] EXCEPT !.pc = "list"]
<1>t. match[Syncer] \in MatchRow
  BY DEF TypeOK
<1>r. row \in MatchRow /\ row.pc = "list"
  BY <1>t DEF MatchRow, PC
<1>e. match' = [match EXCEPT ![Syncer] = row]
  BY DEF ImportBuild
<1>u. UNCHANGED <<live, owner, nextSnap, lastSnap, scoped, state, hostLock, todo, failures>>
  BY DEF ImportBuild
<1>c. \A x \in Snapshots : records'[x] \subseteq records[x]
  BY DEF ImportBuild
<1> HIDE DEF row
<1>m. \A q \in Matchers : match'[q] = IF q = Syncer THEN row ELSE match[q]
  BY <1>e DEF TypeOK
<1>1. TypeOK'
  <2>1. match' \in [Matchers -> MatchRow]
    BY <1>r, <1>e DEF TypeOK
  <2>2. imports' \in 0..MaxImports /\ links' \in SUBSET (Streams \X Advisories)
    BY DEF ImportBuild, TypeOK
  <2>3. records' \in [Snapshots -> SUBSET Advisories]
    BY DEF ImportBuild, TypeOK
  <2> QED
    BY <2>1, <2>2, <2>3, <1>u DEF TypeOK
<1>2. NoOrphanRows'
  BY <1>c, <1>u DEF NoOrphanRows
<1>3. LockHeld'
  BY <1>m, <1>r, <1>u DEF LockHeld, InTx
<1>4. SnapshotsOwned'
  <2>1. \A q \in Matchers : match'[q].pc \in InMatch \cup {"register"} => match'[q] = match[q]
    BY <1>m, <1>r DEF InMatch, InTx
  <2> QED
    BY <2>1, <1>u DEF SnapshotsOwned
<1>5. NoForeignRecords'
  <2> SUFFICES ASSUME NEW q \in Matchers, match'[q].pc \in InTx
               PROVE  records'[match'[q].snap] \subseteq match'[q].seen
    BY DEF NoForeignRecords
  <2>1. match'[q] = match[q]
    BY <1>m, <1>r DEF InTx
  <2>2. match[q].snap \in Snapshots
    BY <2>1 DEF SnapshotsOwned, InMatch
  <2> QED
    BY <2>1, <2>2, <1>c DEF NoForeignRecords
<1>6. CountsCoverRecords'
  BY <1>c, <1>u DEF CountsCoverRecords, TypeOK, StateRow
<1> QED
  BY <1>1, <1>2, <1>3, <1>4, <1>5, <1>6

\* DeleteHost removes the host's rows together; a match in flight keeps naming
\* snapshots that are gone.
LEMMA DeleteInv ==
    ASSUME MatchInv, NEW h \in Hosts, DeleteHost(h)
    PROVE  MatchInv'
<1> USE DEF MatchInv
<1>u. /\ live' = live \ {h}
      /\ UNCHANGED <<nextSnap, links, hostLock, match, todo, imports, failures>>
  BY DEF DeleteHost
<1>o. \A x \in Snapshots : owner'[x] = IF owner[x] = h THEN None ELSE owner[x]
  BY DEF DeleteHost
<1>r. \A x \in Snapshots : records'[x] = IF owner[x] = h THEN {} ELSE records[x]
  BY DEF DeleteHost
<1>s. /\ state'[h].snap = NoSnapshot /\ lastSnap'[h] = NoSnapshot
      /\ \A g \in Hosts : g # h => state'[g] = state[g] /\ lastSnap'[g] = lastSnap[g]
  BY DEF DeleteHost, TypeOK, NoState
<1>g. \A g \in Hosts : /\ state[g].snap \in Snapshots \cup {NoSnapshot}
                       /\ lastSnap[g] \in Snapshots \cup {NoSnapshot}
  BY DEF TypeOK, StateRow
<1>1. TypeOK'
  BY DEF DeleteHost, TypeOK, StateRow, NoState
<1>2. NoOrphanRows'
  <2>1. ASSUME NEW g \in Hosts
        PROVE  /\ state'[g].snap # NoSnapshot => g \in live' /\ owner'[state'[g].snap] = g
               /\ lastSnap'[g] # NoSnapshot => g \in live' /\ owner'[lastSnap'[g]] = g
    BY <1>o, <1>s, <1>g, <1>u DEF NoOrphanRows
  <2>2. ASSUME NEW x \in Snapshots
        PROVE  /\ owner'[x] # None => owner'[x] \in live'
               /\ records'[x] # {} => owner'[x] # None
    BY <1>o, <1>r, <1>u DEF NoOrphanRows
  <2> QED
    BY <2>1, <2>2 DEF NoOrphanRows
<1>3. LockHeld'
  BY <1>u DEF LockHeld
<1>4. SnapshotsOwned'
  <2>1. \A x \in Snapshots : x >= nextSnap => owner'[x] = None
    BY <1>o DEF SnapshotsOwned
  <2>2. ASSUME NEW q \in Matchers, match[q].pc \in InMatch \cup {"register"}
        PROVE  /\ match[q].host \in Hosts /\ match[q].snap \in Snapshots
               /\ match[q].snap < nextSnap
               /\ owner'[match[q].snap] \in {None, match[q].host}
    BY <2>2, <1>o DEF SnapshotsOwned
  <2>3. \A x \in todo : x[2] < nextSnap /\ owner'[x[2]] \in {None, x[1]}
    BY <1>o DEF SnapshotsOwned, TypeOK
  <2> QED
    BY <2>1, <2>2, <2>3, <1>u DEF SnapshotsOwned
<1>5. NoForeignRecords'
  <2> SUFFICES ASSUME NEW q \in Matchers, match[q].pc \in InTx
               PROVE  records'[match[q].snap] \subseteq match[q].seen
    BY <1>u DEF NoForeignRecords
  <2>1. match[q].snap \in Snapshots
    BY DEF SnapshotsOwned, InMatch
  <2> QED
    BY <2>1, <1>r DEF NoForeignRecords
<1>6. CountsCoverRecords'
  BY <1>r, <1>s, <1>g DEF CountsCoverRecords
<1> QED
  BY <1>1, <1>2, <1>3, <1>4, <1>5, <1>6

\* A crash forgets every handler and keeps the committed rows.
LEMMA CrashInv ==
    ASSUME MatchInv, Crash
    PROVE  MatchInv'
<1> USE DEF MatchInv
<1>0. Idle \in MatchRow /\ Idle.pc = "idle"
  BY DEF Idle, At, MatchRow, PC
<1>1. TypeOK'
  BY <1>0 DEF Crash, TypeOK
<1>2. NoOrphanRows' /\ CountsCoverRecords'
  BY DEF Crash, NoOrphanRows, CountsCoverRecords
<1>3. \A q \in Matchers : match'[q].pc = "idle"
  BY <1>0 DEF Crash
<1>4. LockHeld' /\ SnapshotsOwned' /\ NoForeignRecords'
  BY <1>3 DEF Crash, LockHeld, SnapshotsOwned, NoForeignRecords, InTx, InMatch
<1> QED
  BY <1>1, <1>2, <1>4

\* Every step of the system keeps MatchInv.
LEMMA NextInv == MatchInv /\ [Next]_vars => MatchInv'
<1> SUFFICES ASSUME MatchInv, [Next]_vars PROVE MatchInv'
  OBVIOUS
<1>1. CASE UNCHANGED vars
  BY <1>1 DEF vars, MatchInv, TypeOK, NoOrphanRows, LockHeld, SnapshotsOwned,
              NoForeignRecords, CountsCoverRecords
<1>2. ASSUME NEW p \in Ingesters, NEW h \in Hosts, IngestSnapshot(p, h) PROVE MatchInv'
  BY <1>2, IngestInv
<1>3. ASSUME NEW p \in Matchers, HandlerStep(p) PROVE MatchInv'
  <2>1. CASE RegisterScope(p)
    BY <2>1, RegisterInv
  <2>2. CASE ReadStreams(p)
    BY <2>2, ReadInv
  <2>3. CASE LockHost(p)
    BY <2>3, LockHostInv
  <2>4. CASE ListAdvisories(p)
    BY <2>4, ListAdvisoriesInv
  <2>5. CASE BuildDecisions(p)
    BY <2>5, BuildDecisionsInv
  <2>6. CASE CommitMatch(p)
    BY <2>6, CommitMatchInv
  <2>7. CASE CommitInvestigate(p)
    BY <2>7, CommitInvestigateInv
  <2>8. CASE RejectMatch(p)
    <3>1. Rollback(p) /\ failures' \in 0..MaxFailures
      BY <2>8 DEF RejectMatch, MatchInv, TypeOK
    <3> QED
      BY <3>1, RollbackInv
  <2> QED
    BY <1>3, <2>1, <2>2, <2>3, <2>4, <2>5, <2>6, <2>7, <2>8 DEF HandlerStep, MatchStep
<1>4. ASSUME NEW p \in Matchers, FailMatch(p) PROVE MatchInv'
  <2>1. Rollback(p) /\ failures' \in 0..MaxFailures
    BY <1>4 DEF FailMatch, MatchInv, TypeOK
  <2> QED
    BY <2>1, RollbackInv
<1>5. ASSUME NEW b \in Builds, ImportBuild(b) PROVE MatchInv'
  BY <1>5, ImportInv
<1>6. CASE SkipImport \/ SyncStep
  BY <1>6, FinishInv, ListHostsInv, RematchNextInv DEF SyncStep
<1>7. ASSUME NEW h \in Hosts, DeleteHost(h) PROVE MatchInv'
  BY <1>7, DeleteInv
<1>8. CASE Crash
  BY <1>8, CrashInv
<1> QED
  BY <1>1, <1>2, <1>3, <1>4, <1>5, <1>6, <1>7, <1>8 DEF Next

\* MatchInv, with the types of every variable, holds in every reachable state.
THEOREM MatchInvariant == Spec => []MatchInv
BY InitInv, NextInv, PTL DEF Spec

\* The variables keep their types for every instance.
THEOREM TypeCorrect == Spec => []TypeOK
<1>1. MatchInv => TypeOK
  BY DEF MatchInv
<1> QED
  BY <1>1, MatchInvariant, PTL

\* DeleteHost and the matches in flight leave no row without its host or snapshot.
THEOREM NoOrphans == Spec => []NoOrphanRows
<1>1. MatchInv => NoOrphanRows
  BY DEF MatchInv
<1> QED
  BY <1>1, MatchInvariant, PTL

\* LockHost keeps concurrent matches of a snapshot apart.
THEOREM MatchesDoNotCollide == Spec => []NoForeignRecords
<1>1. MatchInv => NoForeignRecords
  BY DEF MatchInv
<1> QED
  BY <1>1, MatchInvariant, PTL

\* The counts of host_current_state cover the decision records of its snapshot.
THEOREM CountsCover == Spec => []CountsCoverRecords
<1>1. MatchInv => CountsCoverRecords
  BY DEF MatchInv
<1> QED
  BY <1>1, MatchInvariant, PTL
=============================================================================
