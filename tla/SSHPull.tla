------------------------------ MODULE SSHPull ------------------------------
(***************************************************************************)
(* One SSH pull host: its rows, its entry in PeriodicJobManager.sshJobs, the *)
(* requests that change both (create, onboard, update, delete), the River job*)
(* that pulls, and the pulls themselves (RunSSHPull), scheduled or "now".    *)
(*                                                                         *)
(* The schedule lives in memory and the rows in PostgreSQL; each request     *)
(* changes one and then the other.  The matching that follows a successful  *)
(* pull is HostMatch's.  Host ids are never used again.                     *)
(***************************************************************************)
EXTENDS Naturals

CONSTANTS
    Handlers,     \* requests that may be in progress at the same time
    Manual,       \* "pull now" requests that may be in progress
    Worker,       \* the River worker: the unique job allows one scheduled pull
    None,         \* no lock holder
    MaxFreq,      \* bound: pull frequencies
    MaxOS,        \* bound: operating system versions a machine may run
    MaxRetryable, \* bound: jobs waiting for a retry; past it one is discarded
    MaxFailures   \* bound: failed steps, timeouts and crashes

ASSUME SSHPullAssumption ==
    /\ None \notin Handlers
    /\ Worker \notin Manual
    /\ MaxFreq \in Nat
    /\ MaxOS \in Nat
    /\ MaxRetryable \in Nat
    /\ MaxFailures \in Nat

Pullers == Manual \cup {Worker}
Freqs == 1..MaxFreq
NoJob == 0

VARIABLES
    row,       \* hosts and host_ssh_pull: status (with onboarded) and frequency
    sched,     \* sshJobs: the frequency of the periodic job, NoJob when none
    hostLock,  \* UpdateHost's FOR UPDATE on the host row
    req,       \* the requests in progress
    calm,      \* history: no onboarding overlapped, and no step of a request failed
               \* beside another request, since the last restart
    job,       \* the host's unique River job
    retryable, \* jobs of the host waiting for a retry
    pull,      \* the RunSSHPull calls in progress
    os,        \* hosts.os_*: the version recorded, 0 when unknown
    snap,      \* the version in the last snapshot, 0 when there is none
    left,      \* a pull has returned and its host_ssh_pull_jobs row is still "running"
    alone,     \* history: no two pulls overlapped
    failures   \* failures so far

hostVars == <<row, sched, hostLock, req, calm>>
pullVars == <<job, retryable, pull, os, snap, left, alone>>
vars == <<row, sched, hostLock, req, calm, job, retryable, pull, os, snap,
          left, alone, failures>>

Updating == {"config", "write", "reschedule", "commit"}
Onboarding == {"set", "add"}
Request == [pc : {"idle", "restore", "remove"} \cup Updating \cup Onboarding,
            freq : 0..MaxFreq, new : 0..MaxFreq, resched : BOOLEAN]
NoRequest == [pc |-> "idle", freq |-> 0, new |-> 0, resched |-> FALSE]

Pull == [pc : {"idle", "start", "insert", "collect", "record"}, row : BOOLEAN,
         os : 0..MaxOS, got : 0..MaxOS]
NoPull == [pc |-> "idle", row |-> FALSE, os |-> 0, got |-> 0]

TypeOK ==
    /\ row \in [status : {"absent", "created", "onboarded", "deleted"}, freq : 0..MaxFreq]
    /\ sched \in 0..MaxFreq
    /\ hostLock \in Handlers \cup {None}
    /\ req \in [Handlers -> Request]
    /\ calm \in BOOLEAN
    /\ job \in {"none", "available", "running", "orphaned"}
    /\ retryable \in 0..MaxRetryable
    /\ pull \in [Pullers -> Pull]
    /\ os \in 0..MaxOS
    /\ snap \in 0..MaxOS
    /\ left \in BOOLEAN
    /\ alone \in BOOLEAN
    /\ failures \in 0..MaxFailures

Init ==
    /\ row = [status |-> "absent", freq |-> 0]
    /\ sched = NoJob
    /\ hostLock = None
    /\ req = [h \in Handlers |-> NoRequest]
    /\ calm = TRUE
    /\ job = "none"
    /\ retryable = 0
    /\ pull = [p \in Pullers |-> NoPull]
    /\ os = 0
    /\ snap = 0
    /\ left = FALSE
    /\ alone = TRUE
    /\ failures = 0

Failing == failures < MaxFailures /\ failures' = failures + 1

Present == row.status \in {"created", "onboarded"}
Others(h) == Handlers \ {h}

\* River inserts a job only when none is available or running.
Enqueued == IF job = "none" THEN "available" ELSE job

-----------------------------------------------------------------------------
(* AddSSHPullJob *)

\* What sshJobs may hold after AddSSHPullJob(freq) returned an error: as before, or
\* nothing, because the old entry is removed first unless it has the same frequency.
AfterError(before, freq) == {before} \cup (IF before # freq THEN {NoJob} ELSE {})

-----------------------------------------------------------------------------
(* CreateSSHHost and OnboardSSHHost *)

CreateSSHHost(f) ==
    /\ row.status = "absent"
    /\ row' = [status |-> "created", freq |-> f]
    /\ UNCHANGED <<sched, hostLock, req, calm, failures, pullVars>>

\* OnboardSSHHost reads the configuration ...
ReadOnboard(h) ==
    /\ req[h].pc = "idle"
    /\ Present
    /\ req' = [req EXCEPT ![h] = [NoRequest EXCEPT !.pc = "set", !.freq = row.freq]]
    /\ calm' = (calm /\ \A g \in Others(h) : req[g].pc = "idle")
    /\ UNCHANGED <<row, sched, hostLock, failures, pullVars>>

\* ... marks the host, which waits for an UpdateHost that has written the row and is no
\* error when the row is gone ...
SetOnboarded(h) ==
    /\ req[h].pc = "set"
    /\ \A g \in Others(h) : req[g].pc \notin {"reschedule", "commit"}
    /\ row' = IF Present THEN [row EXCEPT !.status = "onboarded"] ELSE row
    /\ req' = [req EXCEPT ![h].pc = "add"]
    /\ UNCHANGED <<sched, hostLock, calm, failures, pullVars>>

\* ... and schedules the frequency it read; a new entry runs at once.
AddPullJob(h) ==
    /\ req[h].pc = "add"
    /\ req' = [req EXCEPT ![h] = NoRequest]
    /\ \/ /\ sched' = req[h].freq
          /\ job' = IF sched = req[h].freq THEN job ELSE Enqueued
          /\ UNCHANGED <<calm, failures>>
       \/ /\ Failing
          /\ sched' \in AfterError(sched, req[h].freq)
          /\ calm' = FALSE
          /\ UNCHANGED job
    /\ UNCHANGED <<row, hostLock, retryable, pull, os, snap, left, alone>>

-----------------------------------------------------------------------------
(* UpdateHost *)

\* LockHost waits for another update's lock.  A host that is gone is an error.
LockFreeMutant == TRUE
LockFree == hostLock = None
LockForUpdate(h) ==
    /\ req[h].pc = "idle"
    /\ Present
    /\ LockFree
    /\ hostLock' = h
    /\ req' = [req EXCEPT ![h] = [NoRequest EXCEPT !.pc = "config"]]
    /\ calm' = (calm /\ \A g \in Others(h) : req[g].pc \notin Onboarding \cup {"restore"})
    /\ UNCHANGED <<row, sched, failures, pullVars>>

\* The configuration is read: the old frequency, and whether there is a schedule to
\* change.
ReadConfig(h) ==
    /\ req[h].pc = "config"
    /\ req' = [req EXCEPT ![h].pc = "write", ![h].freq = row.freq,
                          ![h].resched = (row.status = "onboarded")]
    /\ UNCHANGED <<row, sched, hostLock, calm, failures, pullVars>>

\* UpdateSSHPullConfig, not yet committed.
WriteConfig(h, f) ==
    /\ req[h].pc = "write"
    /\ req' = [req EXCEPT ![h].pc = IF req[h].resched THEN "reschedule" ELSE "commit",
                          ![h].new = f]
    /\ UNCHANGED <<row, sched, hostLock, calm, failures, pullVars>>

\* An error return: rollback.
AbortUpdate(h) ==
    /\ req[h].pc \in {"config", "write"}
    /\ hostLock' = None
    /\ req' = [req EXCEPT ![h] = NoRequest]
    /\ UNCHANGED <<row, sched, calm, failures, pullVars>>

\* The schedule is changed before the commit; when that fails the old one is restored,
\* which may fail too.
Reschedule(h) ==
    /\ req[h].pc = "reschedule"
    /\ \/ /\ sched' = req[h].new
          /\ req' = [req EXCEPT ![h].pc = "commit"]
          /\ UNCHANGED <<hostLock, calm, failures>>
       \/ /\ Failing
          /\ \E s \in AfterError(sched, req[h].new) :
               sched' \in {req[h].freq} \cup AfterError(s, req[h].freq)
          /\ req' = [req EXCEPT ![h] = NoRequest]
          /\ hostLock' = None
          /\ calm' = FALSE
    /\ UNCHANGED <<row, pullVars>>

CommitUpdate(h) ==
    /\ req[h].pc = "commit"
    /\ row' = [row EXCEPT !.freq = req[h].new]
    /\ hostLock' = None
    /\ req' = [req EXCEPT ![h] = NoRequest]
    /\ UNCHANGED <<sched, calm, failures, pullVars>>

\* The commit fails, or its answer is lost: the lock is gone before the old schedule is
\* restored.
FailCommit(h) ==
    /\ req[h].pc = "commit"
    /\ Failing
    /\ \/ /\ UNCHANGED row
          /\ calm' = (calm /\ \A g \in Others(h) : req[g].pc = "idle")
       \/ /\ row' = [row EXCEPT !.freq = req[h].new]
          /\ calm' = FALSE
    /\ hostLock' = None
    /\ req' = [req EXCEPT ![h] = IF req[h].resched THEN [req[h] EXCEPT !.pc = "restore"]
                                 ELSE NoRequest]
    /\ UNCHANGED <<sched, pullVars>>

RestoreMutant(h) ==
    /\ req[h].pc = "restore"
    /\ req' = [req EXCEPT ![h] = NoRequest]
    /\ UNCHANGED <<row, sched, hostLock, calm, failures, pullVars>>
Restore(h) ==
    /\ req[h].pc = "restore"
    /\ req' = [req EXCEPT ![h] = NoRequest]
    /\ \/ sched' = req[h].freq /\ UNCHANGED <<calm, failures>>
       \/ /\ Failing
          /\ sched' \in AfterError(sched, req[h].freq)
          /\ calm' = FALSE
    /\ UNCHANGED <<row, hostLock, pullVars>>

-----------------------------------------------------------------------------
(* DeleteHost *)

\* The transaction: its first UPDATE waits for UpdateHost's lock; snapshots go with the
\* host, and ON DELETE CASCADE takes the configuration and the pull jobs' rows.
DeleteHost(h) ==
    /\ req[h].pc = "idle"
    /\ Present
    /\ LockFree
    /\ row' = [status |-> "deleted", freq |-> 0]
    /\ req' = [req EXCEPT ![h] = [NoRequest EXCEPT !.pc = "remove"]]
    /\ calm' = (calm /\ \A g \in Others(h) : req[g].pc \notin Onboarding \cup {"restore"})
    /\ pull' = [p \in Pullers |-> [pull[p] EXCEPT !.row = FALSE]]
    /\ os' = 0
    /\ snap' = 0
    /\ left' = FALSE
    /\ UNCHANGED <<sched, hostLock, job, retryable, alone, failures>>

\* RemoveSSHPullJob, after the commit; its error is only logged.
RemovePullJob(h) ==
    /\ req[h].pc = "remove"
    /\ req' = [req EXCEPT ![h] = NoRequest]
    /\ \/ sched' = NoJob /\ UNCHANGED <<calm, failures>>
       \/ Failing /\ calm' = FALSE /\ UNCHANGED sched
    /\ UNCHANGED <<row, hostLock, pullVars>>

-----------------------------------------------------------------------------
(* River *)

OneMoreRetryable == IF retryable < MaxRetryable THEN retryable + 1 ELSE retryable

PeriodicTick ==
    /\ sched # NoJob
    /\ job' = Enqueued
    /\ UNCHANGED <<hostVars, retryable, pull, os, snap, left, alone, failures>>

\* A pull starts: the history notes whether another one is in progress.
Starting(p) ==
    /\ pull[p].pc = "idle"
    /\ pull' = [pull EXCEPT ![p].pc = "start"]
    /\ alone' = (alone /\ \A q \in Pullers \ {p} : pull[q].pc = "idle")

Work ==
    /\ job = "available"
    /\ Starting(Worker)
    /\ job' = "running"
    /\ UNCHANGED <<hostVars, retryable, os, snap, left, failures>>

RunPullNow(p) ==
    /\ p \in Manual
    /\ Starting(p)
    /\ UNCHANGED <<hostVars, job, retryable, os, snap, left, failures>>

RetryJob ==
    /\ retryable > 0
    /\ retryable' = retryable - 1
    /\ job' = Enqueued
    /\ UNCHANGED <<hostVars, pull, os, snap, left, alone, failures>>

RescueJob ==
    /\ job = "orphaned"
    /\ job' = "none"
    /\ retryable' = OneMoreRetryable
    /\ UNCHANGED <<hostVars, pull, os, snap, left, alone, failures>>

-----------------------------------------------------------------------------
(* RunSSHPull *)

\* The call returns; a row still "running" stays so.  For the worker the job is
\* completed or cancelled, or waits for a retry.
Returns(p, retry) ==
    /\ pull' = [pull EXCEPT ![p] = NoPull]
    /\ IF p = Worker
       THEN /\ job' = "none"
            /\ retryable' = IF retry THEN OneMoreRetryable ELSE retryable
       ELSE UNCHANGED <<job, retryable>>

\* The host and its configuration are read; a missing host cancels the job.
NotFoundMutant(p) == Returns(p, TRUE)
NotFound(p) == Returns(p, FALSE)
ReadHost(p) ==
    /\ pull[p].pc = "start"
    /\ \/ /\ Present
          /\ pull' = [pull EXCEPT ![p].pc = "insert", ![p].os = os]
          /\ UNCHANGED <<job, retryable>>
       \/ ~Present /\ NotFound(p)
    /\ UNCHANGED <<hostVars, os, snap, left, alone, failures>>

\* The row with status "running"; its foreign key waits for UpdateHost's lock, and fails
\* when the host is gone.
InsertRow(p) ==
    /\ pull[p].pc = "insert"
    /\ LockFree
    /\ IF Present
       THEN /\ pull' = [pull EXCEPT ![p].pc = "collect", ![p].row = TRUE]
            /\ UNCHANGED <<job, retryable>>
       ELSE Returns(p, TRUE)
    /\ UNCHANGED <<hostVars, os, snap, left, alone, failures>>

\* Keys, connection, collection: the version the machine runs at that moment, or an
\* error (got = 0).
Collect(p) ==
    /\ pull[p].pc = "collect"
    /\ \/ /\ \E v \in 1..MaxOS :
               pull' = [pull EXCEPT ![p].pc = "record", ![p].got = v]
          /\ UNCHANGED failures
       \/ pull' = [pull EXCEPT ![p].pc = "record"] /\ Failing
    /\ UNCHANGED <<hostVars, job, retryable, os, snap, left, alone>>

\* UpdateHostSSHPullJob returns a row, or the result is not written.
JobRowThereMutant(p) == TRUE
JobRowThere(p) == pull[p].row

\* UpdateSSHPullRun: a success stores the machine's version; a failure writes back the
\* version that the pull read when it started, unless that was unknown.
RecordedVersionMutant(p) ==
    IF os # 0 THEN os ELSE pull[p].got
RecordedVersion(p) ==
    IF pull[p].got # 0 THEN pull[p].got ELSE IF pull[p].os # 0 THEN pull[p].os ELSE os

\* updateJobResult, one transaction that waits for UpdateHost's lock.  Errors of the
\* command itself cancel the job, others are retried.
RecordResult(p) ==
    /\ pull[p].pc = "record"
    /\ JobRowThere(p)
    /\ LockFree
    /\ os' = RecordedVersion(p)
    /\ IF pull[p].got # 0
       THEN snap' = pull[p].got /\ Returns(p, FALSE)
       ELSE UNCHANGED snap /\ \E retry \in BOOLEAN : Returns(p, retry)
    /\ UNCHANGED <<hostVars, left, alone, failures>>

\* The result is not written: the row is gone with its host, or the transaction failed.
RecordFails(p) ==
    /\ pull[p].pc = "record"
    /\ IF JobRowThere(p) THEN Failing ELSE UNCHANGED failures
    /\ Returns(p, TRUE)
    /\ left' = (left \/ pull[p].row)
    /\ UNCHANGED <<hostVars, os, snap, alone>>

\* The job's timeout, or the client of "pull now" went away: whatever the pull does next
\* fails, updateJobResult too, because it uses the same context.
Timeout(p) ==
    /\ pull[p].pc # "idle"
    /\ Failing
    /\ Returns(p, TRUE)
    /\ left' = (left \/ pull[p].row)
    /\ UNCHANGED <<hostVars, os, snap, alone>>

-----------------------------------------------------------------------------
(* The server *)

\* Initialize schedules the onboarded hosts from the rows.
InitializedMutant == NoJob
Initialized == IF row.status = "onboarded" THEN row.freq ELSE NoJob

\* The server dies and starts again: transactions roll back, requests and pulls are
\* lost, a running job is left behind; an error of scheduling a host is only logged.
Crash ==
    /\ Failing
    /\ \/ sched' = Initialized /\ calm' = TRUE
       \/ sched' = NoJob /\ calm' = FALSE
    /\ hostLock' = None
    /\ req' = [h \in Handlers |-> NoRequest]
    /\ job' = IF job = "running" THEN "orphaned" ELSE job
    /\ pull' = [p \in Pullers |-> NoPull]
    /\ UNCHANGED <<row, retryable, os, snap, left, alone>>

-----------------------------------------------------------------------------
RequestStep(h) ==
    \/ SetOnboarded(h) \/ AddPullJob(h)
    \/ ReadConfig(h) \/ (\E f \in Freqs : WriteConfig(h, f)) \/ AbortUpdate(h)
    \/ Reschedule(h) \/ CommitUpdate(h) \/ FailCommit(h) \/ Restore(h)
    \/ RemovePullJob(h)
PullStep(p) ==
    ReadHost(p) \/ InsertRow(p) \/ Collect(p) \/ RecordResult(p) \/ RecordFails(p)

Next ==
    \/ \E f \in Freqs : CreateSSHHost(f)
    \/ \E h \in Handlers : \/ ReadOnboard(h) \/ LockForUpdate(h) \/ DeleteHost(h)
                           \/ RequestStep(h)
    \/ PeriodicTick \/ Work \/ RetryJob \/ RescueJob
    \/ \E p \in Pullers : RunPullNow(p) \/ PullStep(p) \/ Timeout(p)
    \/ Crash

\* Requests and pulls in progress go on, the interval elapses, and River works.
Fairness ==
    /\ \A h \in Handlers : WF_vars(RequestStep(h))
    /\ \A p \in Pullers : WF_vars(PullStep(p))
    /\ WF_vars(PeriodicTick)
    /\ WF_vars(Work)
    /\ WF_vars(RetryJob)
    /\ WF_vars(RescueJob)

Spec == Init /\ [][Next]_vars
FairSpec == Spec /\ Fairness

-----------------------------------------------------------------------------
(* Properties *)

Quiet == \A h \in Handlers : req[h].pc = "idle"
Expected == IF row.status = "onboarded" THEN row.freq ELSE NoJob

\* Between requests the schedule is the one the rows ask for, although UpdateHost changes
\* it before its commit and DeleteHost after it: updates and deletions may overlap, and an
\* update whose commit fails puts the old frequency back.
ScheduleFollowsRow == calm /\ Quiet => sched = Expected

\* A deleted host leaves nothing behind: a pull in progress does not bring back a job row,
\* a snapshot or the recorded version.
DeletedLeavesNothing ==
    row.status = "deleted" => ~left /\ snap = 0 /\ \A p \in Pullers : ~pull[p].row

\* The version shown for a host is the one of its last snapshot, as long as pulls do not
\* overlap: a failed pull writes back what it read at its start.
VersionFollowsSnapshot == alone /\ snap # 0 => os = snap

-----------------------------------------------------------------------------
(* The inductive invariant *)

\* The lock belongs to the update in progress, and the host is there meanwhile.
LockInv ==
    /\ \A h \in Handlers : req[h].pc \in Updating <=> hostLock = h
    /\ hostLock # None => Present
    /\ \A h \in Handlers : req[h].pc = "remove" => row.status = "deleted"

\* In calm times an onboarding and a restoration run alone.
AloneInv ==
    calm => \A h \in Handlers : req[h].pc \in Onboarding \cup {"restore"} =>
                \A g \in Others(h) : req[g].pc = "idle"

\* What a request knows of the rows, and where the schedule stands at each of its steps.
Behind(h) == \/ req[h].pc \in {"add", "restore", "remove"}
             \/ req[h].pc = "commit" /\ req[h].resched
KnowsInv ==
    calm => \A h \in Handlers :
      /\ req[h].pc \in Onboarding => Present /\ req[h].freq = row.freq
      /\ req[h].pc \in {"write", "reschedule", "commit"} =>
           /\ req[h].freq = row.freq
           /\ req[h].resched <=> row.status = "onboarded"
      /\ req[h].pc = "reschedule" => req[h].resched
      /\ req[h].pc \in {"add", "restore"} =>
           row.status = "onboarded" /\ req[h].freq = row.freq
      /\ req[h].pc = "commit" /\ req[h].resched => sched = req[h].new
ScheduleInv == calm /\ (\A h \in Handlers : ~Behind(h)) => sched = Expected

\* Rows of pulls exist only while the host does.
RowsInv ==
    ~Present => ~left /\ snap = 0 /\ os = 0 /\ \A p \in Pullers : ~pull[p].row

\* A pull that runs alone knows the recorded version.
VersionInv ==
    alone =>
      /\ \A p, q \in Pullers : pull[p].pc # "idle" /\ pull[q].pc # "idle" => p = q
      /\ \A p \in Pullers :
           /\ row.status # "deleted"
           /\ pull[p].pc \in {"insert", "collect", "record"}
           => pull[p].os = os
      /\ snap # 0 => os = snap

\* The lock, the requests and the pulls fit together: what the properties above rest on.
PullInv ==
    /\ TypeOK /\ LockInv /\ AloneInv /\ KnowsInv /\ ScheduleInv /\ RowsInv /\ VersionInv

-----------------------------------------------------------------------------
(* Liveness, and what the documentation says *)

\* An onboarded host is pulled again and again, across retries, timeouts and restarts.
PulledAgain == []<>(~calm \/ row.status # "onboarded" \/ pull[Worker].pc # "idle")

\* The jobs of a deleted host come to an end: its pull is cancelled, not retried.
DeletedJobsEnd ==
    <>[](row.status = "deleted" /\ sched = NoJob => job = "none" /\ retryable = 0)

\* docs/guides/managing-hosts.md: deleting a host also removes its periodic pull job from
\* the scheduler.
DeletedIsUnscheduled == Quiet /\ row.status = "deleted" => sched = NoJob
=============================================================================
