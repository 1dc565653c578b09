----------------------------- MODULE ScopeSync -----------------------------
(***************************************************************************)
(* The synchronisation of one advisory scope: the advisory_scopes row, the *)
(* database files on disk, the advisory rows in PostgreSQL, the River job   *)
(* that runs SyncScope, and what starts it (a host's first snapshot, the    *)
(* periodic job, a manual trigger).                                         *)
(*                                                                         *)
(* A published database is a build, numbered in publication order; its     *)
(* SHA-256 and its file name (advisories-<sha>.db) both stand for the build.*)
(* River (external) keeps at most one job of the scope that is available or *)
(* running: that is the uniqueness the code asks for.  A job that failed is *)
(* retryable, which the uniqueness states leave out.                        *)
(*                                                                         *)
(* The publisher may take builds back: manifest.json then lists an earlier  *)
(* one.  The server it is downloaded from may answer with the bytes of      *)
(* another build, or with part of a file.                                   *)
(***************************************************************************)
EXTENDS Naturals

CONSTANTS
    MaxBuild,     \* bound: builds ever published
    MaxWithdrawals, \* bound: how often the manifest returns to an earlier build
    MaxTriggers,  \* bound: manual triggers
    MaxRetryable, \* bound: jobs waiting for a retry; past it one is discarded
    MaxFailures   \* bound: failed steps, timeouts and crashes

ASSUME ScopeSyncAssumption ==
    /\ MaxBuild \in Nat
    /\ MaxWithdrawals \in Nat
    /\ MaxTriggers \in Nat
    /\ MaxRetryable \in Nat
    /\ MaxFailures \in Nat

NoBuild == 0
Builds == 1..MaxBuild
AnyBuild == 0..MaxBuild

\* What a file holds: a build, nothing (NoBuild: there is no file), or bytes that
\* are no build's.
Torn == MaxBuild + 1
Bytes == 0..Torn

VARIABLES
    manifest,    \* the build manifest.json lists, NoBuild when it lists none
    row,         \* advisory_scopes: status and sha256
    withdrawn,   \* history: builds the manifest has gone back over
    withdrawals, \* how often it has gone back
    files,       \* the storage directory: what the file of a build's name holds
    content,     \* the build whose rows are in PostgreSQL
    job,         \* the scope's unique River job
    retryable,   \* jobs of the scope waiting for a retry
    registered,  \* PeriodicJobManager.syncJobs has the scope
    run,         \* the SyncScope call in progress
    triggers,    \* manual triggers so far
    failures     \* failures so far

publisher == <<manifest, withdrawn, withdrawals>>
vars == <<publisher, row, files, content, job, retryable, registered, run,
          triggers, failures>>

Status == {"none", "pending", "syncing", "synced", "failed"}
JobState == {"none", "available", "running", "orphaned"}
PC == {"idle", "mark", "manifest", "decide", "download", "verify", "import",
       "match", "cleanup", "save", "done", "erred"}

\* A call of SyncScope: where it is, the manifest's build, the sha256 of the row
\* it read, what its temporary file holds, and whether its context was cancelled by
\* the 30-minute timeout.  Temporary files have names of their own and are never read
\* again, so one that a crash leaves behind is not kept here.
Run == [pc : PC, target : AnyBuild, current : AnyBuild, staged : Bytes,
        skip : BOOLEAN, cancelled : BOOLEAN]
At(pc) == [pc |-> pc, target |-> NoBuild, current |-> NoBuild, staged |-> NoBuild,
           skip |-> FALSE, cancelled |-> FALSE]

TypeOK ==
    /\ manifest \in AnyBuild
    /\ row \in [status : Status, sha : AnyBuild]
    /\ withdrawn \in SUBSET Builds
    /\ withdrawals \in 0..MaxWithdrawals
    /\ files \in [Builds -> Bytes]
    /\ content \in AnyBuild
    /\ job \in JobState
    /\ retryable \in 0..MaxRetryable
    /\ registered \in BOOLEAN
    /\ run \in Run
    /\ triggers \in 0..MaxTriggers
    /\ failures \in 0..MaxFailures

Init ==
    /\ manifest = NoBuild
    /\ row = [status |-> "none", sha |-> NoBuild]
    /\ withdrawn = {}
    /\ withdrawals = 0
    /\ files = [b \in Builds |-> NoBuild]
    /\ content = NoBuild
    /\ job = "none"
    /\ retryable = 0
    /\ registered = FALSE
    /\ run = At("idle")
    /\ triggers = 0
    /\ failures = 0

Failing == failures < MaxFailures /\ failures' = failures + 1

-----------------------------------------------------------------------------
(* Publication, demand, the periodic job and manual triggers *)

\* The publisher's manifest.json moves on.
Publish(b) ==
    /\ b > manifest
    /\ manifest' = b
    /\ UNCHANGED <<withdrawn, withdrawals, row, files, content, job, retryable,
                   registered, run, triggers, failures>>

\* It returns to an earlier build, taking back the ones after it.
Withdraw(b) ==
    /\ b < manifest
    /\ withdrawals < MaxWithdrawals
    /\ withdrawals' = withdrawals + 1
    /\ withdrawn' = withdrawn \cup (b + 1)..manifest
    /\ manifest' = b
    /\ UNCHANGED <<row, files, content, job, retryable, registered, run, triggers,
                   failures>>

\* Insert with ByState uniqueness: skipped while a job is available or running.
Enqueued == IF job = "none" THEN "available" ELSE job

\* RegisterScopeDemand, on every snapshot of a host of the scope: the row is
\* inserted when missing, and a scope new to the manager gets its periodic job,
\* with RunOnStart.  Adding the periodic job may fail after the insert.
RegisterScopeDemand ==
    /\ row' = IF row.status = "none" THEN [row EXCEPT !.status = "pending"] ELSE row
    /\ \/ /\ registered' = TRUE
          /\ job' = IF registered THEN job ELSE Enqueued
          /\ UNCHANGED failures
       \/ /\ ~registered
          /\ Failing
          /\ UNCHANGED <<registered, job>>
    /\ UNCHANGED <<publisher, files, content, retryable, run, triggers>>

\* The refresh interval elapsed.
PeriodicTick ==
    /\ registered
    /\ job' = Enqueued
    /\ UNCHANGED <<publisher, row, files, content, retryable, registered, run,
                   triggers, failures>>

\* TriggerManualSync: one transaction sets the status to pending and inserts the
\* job unless one is active; then the periodic job is registered, and an error of
\* that is only logged.
TriggerManualSync ==
    /\ triggers < MaxTriggers
    /\ triggers' = triggers + 1
    /\ row' = [row EXCEPT !.status = "pending"]
    /\ job' = Enqueued
    /\ \/ registered' = TRUE /\ UNCHANGED failures
       \/ ~registered /\ Failing /\ UNCHANGED registered
    /\ UNCHANGED <<publisher, files, content, retryable, run>>

-----------------------------------------------------------------------------
(* River *)

\* A failed attempt waits for its retry (NextRetry), or was the last one.
OneMoreRetryable == IF retryable < MaxRetryable THEN retryable + 1 ELSE retryable

Work ==
    /\ job = "available"
    /\ run.pc = "idle"
    /\ job' = "running"
    /\ run' = At("mark")
    /\ UNCHANGED <<publisher, row, files, content, retryable, registered,
                   triggers, failures>>

\* Work returned nil: the completer finishes the job, after SyncScope's last write.
CompleteJob ==
    /\ run.pc = "done"
    /\ run' = At("idle")
    /\ job' = "none"
    /\ UNCHANGED <<publisher, row, files, content, retryable, registered,
                   triggers, failures>>

\* Work returned an error.
ErrorJob ==
    /\ run.pc = "erred"
    /\ run' = At("idle")
    /\ job' = "none"
    /\ retryable' = OneMoreRetryable
    /\ UNCHANGED <<publisher, row, files, content, registered, triggers, failures>>

\* A retry is due: available again, or discarded when another job holds the key.
RetryJob ==
    /\ retryable > 0
    /\ retryable' = retryable - 1
    /\ job' = Enqueued
    /\ UNCHANGED <<publisher, row, files, content, registered, run, triggers,
                   failures>>

\* The rescuer takes over a job whose process died.
RescueJob ==
    /\ job = "orphaned"
    /\ job' = "none"
    /\ retryable' = OneMoreRetryable
    /\ UNCHANGED <<publisher, row, files, content, registered, run, triggers,
                   failures>>

-----------------------------------------------------------------------------
(* SyncScope *)

Live(pc) == run.pc = pc /\ ~run.cancelled

\* The row exists: a job is only inserted once it does (SyncInv).
MarkSyncing ==
    /\ Live("mark")
    /\ row' = [row EXCEPT !.status = "syncing"]
    /\ run' = [run EXCEPT !.pc = "manifest"]
    /\ UNCHANGED <<publisher, files, content, job, retryable, registered,
                   triggers, failures>>

\* Fault: an old copy of the manifest is taken.
FetchManifestMutant ==
    /\ Live("manifest")
    /\ manifest # NoBuild
    /\ \E b \in 1..manifest : run' = [run EXCEPT !.pc = "decide", !.target = b]
    /\ UNCHANGED <<publisher, row, files, content, job, retryable, registered,
                   triggers, failures>>

\* The manifest lists the scope with a well-formed checksum.
FetchManifest ==
    /\ Live("manifest")
    /\ manifest # NoBuild
    /\ run' = [run EXCEPT !.pc = "decide", !.target = manifest]
    /\ UNCHANGED <<publisher, row, files, content, job, retryable, registered,
                   triggers, failures>>

\* The row is read (an error counts as no row) and the file looked for.  The
\* upsert that writes sha256 also writes last_success_at, so a row with this
\* hash has a successful import for it.
NeedsDownloadMutant(sha) == files[run.target] = NoBuild
NeedsDownload(sha) == files[run.target] = NoBuild \/ sha # run.target

Decide ==
    /\ run.pc = "decide"
    /\ \E sha \in {row.sha, NoBuild} :
         /\ \/ sha = row.sha /\ ~run.cancelled /\ UNCHANGED failures
            \/ sha = NoBuild /\ Failing
            \/ sha = NoBuild /\ run.cancelled /\ UNCHANGED failures
         /\ run' = [run EXCEPT !.pc = IF NeedsDownload(sha) THEN "download" ELSE "match",
                               !.current = sha,
                               !.skip = ~NeedsDownload(sha)]
    /\ UNCHANGED <<publisher, row, files, content, job, retryable, registered,
                   triggers>>

\* The answer is copied to a temporary file while it is hashed.  It is the target's
\* file, or (a fault of the network or the publisher) another build's or cut short.
\* Fault: it is written to the file's final place.
DownloadMutant(got) ==
    /\ Live("download")
    /\ \/ got = run.target /\ UNCHANGED failures
       \/ got # run.target /\ Failing
    /\ run' = [run EXCEPT !.pc = "verify", !.staged = got]
    /\ files' = [files EXCEPT ![run.target] = got]
    /\ UNCHANGED <<publisher, row, content, job, retryable, registered, triggers>>
Download(got) ==
    /\ Live("download")
    /\ \/ got = run.target /\ UNCHANGED failures
       \/ got # run.target /\ Failing
    /\ run' = [run EXCEPT !.pc = "verify", !.staged = got]
    /\ UNCHANGED <<publisher, row, files, content, job, retryable, registered,
                   triggers>>

\* The sum is the manifest's: the file is renamed into its place.  A checksum that
\* differs ends the run (FailSync).
VerifyAndRename ==
    /\ run.pc = "verify"
    /\ run.staged = run.target
    /\ files' = [files EXCEPT ![run.target] = run.staged]
    /\ run' = [run EXCEPT !.pc = "import"]
    /\ UNCHANGED <<publisher, row, content, job, retryable, registered, triggers,
                   failures>>

\* ImportAdvisoryDB in one transaction: the scope's rows become those of the file.
Import ==
    /\ Live("import")
    /\ content' = files[run.target]
    /\ run' = [run EXCEPT !.pc = "match"]
    /\ UNCHANGED <<publisher, row, files, job, retryable, registered, triggers,
                   failures>>

\* MatchHostsForScope reports an error only when it cannot list the hosts, so a
\* context cancelled later does not stop it here.
MatchHosts ==
    /\ run.pc = "match"
    /\ run' = [run EXCEPT !.pc = IF run.skip THEN "save" ELSE "cleanup"]
    /\ UNCHANGED <<publisher, row, files, content, job, retryable, registered,
                   triggers, failures>>

\* The previous file is removed before the row stops naming it.
CleanUp ==
    /\ run.pc = "cleanup"
    /\ files' = IF run.current # NoBuild /\ run.current # run.target
                THEN [files EXCEPT ![run.current] = NoBuild] ELSE files
    /\ run' = [run EXCEPT !.pc = "save"]
    /\ UNCHANGED <<publisher, row, content, job, retryable, registered, triggers,
                   failures>>

SaveMutant ==
    /\ Live("save")
    /\ row' = [row EXCEPT !.status = "synced"]
    /\ run' = [run EXCEPT !.pc = "done"]
    /\ UNCHANGED <<publisher, files, content, job, retryable, registered,
                   triggers, failures>>
Save ==
    /\ Live("save")
    /\ row' = [status |-> "synced", sha |-> run.target]
    /\ run' = [run EXCEPT !.pc = "done"]
    /\ UNCHANGED <<publisher, files, content, job, retryable, registered,
                   triggers, failures>>

\* handleFailure writes "failed" with the call's own context and ignores the error
\* of doing so: nothing is written once the context is cancelled, or when the
\* database is what failed.  The first status update returns without handleFailure.
FailSync ==
    /\ run.pc \notin {"idle", "done", "erred", "cleanup"}
    /\ \/ run.cancelled /\ UNCHANGED <<row, failures>>
       \/ ~run.cancelled /\ Failing /\ UNCHANGED row
       \/ ~run.cancelled /\ run.pc # "mark" /\ Failing /\ row' = [row EXCEPT !.status = "failed"]
       \/ /\ \/ Live("manifest") /\ manifest = NoBuild
             \/ Live("verify") /\ run.staged # run.target
          /\ row' = [row EXCEPT !.status = "failed"]
          /\ UNCHANGED failures
    /\ run' = [run EXCEPT !.pc = "erred"]
    /\ UNCHANGED <<publisher, files, content, job, retryable, registered, triggers>>

\* The job's 30 minutes are over: the context is cancelled.
Timeout ==
    /\ run.pc \notin {"idle", "done", "erred"}
    /\ ~run.cancelled
    /\ Failing
    /\ run' = [run EXCEPT !.cancelled = TRUE]
    /\ UNCHANGED <<publisher, row, files, content, job, retryable, registered,
                   triggers>>

\* The server dies and starts again: Initialize registers every scope that has a
\* row, without RunOnStart (one that fails is only logged); the running job is left
\* behind.  A container that is replaced comes back with an empty storage directory.
Crash ==
    /\ Failing
    /\ run' = At("idle")
    /\ job' = IF job = "running" THEN "orphaned" ELSE job
    /\ registered' \in {FALSE, row.status # "none"}
    /\ files' \in {files, [b \in Builds |-> NoBuild]}
    /\ UNCHANGED <<publisher, row, content, retryable, triggers>>

-----------------------------------------------------------------------------
SyncStep == MarkSyncing \/ FetchManifest \/ Decide
            \/ (\E got \in Bytes \ {NoBuild} : Download(got))
            \/ VerifyAndRename \/ Import \/ MatchHosts \/ CleanUp \/ Save \/ FailSync
RiverStep == Work \/ CompleteJob \/ ErrorJob \/ RetryJob \/ RescueJob

Next ==
    \/ \E b \in Builds : Publish(b) \/ Withdraw(b)
    \/ RegisterScopeDemand
    \/ PeriodicTick
    \/ TriggerManualSync
    \/ RiverStep
    \/ SyncStep
    \/ Timeout
    \/ Crash

\* The worker and River keep going, the refresh interval keeps elapsing, and a
\* host of the scope keeps sending snapshots.  The publisher has a build.
Fairness ==
    /\ WF_vars(SyncStep)
    /\ WF_vars(Work)
    /\ WF_vars(CompleteJob \/ ErrorJob)
    /\ WF_vars(RescueJob)
    /\ WF_vars(RetryJob)
    /\ WF_vars(PeriodicTick)
    /\ WF_vars(RegisterScopeDemand)
    /\ WF_vars(manifest = NoBuild /\ \E b \in Builds : Publish(b))

Spec == Init /\ [][Next]_vars
FairSpec == Spec /\ Fairness

-----------------------------------------------------------------------------
(* Properties *)

\* A scope shown as synced has in PostgreSQL the build its row names ("synced:
\* Advisory database is up to date", docs/guides/advisory-sync.md), although the
\* import, the rematch and the row update are three separate commits.  SyncScope
\* skips the import of a build that the row names, so this needs that the publisher
\* took back neither of the two: after an import that was not recorded, a manifest
\* that returns to the row's build is answered with "synced" and nothing is imported.
TakenBack == content \in withdrawn \/ row.sha \in withdrawn
SyncedMeansImported ==
    row.status = "synced" /\ ~TakenBack => content = row.sha

\* The file of a build's name holds that build or is not there, whatever the server
\* answered with and wherever a download was cut off; so the file that SyncScope finds
\* in place, and may rely on without looking into it, is the manifest's.
StoredFilesWhole == \A b \in Builds : files[b] \in {NoBuild, b}

\* The inductive invariant.  Builds that were not taken back are ordered: the row, the
\* rows in PostgreSQL, the build a run works on and the manifest; a run past its import
\* has imported what it will save, or found the row to name it, and the row does not
\* claim "synced" while a run may change what is imported.  A job has a row to report to.
HasRow == registered \/ job # "none" \/ retryable > 0 \/ run.pc # "idle" =>
              row.status # "none"
Working == {"decide", "download", "verify", "import", "match", "cleanup", "save"}
Ordered ==
    /\ row.sha \notin withdrawn => row.sha <= content /\ row.sha <= manifest
    /\ content \notin withdrawn => content <= manifest
RunOrdered ==
    /\ run.pc \in Working =>
         /\ run.target \in Builds
         /\ run.target \notin withdrawn => run.target <= manifest
         /\ row.sha \notin withdrawn => row.sha <= run.target
         /\ content \notin withdrawn => content <= run.target
    /\ run.pc \in {"download", "verify", "import", "cleanup"} => ~run.skip
    /\ run.pc = "import" => files[run.target] = run.target
    /\ run.pc \in {"match", "cleanup", "save"} =>
         IF run.skip THEN row.sha = run.target ELSE content = run.target
SyncInv ==
    /\ TypeOK
    /\ StoredFilesWhole
    /\ HasRow
    /\ run.pc \in Working \cup {"manifest"} => row.status # "synced"
    /\ Ordered
    /\ RunOrdered
    /\ SyncedMeansImported

\* What hosts are matched with only moves forward, unless the publisher took back the
\* build they are matched with.  An import brings a published build, and not while the
\* scope is shown as synced; the row comes to name a build only when that build is in
\* PostgreSQL.  A timeout, a crash or a retry between the import and the row update of
\* SyncScope may leave the two apart, but takes neither back.
AdvisoriesAdvance ==
    [][/\ content \notin withdrawn => content' >= content
       /\ content' # content => /\ row.status # "synced"
                                /\ content' \in withdrawn \/ content' <= manifest
       /\ row.sha \notin withdrawn => row'.sha >= row.sha
       /\ row'.sha # row.sha => row'.sha = content]_vars

\* Once publications, triggers and failures stop, the scope ends up synced to the
\* published build and stays so, whatever status a timeout, a crash or a trigger that
\* met a finishing job left behind, and whatever the server answered with.  Its rows
\* are that build's, unless one of the two had been taken back.
EventuallySynced ==
    /\ <>[](/\ row.sha = manifest
            /\ content = manifest \/ TakenBack
            /\ row.status \in {"syncing", "synced"})
    /\ []<>(row.status = "synced")
=============================================================================
