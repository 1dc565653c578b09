-------------------------- MODULE ScopeSyncProofs --------------------------
(***************************************************************************)
(* Proofs about ScopeSync, for every number of builds, triggers, retryable *)
(* jobs and failures.  SyncInv is inductive: the lemmas below show that    *)
(* each action preserves it, and the theorems read the properties off it.  *)
(* The second part is about the algorithms of Backoff, Collect and         *)
(* Versions, which have no state of their own.                             *)
(***************************************************************************)
EXTENDS ScopeSync, Algorithms, SequenceTheorems, WellFoundedInduction, TLAPS

\* What At builds is a run record.
LEMMA AtType == ASSUME NEW pc \in PC PROVE At(pc) \in Run /\ At(pc).pc = pc
BY ScopeSyncAssumption DEF At, Run, NoBuild, AnyBuild, Bytes, Torn

\* An empty storage directory.
LEMMA NoFiles ==
    /\ [b \in Builds |-> NoBuild] \in [Builds -> Bytes]
    /\ \A b \in Builds : [c \in Builds |-> NoBuild][b] = NoBuild
BY ScopeSyncAssumption DEF Bytes, Torn, NoBuild

\* Nothing is published, imported or running at the start.
LEMMA InitInv == Init => SyncInv
<1> SUFFICES ASSUME Init PROVE SyncInv
  OBVIOUS
<1>1. run \in Run /\ run.pc = "idle"
  BY AtType DEF Init, PC
<1>2. row.sha = 0 /\ row.status = "none" /\ row \in [status : Status, sha : AnyBuild]
  <2>1. row = [status |-> "none", sha |-> 0] /\ 0 \in AnyBuild /\ "none" \in Status
    BY ScopeSyncAssumption DEF Init, Status, NoBuild, AnyBuild
  <2> QED BY <2>1
<1>3. TypeOK
  <2>1. /\ manifest \in AnyBuild /\ content \in AnyBuild
        /\ retryable \in 0..MaxRetryable /\ triggers \in 0..MaxTriggers
        /\ failures \in 0..MaxFailures /\ withdrawals \in 0..MaxWithdrawals
    BY ScopeSyncAssumption DEF Init, NoBuild, AnyBuild
  <2>2. withdrawn \in SUBSET Builds /\ job \in JobState /\ registered \in BOOLEAN
    BY DEF Init, JobState
  <2>3. files \in [Builds -> Bytes]
    BY NoFiles DEF Init
  <2> QED BY <1>1, <1>2, <2>1, <2>2, <2>3 DEF TypeOK
<1>4. StoredFilesWhole
  BY NoFiles DEF Init, StoredFilesWhole
<1>5. RunOrdered
  BY <1>1 DEF RunOrdered, Working
<1>6. HasRow /\ Ordered /\ SyncedMeansImported
  BY <1>1, <1>2 DEF Init, HasRow, Ordered, SyncedMeansImported, NoBuild
<1> QED
  BY <1>1, <1>2, <1>3, <1>4, <1>5, <1>6 DEF SyncInv, Working

\* A build that was not taken back stays behind the manifest when it moves on, and
\* when it goes back it is not one of those it goes back over.
LEMMA PublishInv ==
    ASSUME SyncInv, NEW b \in Builds, Publish(b) \/ Withdraw(b)
    PROVE  SyncInv'
<1>0. /\ UNCHANGED <<row, files, content, job, retryable, registered, run, triggers, failures>>
      /\ manifest' = b
  BY DEF Publish, Withdraw
<1>1. withdrawn \subseteq withdrawn' /\ withdrawn' \in SUBSET Builds
  <2>1. \A x \in (b + 1)..manifest : x \in Builds
    BY ScopeSyncAssumption DEF SyncInv, TypeOK, Builds, AnyBuild
  <2>2. withdrawn \in SUBSET Builds
    BY DEF SyncInv, TypeOK
  <2>3. withdrawn' = withdrawn \/ withdrawn' = withdrawn \cup (b + 1)..manifest
    BY DEF Publish, Withdraw
  <2> QED BY <2>1, <2>2, <2>3
<1>2. ASSUME NEW x \in AnyBuild, x \notin withdrawn', x <= manifest
      PROVE  x <= b
  <2>1. x \in Nat /\ b \in Nat /\ manifest \in Nat
    BY ScopeSyncAssumption DEF SyncInv, TypeOK, Builds, AnyBuild
  <2>2. CASE Publish(b)
    BY <1>2, <2>1, <2>2 DEF Publish
  <2>3. CASE Withdraw(b)
    <3>1. x \notin (b + 1)..manifest
      BY <1>2, <2>3 DEF Withdraw
    <3> QED BY <1>2, <2>1, <3>1
  <2> QED BY <2>2, <2>3
<1>3. /\ row.sha \in AnyBuild /\ content \in AnyBuild /\ run.target \in AnyBuild
      /\ b \in AnyBuild
  BY DEF SyncInv, TypeOK, Run, Builds, AnyBuild
<1>4. TypeOK'
  <2>1. withdrawals' \in 0..MaxWithdrawals
    BY ScopeSyncAssumption DEF Publish, Withdraw, SyncInv, TypeOK
  <2> QED BY <1>0, <1>1, <1>3, <2>1 DEF SyncInv, TypeOK
<1>5. Ordered'
  BY <1>0, <1>1, <1>2, <1>3 DEF SyncInv, Ordered
<1>6. RunOrdered'
  BY <1>0, <1>1, <1>2, <1>3 DEF SyncInv, RunOrdered
<1>7. StoredFilesWhole' /\ HasRow'
  BY <1>0 DEF SyncInv, StoredFilesWhole, HasRow
<1>8. SyncedMeansImported'
  BY <1>0, <1>1 DEF SyncInv, SyncedMeansImported, TakenBack
<1> QED BY <1>0, <1>4, <1>5, <1>6, <1>7, <1>8 DEF SyncInv

\* The steps outside a run (demand, ticks, triggers) and the ones that only move a job
\* leave the builds alone and never write "synced".
LEMMA JobMovesInv ==
    ASSUME SyncInv,
           row' \in {row, [row EXCEPT !.status = "pending"]},
           job' \in JobState,
           retryable' \in 0..MaxRetryable,
           registered' \in BOOLEAN,
           triggers' \in 0..MaxTriggers,
           failures' \in 0..MaxFailures,
           \/ run' = run /\ files' = files
           \/ /\ \E pc \in {"idle", "mark"} : run' = At(pc)
              /\ files' \in {files, [b \in Builds |-> NoBuild]},
           HasRow',
           UNCHANGED <<publisher, content>>
    PROVE  SyncInv'
<1>1. /\ row' \in [status : Status, sha : AnyBuild]
      /\ row'.sha = row.sha
      /\ row'.status # "synced" \/ row' = row
  BY DEF SyncInv, TypeOK, Status
<1>2. \/ run' = run /\ files' = files
      \/ /\ run' \in Run /\ run'.pc \in {"idle", "mark"}
         /\ files' \in {files, [b \in Builds |-> NoBuild]}
  BY AtType DEF PC
<1>3. files' \in [Builds -> Bytes] /\ StoredFilesWhole'
  BY <1>2, NoFiles DEF SyncInv, TypeOK, StoredFilesWhole
<1>4. UNCHANGED <<manifest, withdrawn, withdrawals, content>>
  BY DEF publisher
<1>5. TypeOK'
  BY <1>1, <1>2, <1>3, <1>4 DEF SyncInv, TypeOK
<1>6. (run' = run /\ files' = files) \/ run'.pc \notin Working \cup {"manifest"}
  BY <1>2 DEF Working
<1>7. Ordered' /\ SyncedMeansImported'
  BY <1>1, <1>4 DEF SyncInv, Ordered, SyncedMeansImported, TakenBack
<1>8. RunOrdered'
  BY <1>1, <1>4, <1>6 DEF SyncInv, RunOrdered, Working
<1> QED BY <1>1, <1>3, <1>5, <1>6, <1>7, <1>8 DEF SyncInv

\* One more failure is within the bound.
LEMMA FailingType == ASSUME SyncInv, Failing PROVE failures' \in 0..MaxFailures
BY ScopeSyncAssumption DEF SyncInv, TypeOK, Failing

\* RegisterScopeDemand, PeriodicTick and TriggerManualSync.
LEMMA DemandInv ==
    ASSUME SyncInv, RegisterScopeDemand \/ PeriodicTick \/ TriggerManualSync
    PROVE  SyncInv'
<1>1. Enqueued \in JobState
  BY DEF SyncInv, TypeOK, Enqueued, JobState
<1>2. CASE RegisterScopeDemand
  <2>1. failures' \in 0..MaxFailures
    BY <1>2, FailingType DEF RegisterScopeDemand, SyncInv, TypeOK
  <2>2. job' \in JobState /\ registered' \in BOOLEAN
    BY <1>1, <1>2 DEF RegisterScopeDemand, SyncInv, TypeOK
  <2>3. HasRow'
    BY <1>2 DEF RegisterScopeDemand, SyncInv, TypeOK, HasRow
  <2>4. row' \in {row, [row EXCEPT !.status = "pending"]} /\ run' = run
    BY <1>2 DEF RegisterScopeDemand
  <2>5. UNCHANGED <<publisher, files, content, retryable, triggers>>
    BY <1>2 DEF RegisterScopeDemand
  <2> QED
    BY <2>1, <2>2, <2>3, <2>4, <2>5, JobMovesInv DEF SyncInv, TypeOK
<1>3. CASE PeriodicTick
  <2>1. HasRow'
    BY <1>3 DEF PeriodicTick, SyncInv, HasRow
  <2> QED
    BY <1>1, <1>3, <2>1, JobMovesInv DEF PeriodicTick, SyncInv, TypeOK
<1>4. CASE TriggerManualSync
  <2>1. triggers' \in 0..MaxTriggers
    BY <1>4, ScopeSyncAssumption DEF TriggerManualSync, SyncInv, TypeOK
  <2>2. failures' \in 0..MaxFailures /\ registered' \in BOOLEAN
    BY <1>4, FailingType DEF TriggerManualSync, SyncInv, TypeOK
  <2>3. HasRow'
    BY <1>4 DEF TriggerManualSync, SyncInv, TypeOK, HasRow
  <2> QED
    BY <1>1, <1>4, <2>1, <2>2, <2>3, JobMovesInv
    DEF TriggerManualSync, SyncInv, TypeOK
<1> QED BY <1>2, <1>3, <1>4

\* Work, CompleteJob, ErrorJob, RetryJob and RescueJob.
LEMMA RiverInv == ASSUME SyncInv, RiverStep PROVE SyncInv'
<1>1. Enqueued \in JobState /\ OneMoreRetryable \in 0..MaxRetryable
  BY ScopeSyncAssumption DEF SyncInv, TypeOK, Enqueued, JobState, OneMoreRetryable
<1>2. retryable > 0 => retryable - 1 \in 0..MaxRetryable
  BY ScopeSyncAssumption DEF SyncInv, TypeOK
<1>0. At("idle").pc = "idle" /\ At("mark").pc = "mark"
  BY AtType DEF PC
<1>h. HasRow'
  BY <1>0, ScopeSyncAssumption
  DEF RiverStep, Work, CompleteJob, ErrorJob, RetryJob, RescueJob, SyncInv, TypeOK,
      HasRow, Enqueued, OneMoreRetryable
<1>3. CASE Work
  BY <1>3, <1>h, JobMovesInv DEF Work, SyncInv, TypeOK, JobState
<1>4. CASE CompleteJob
  BY <1>4, <1>h, JobMovesInv DEF CompleteJob, SyncInv, TypeOK, JobState
<1>5. CASE ErrorJob
  BY <1>1, <1>5, <1>h, JobMovesInv DEF ErrorJob, SyncInv, TypeOK, JobState
<1>6. CASE RetryJob
  BY <1>1, <1>2, <1>6, <1>h, JobMovesInv DEF RetryJob, SyncInv, TypeOK
<1>7. CASE RescueJob
  BY <1>1, <1>7, <1>h, JobMovesInv DEF RescueJob, SyncInv, TypeOK, JobState
<1> QED BY <1>3, <1>4, <1>5, <1>6, <1>7 DEF RiverStep

\* A crash forgets the run; the rows and the files stay.
LEMMA CrashInv == ASSUME SyncInv, Crash PROVE SyncInv'
<1>1. job' \in JobState /\ registered' \in BOOLEAN
  BY DEF Crash, SyncInv, TypeOK, JobState
<1>2. HasRow'
  BY AtType DEF Crash, SyncInv, HasRow, PC
<1> QED
  BY <1>1, <1>2, FailingType, JobMovesInv DEF Crash, SyncInv, TypeOK

\* A step of a run that leaves the row's hash, the imported build and the publisher
\* alone: what is left to show is where the run stands.
LEMMA RunMovesInv ==
    ASSUME SyncInv, run \in Run => run' \in Run,
           row' \in [status : Status, sha : AnyBuild],
           row'.sha = row.sha,
           row'.status # "none",
           row'.status # "synced" \/ (row' = row /\ run'.pc \notin Working \cup {"manifest"}),
           failures' \in 0..MaxFailures,
           RunOrdered', StoredFilesWhole', files' \in [Builds -> Bytes],
           UNCHANGED <<publisher, content, job, retryable, registered, triggers>>
    PROVE  SyncInv'
<1>0. UNCHANGED <<manifest, withdrawn, withdrawals>>
  BY DEF publisher
<1>1. TypeOK'
  BY <1>0 DEF SyncInv, TypeOK
<1>2. Ordered' /\ SyncedMeansImported'
  BY <1>0 DEF SyncInv, Ordered, SyncedMeansImported, TakenBack
<1>3. HasRow'
  BY DEF HasRow
<1> QED BY <1>1, <1>2, <1>3 DEF SyncInv

\* A run has a row, which does not say "synced" until its end.
LEMMA RowOfRun ==
    ASSUME SyncInv, run.pc # "idle"
    PROVE  /\ row \in [status : Status, sha : AnyBuild] /\ row.status # "none"
           /\ run \in Run /\ run.target \in AnyBuild /\ run.skip \in BOOLEAN
           /\ run.current \in AnyBuild /\ run.staged \in Bytes
           /\ run.pc \in Working \cup {"manifest"} => row.status # "synced"
           /\ run.pc \in Working => run.target \in Builds
           /\ files \in [Builds -> Bytes] /\ content \in AnyBuild /\ manifest \in AnyBuild
           /\ failures \in 0..MaxFailures
BY DEF SyncInv, TypeOK, HasRow, Run, RunOrdered

\* A cancelled context changes no row.
LEMMA TimeoutInv == ASSUME SyncInv, Timeout PROVE SyncInv'
<1>1. /\ run' \in Run /\ run.pc # "idle"
      /\ run'.pc = run.pc /\ run'.target = run.target /\ run'.skip = run.skip
  BY DEF Timeout, SyncInv, TypeOK, Run
<1>2. UNCHANGED <<publisher, row, files, content, job, retryable, registered, triggers>>
  BY DEF Timeout
<1>3. RunOrdered' /\ StoredFilesWhole' /\ Ordered' /\ SyncedMeansImported' /\ HasRow'
  BY <1>1, <1>2
  DEF SyncInv, RunOrdered, StoredFilesWhole, Ordered, SyncedMeansImported, TakenBack, HasRow, publisher
<1>4. TypeOK'
  BY <1>1, <1>2, FailingType DEF Timeout, SyncInv, TypeOK, publisher
<1> QED BY <1>1, <1>2, <1>3, <1>4 DEF SyncInv

\* The run takes over the manifest's build; no build that was not taken back is newer.
LEMMA FetchInv == ASSUME SyncInv, MarkSyncing \/ FetchManifest PROVE SyncInv'
<1>0. UNCHANGED <<publisher, files, content, job, retryable, registered, triggers, failures>>
  BY DEF MarkSyncing, FetchManifest
<1>f. files' \in [Builds -> Bytes] /\ StoredFilesWhole' /\ failures' \in 0..MaxFailures
  BY <1>0 DEF SyncInv, TypeOK, StoredFilesWhole
<1>1. CASE MarkSyncing
  <2>1. /\ run' \in Run /\ run'.pc = "manifest"
        /\ row' \in [status : Status, sha : AnyBuild]
        /\ row'.sha = row.sha /\ row'.status = "syncing"
    BY <1>1 DEF MarkSyncing, SyncInv, TypeOK, Run, PC, Status
  <2>2. RunOrdered'
    BY <2>1 DEF RunOrdered, Working
  <2> QED BY <1>0, <1>f, <2>1, <2>2, RunMovesInv
<1>2. CASE FetchManifest
  <2>0. manifest \in Builds /\ manifest \in AnyBuild /\ run.pc = "manifest"
    BY <1>2, ScopeSyncAssumption
    DEF FetchManifest, Live, SyncInv, TypeOK, NoBuild, AnyBuild, Builds
  <2>1. run' \in Run /\ run'.pc = "decide" /\ run'.target = manifest /\ row' = row
    BY <1>2, <2>0 DEF FetchManifest, SyncInv, TypeOK, Run, PC
  <2>2. RunOrdered'
    BY <1>0, <2>0, <2>1, ScopeSyncAssumption
    DEF SyncInv, TypeOK, Ordered, RunOrdered, publisher, Builds, AnyBuild
  <2> QED BY <1>0, <1>f, <2>0, <2>1, <2>2, RunMovesInv, RowOfRun
<1> QED BY <1>1, <1>2

\* A run that skips the download has read the target's hash in the row.
LEMMA DecideInv == ASSUME SyncInv, Decide PROVE SyncInv'
<1>1. PICK sha \in {row.sha, NoBuild} :
        /\ failures' = failures \/ Failing
        /\ run' = [run EXCEPT !.pc = IF NeedsDownload(sha) THEN "download" ELSE "match",
                              !.current = sha,
                              !.skip = ~NeedsDownload(sha)]
  BY DEF Decide
<1>2. sha \in AnyBuild /\ NeedsDownload(sha) \in BOOLEAN
  BY ScopeSyncAssumption DEF SyncInv, TypeOK, NoBuild, AnyBuild, NeedsDownload
<1>3. /\ run' \in Run
      /\ run'.pc = IF NeedsDownload(sha) THEN "download" ELSE "match"
      /\ run'.target = run.target
      /\ run'.skip = ~NeedsDownload(sha)
  BY <1>1, <1>2 DEF SyncInv, TypeOK, Run, PC
<1>4. run'.pc \in {"download", "match"} /\ run.pc = "decide" /\ run.pc \in Working
  BY <1>3 DEF Decide, Working
<1>5. UNCHANGED <<publisher, row, files, content, job, retryable, registered, triggers>>
  BY DEF Decide
<1>6. run'.pc = "match" => run'.skip /\ row.sha = run.target
  <2> SUFFICES ASSUME run'.pc = "match" PROVE run'.skip /\ row.sha = run.target
    OBVIOUS
  <2>1. ~NeedsDownload(sha)
    BY <1>3
  <2>2. sha = run.target
    BY <2>1 DEF NeedsDownload
  <2>3. run.target # NoBuild
    BY <1>4, RowOfRun, ScopeSyncAssumption DEF NoBuild, Builds
  <2> QED BY <1>3, <2>1, <2>2, <2>3
<1>7. RunOrdered'
  BY <1>3, <1>4, <1>5, <1>6 DEF SyncInv, RunOrdered, Working, publisher
<1>8. failures' \in 0..MaxFailures /\ StoredFilesWhole'
  BY <1>1, <1>5, FailingType DEF SyncInv, TypeOK, StoredFilesWhole
<1> QED BY <1>3, <1>4, <1>5, <1>7, <1>8, RowOfRun, RunMovesInv

\* What is downloaded goes to the temporary file, and to its place only when its sum is
\* the target's.
LEMMA DownloadInv ==
    ASSUME SyncInv, NEW got \in Bytes \ {NoBuild}, Download(got) \/ VerifyAndRename
    PROVE  SyncInv'
<1>0. UNCHANGED <<publisher, row, content, job, retryable, registered, triggers>>
  BY DEF Download, VerifyAndRename
<1>1. CASE Download(got)
  <2>1. /\ failures' = failures \/ Failing
        /\ run' = [run EXCEPT !.pc = "verify", !.staged = got]
    BY <1>1 DEF Download
  <2>2. run.pc = "download" /\ run.pc \in Working /\ files' = files
    BY <1>1 DEF Download, Live, Working
  <2>3. /\ run' \in Run /\ run'.pc = "verify" /\ run'.target = run.target
        /\ run'.skip = run.skip
    BY <2>1 DEF SyncInv, TypeOK, Run, PC
  <2>4. RunOrdered'
    BY <1>0, <2>2, <2>3 DEF SyncInv, RunOrdered, Working, publisher
  <2>5. failures' \in 0..MaxFailures /\ StoredFilesWhole'
    BY <2>1, <2>2, FailingType DEF SyncInv, TypeOK, StoredFilesWhole
  <2> QED BY <1>0, <2>2, <2>3, <2>4, <2>5, RowOfRun, RunMovesInv
<1>2. CASE VerifyAndRename
  <2>2. run.pc = "verify" /\ run.pc \in Working /\ run.staged = run.target /\ failures' = failures
    BY <1>2 DEF VerifyAndRename, Working
  <2>3. /\ run' \in Run /\ run'.pc = "import" /\ run'.target = run.target
        /\ run'.skip = run.skip
    BY <1>2 DEF VerifyAndRename, SyncInv, TypeOK, Run, PC
  <2>4. files' = [files EXCEPT ![run.target] = run.target] /\ run.target \in Builds
    BY <1>2, <2>2, RowOfRun DEF VerifyAndRename
  <2>5. /\ files' \in [Builds -> Bytes] /\ StoredFilesWhole'
        /\ files'[run.target] = run.target
    BY <2>2, <2>4, RowOfRun DEF SyncInv, StoredFilesWhole
  <2>6. RunOrdered'
    BY <1>0, <2>2, <2>3, <2>5 DEF SyncInv, RunOrdered, Working, publisher
  <2> QED BY <1>0, <2>2, <2>3, <2>5, <2>6, RowOfRun, RunMovesInv
<1> QED BY <1>1, <1>2

\* The import brings the target's rows, which are not older than the row's build.
LEMMA ImportInv == ASSUME SyncInv, Import PROVE SyncInv'
<1>0. UNCHANGED <<publisher, row, files, job, retryable, registered, triggers, failures>>
  BY DEF Import
<1>1. /\ run' \in Run /\ run'.pc = "match" /\ run'.target = run.target
      /\ run.pc = "import" /\ run.pc \in Working /\ run.pc # "idle"
      /\ run'.skip = run.skip
  BY DEF Import, Live, SyncInv, TypeOK, Run, PC, Working
<1>2. content' = run.target /\ run.target \in Builds /\ run.target \in AnyBuild
  BY <1>1, RowOfRun DEF Import, SyncInv, RunOrdered
<1>s. ~run.skip
  BY <1>1 DEF SyncInv, RunOrdered
<1>3. TypeOK'
  BY <1>0, <1>1, <1>2 DEF SyncInv, TypeOK, publisher
<1>4. Ordered'
  BY <1>0, <1>1, <1>2 DEF SyncInv, Ordered, RunOrdered, publisher
<1>5. RunOrdered'
  BY <1>0, <1>1, <1>2, <1>s DEF SyncInv, RunOrdered, Working, publisher, AnyBuild
<1>6. StoredFilesWhole' /\ HasRow' /\ SyncedMeansImported' /\ row.status # "synced"
  BY <1>0, <1>1, RowOfRun DEF SyncInv, StoredFilesWhole, HasRow, SyncedMeansImported
<1> QED BY <1>0, <1>3, <1>4, <1>5, <1>6 DEF SyncInv

\* The rematch and the removal of the file before: the run moves on.
LEMMA StepsInv == ASSUME SyncInv, MatchHosts \/ CleanUp PROVE SyncInv'
<1>0. UNCHANGED <<publisher, row, content, job, retryable, registered, triggers, failures>>
  BY DEF MatchHosts, CleanUp
<1>1. /\ run' \in Run /\ run'.pc \in {"save", "cleanup"} /\ run'.target = run.target
      /\ run'.skip = run.skip /\ run.pc \in {"match", "cleanup"} /\ run.pc \in Working
      /\ run'.pc = "cleanup" => ~run.skip
  BY DEF MatchHosts, CleanUp, SyncInv, TypeOK, Run, PC, Working
<1>2. files' \in [Builds -> Bytes] /\ StoredFilesWhole'
  <2>1. CASE files' = files
    BY <2>1 DEF SyncInv, TypeOK, StoredFilesWhole
  <2>2. CASE files' = [files EXCEPT ![run.current] = NoBuild]
    BY <2>2, NoFiles, ScopeSyncAssumption
    DEF SyncInv, TypeOK, StoredFilesWhole, Bytes, Torn, NoBuild
  <2> QED BY <2>1, <2>2 DEF MatchHosts, CleanUp
<1>3. RunOrdered'
  BY <1>0, <1>1 DEF SyncInv, RunOrdered, Working, publisher
<1>4. failures' \in 0..MaxFailures
  BY <1>0 DEF SyncInv, TypeOK
<1> QED BY <1>0, <1>1, <1>2, <1>3, <1>4, RowOfRun, RunMovesInv

\* "synced" is written for what the run imported or what the row named already, and
\* "failed" changes no hash.
LEMMA SaveInv == ASSUME SyncInv, Save \/ FailSync PROVE SyncInv'
<1>1. CASE Save
  <2>1. /\ run' \in Run /\ run'.pc = "done" /\ run.pc = "save" /\ run.pc \in Working
        /\ row' = [status |-> "synced", sha |-> run.target]
        /\ run.target \in AnyBuild
    BY <1>1 DEF Save, Live, SyncInv, TypeOK, Run, PC, Working
  <2>2. /\ row' \in [status : Status, sha : AnyBuild] /\ row'.sha = run.target
        /\ row'.status = "synced"
    BY <2>1 DEF Status
  <2>3. UNCHANGED <<publisher, files, content, job, retryable, registered, triggers, failures>>
    BY <1>1 DEF Save
  <2>4. TypeOK' /\ StoredFilesWhole'
    BY <2>1, <2>2, <2>3 DEF SyncInv, TypeOK, StoredFilesWhole, publisher
  <2>5. RunOrdered' /\ run'.pc \notin Working \cup {"manifest"} /\ HasRow'
    BY <2>1, <2>2 DEF RunOrdered, Working, HasRow
  <2>6. /\ run.target = row.sha \/ run.target = content
        /\ content \notin withdrawn => content <= run.target
        /\ run.target \notin withdrawn => run.target <= manifest
        /\ run.target = row.sha => (run.target \notin withdrawn => run.target <= content)
    BY <2>1 DEF SyncInv, RunOrdered, Ordered, Working
  <2>7. content \in AnyBuild
    BY DEF SyncInv, TypeOK
  <2>8. Ordered'
    BY <2>1, <2>2, <2>3, <2>6, <2>7 DEF SyncInv, Ordered, publisher, AnyBuild
  <2>9. SyncedMeansImported'
    BY <2>1, <2>2, <2>3, <2>6, <2>7
    DEF SyncInv, SyncedMeansImported, TakenBack, publisher, AnyBuild
  <2> QED BY <2>4, <2>5, <2>8, <2>9 DEF SyncInv
<1>2. CASE FailSync
  <2>1. /\ run' \in Run /\ run'.pc = "erred" /\ run.pc # "idle"
    BY <1>2 DEF FailSync, SyncInv, TypeOK, Run, PC
  <2>2. row' \in {row, [row EXCEPT !.status = "failed"]}
    BY <1>2 DEF FailSync
  <2>3. /\ row' \in [status : Status, sha : AnyBuild] /\ row'.sha = row.sha
        /\ row'.status # "none" /\ (row' = row \/ row'.status # "synced")
    BY <2>1, <2>2, RowOfRun DEF Status
  <2>4. UNCHANGED <<publisher, files, content, job, retryable, registered, triggers>>
    BY <1>2 DEF FailSync
  <2>5. failures' \in 0..MaxFailures /\ files' \in [Builds -> Bytes] /\ StoredFilesWhole'
    BY <1>2, <2>4, FailingType DEF FailSync, SyncInv, TypeOK, StoredFilesWhole
  <2>6. RunOrdered' /\ run'.pc \notin Working \cup {"manifest"}
    BY <2>1 DEF RunOrdered, Working
  <2> QED BY <2>1, <2>3, <2>4, <2>5, <2>6, RunMovesInv
<1> QED BY <1>1, <1>2

\* Every step preserves the invariant.
LEMMA NextInv == SyncInv /\ [Next]_vars => SyncInv'
<1> SUFFICES ASSUME SyncInv, [Next]_vars PROVE SyncInv'
  OBVIOUS
<1>1. CASE UNCHANGED vars
  BY <1>1
  DEF vars, publisher, SyncInv, TypeOK, HasRow, StoredFilesWhole, SyncedMeansImported,
      TakenBack, Ordered, RunOrdered
<1>2. CASE SyncStep
  <2>1. NoBuild + 1 \in Bytes \ {NoBuild}
    BY ScopeSyncAssumption DEF Bytes, Torn, NoBuild
  <2>2. VerifyAndRename => SyncInv'
    BY <2>1, DownloadInv
  <2>3. (\E got \in Bytes \ {NoBuild} : Download(got)) => SyncInv'
    BY DownloadInv
  <2> QED BY <1>2, <2>2, <2>3, FetchInv, DecideInv, ImportInv, StepsInv, SaveInv DEF SyncStep
<1> QED
  BY <1>1, <1>2, PublishInv, DemandInv, RiverInv, TimeoutInv, CrashInv DEF Next

\* SyncInv holds in every reachable state.
THEOREM SyncInvariant == Spec => []SyncInv
<1>1. Init => SyncInv
  BY InitInv
<1>2. SyncInv /\ [Next]_vars => SyncInv'
  BY NextInv
<1> QED BY <1>1, <1>2, PTL DEF Spec

\* The row, the run and the job keep their types; the manifest's build a run works on
\* is a published one.
THEOREM TypeCorrect == Spec => []TypeOK
<1>1. SyncInv => TypeOK
  BY DEF SyncInv
<1> QED BY <1>1, SyncInvariant, PTL

\* A file in the storage directory is the build of its name, whatever the publisher's
\* server answered with and wherever downloads, timeouts and crashes cut a run off.
THEOREM FilesWhole == Spec => []StoredFilesWhole
<1>1. SyncInv => StoredFilesWhole
  BY DEF SyncInv
<1> QED BY <1>1, SyncInvariant, PTL

\* A scope shown as synced has in PostgreSQL the build its row names, although import
\* and row update are separate commits, for every order of publications, withdrawals,
\* failures and crashes, as long as neither of the two builds has been taken back.
THEOREM SyncedIsImported == Spec => []SyncedMeansImported
<1>1. SyncInv => SyncedMeansImported
  BY DEF SyncInv
<1> QED BY <1>1, SyncInvariant, PTL

\* A step that imports nothing and leaves the row's build alone cannot take either back.
LEMMA OthersAdvance ==
    ASSUME SyncInv, content' = content, row'.sha = row.sha
    PROVE  /\ content' >= content /\ content' = content
           /\ row'.sha >= row.sha /\ row'.sha = row.sha
BY ScopeSyncAssumption DEF SyncInv, TypeOK, AnyBuild

\* Only Import changes what is imported, and only Save the build that the row names.
LEMMA WhoAdvances ==
    ASSUME SyncInv, [Next]_vars, ~Import, ~Save
    PROVE  content' = content /\ row'.sha = row.sha
<1>0. row \in [status : Status, sha : AnyBuild]
  BY DEF SyncInv, TypeOK
<1>1. CASE UNCHANGED vars
  BY <1>1 DEF vars
<1>2. CASE RegisterScopeDemand \/ TriggerManualSync
  BY <1>0, <1>2 DEF RegisterScopeDemand, TriggerManualSync
<1>3. CASE \E b \in Builds : Publish(b) \/ Withdraw(b)
  BY <1>3 DEF Publish, Withdraw
<1>4. CASE PeriodicTick \/ RiverStep \/ Timeout \/ Crash
  BY <1>4 DEF PeriodicTick, RiverStep, Work, CompleteJob, ErrorJob, RetryJob, RescueJob, Timeout, Crash
<1>5. CASE MarkSyncing \/ FailSync
  BY <1>0, <1>5 DEF MarkSyncing, FailSync
<1>6. CASE FetchManifest \/ Decide \/ VerifyAndRename \/ MatchHosts \/ CleanUp
  BY <1>6 DEF FetchManifest, Decide, VerifyAndRename, MatchHosts, CleanUp
<1>7. CASE \E got \in Bytes \ {NoBuild} : Download(got)
  BY <1>7 DEF Download
<1> QED BY <1>1, <1>2, <1>3, <1>4, <1>5, <1>6, <1>7 DEF Next, SyncStep

\* Neither the imported advisories nor the row's build ever go back behind a build that was not
\* taken back, whatever timeouts, crashes and retries come between the import and the row update;
\* nothing is imported under a scope that is shown as synced, and the row comes to name only what
\* is imported.
THEOREM NeverBack == Spec => AdvisoriesAdvance
<1> DEFINE Advance == /\ content \notin withdrawn => content' >= content
                      /\ content' # content => /\ row.status # "synced"
                                               /\ content' \in withdrawn \/ content' <= manifest
                      /\ row.sha \notin withdrawn => row'.sha >= row.sha
                      /\ row'.sha # row.sha => row'.sha = content
<1>1. ASSUME SyncInv, [Next]_vars PROVE Advance
  <2>1. CASE Import
    <3>1. /\ run.pc = "import" /\ content' = run.target /\ row' = row /\ run.pc \in Working
      BY <1>1, <2>1 DEF Import, Live, SyncInv, RunOrdered, Working
    <3>2. /\ content \notin withdrawn => content <= run.target
          /\ run.target \notin withdrawn => run.target <= manifest
          /\ row.status # "synced"
      BY <1>1, <3>1 DEF SyncInv, RunOrdered
    <3>3. row.sha \in Int /\ content \in Int /\ run.target \in Int
      BY <1>1 DEF SyncInv, TypeOK, Run, AnyBuild
    <3> QED BY <3>1, <3>2, <3>3
  <2>2. CASE Save
    <3>1. /\ run.pc = "save" /\ content' = content /\ row'.sha = run.target /\ run.pc \in Working
      BY <2>2 DEF Save, Live, Working
    <3>2. /\ run.target = row.sha \/ run.target = content
          /\ row.sha \notin withdrawn => row.sha <= run.target
      BY <1>1, <3>1 DEF SyncInv, RunOrdered
    <3>3. row.sha \in Int /\ content \in Int /\ run.target \in Int
      BY <1>1 DEF SyncInv, TypeOK, Run, AnyBuild
    <3> QED BY <3>1, <3>2, <3>3
  <2>3. CASE ~Import /\ ~Save
    BY <1>1, <2>3, WhoAdvances, OthersAdvance
  <2> QED BY <2>1, <2>2, <2>3
<1>2. SyncInv /\ [Next]_vars => [Advance]_vars
  BY <1>1
<1> QED BY <1>2, SyncInvariant, PTL DEF Spec, AdvisoriesAdvance

-----------------------------------------------------------------------------
(***************************************************************************)
(* The pure algorithms around a sync and a pull, for every input: how long *)
(* a failed job waits (Backoff), and what a machine reports (Collect).     *)
(* Module Algorithms runs each of them once on an input.                   *)
(***************************************************************************)
\* Ten seconds are a number of units, and ten minutes sixty of them.
LEMMA Units == TenSeconds \in Nat \ {0} /\ TenMinutes = 60 * TenSeconds
BY SMT DEF TenSeconds, TenMinutes

\* Ten seconds have their lowest bit and the bit 23, and none above it.
LEMMA TenSecondsBits ==
    /\ 0 \in Bits(TenSeconds)
    /\ 23 \in Bits(TenSeconds)
    /\ Bits(TenSeconds) \subseteq 0..23
<1>1. 0 \in Bits(TenSeconds) /\ 23 \in Bits(TenSeconds)
  BY SMT DEF TenSeconds, Bits
<1>2. \A i \in 24..30 : (TenSeconds \div 2^i) % 2 # 1
  <2> SUFFICES ASSUME NEW i \in 24..30 PROVE (TenSeconds \div 2^i) % 2 # 1
    OBVIOUS
  <2>1. CASE i = 24  BY <2>1, SMT DEF TenSeconds
  <2>2. CASE i = 25  BY <2>2, SMT DEF TenSeconds
  <2>3. CASE i = 26  BY <2>3, SMT DEF TenSeconds
  <2>4. CASE i = 27  BY <2>4, SMT DEF TenSeconds
  <2>5. CASE i = 28  BY <2>5, SMT DEF TenSeconds
  <2>6. CASE i = 29  BY <2>6, SMT DEF TenSeconds
  <2>7. CASE i = 30  BY <2>7, SMT DEF TenSeconds
  <2>8. i = 24 \/ i = 25 \/ i = 26 \/ i = 27 \/ i = 28 \/ i = 29 \/ i = 30
    OBVIOUS
  <2> QED BY <2>1, <2>2, <2>3, <2>4, <2>5, <2>6, <2>7, <2>8, Zenon
<1>3. \A i \in Bits(TenSeconds) : i \in 0..30 /\ i \notin 24..30
  BY <1>2, Zenon DEF Bits
<1>4. Bits(TenSeconds) \subseteq 0..23
  <2> SUFFICES ASSUME NEW i \in Bits(TenSeconds) PROVE i \in 0..23
    OBVIOUS
  <2>1. i \in 0..30 /\ i \notin 24..30
    BY <1>3, Zenon
  <2> QED BY <2>1, SMT
<1> QED BY <1>1, <1>4

\* The powers that matter.
LEMMA Powers ==
    ASSUME NEW k \in Int
    PROVE  /\ k = 0 => 2^k = 1
           /\ k = 1 => 2^k = 2
           /\ k = 2 => 2^k = 4
           /\ k = 3 => 2^k = 8
           /\ k = 4 => 2^k = 16
           /\ k = 5 => 2^k = 32
           /\ k = 6 => 2^k = 64
<1>1. 2^0 = 1 /\ 2^1 = 2 /\ 2^2 = 4 /\ 2^3 = 8 /\ 2^4 = 16 /\ 2^5 = 32 /\ 2^6 = 64
  BY SMT
<1>2. /\ k = 0 => 2^k = 2^0
      /\ k = 1 => 2^k = 2^1
      /\ k = 2 => 2^k = 2^2
      /\ k = 3 => 2^k = 2^3
      /\ k = 4 => 2^k = 2^4
      /\ k = 5 => 2^k = 2^5
      /\ k = 6 => 2^k = 2^6
  BY Zenon
<1> QED BY <1>1, <1>2, Zenon

\* The bits of a wait are those of ten seconds, moved up; what passes the width is lost.
LEMMA ShiftedBits ==
    ASSUME NEW n \in Nat \ {0}
    PROVE  /\ n <= 54 => n - 1 \in Shifted(n)
           /\ n <= 31 => n + 22 \in Shifted(n)
           /\ \A i \in Shifted(n) : i \in n - 1 .. n + 22 /\ i < 54
<1> DEFINE B == Bits(TenSeconds)
<1>1. Shifted(n) = {i + n - 1 : i \in B} \cap 0..53
  BY DEF Shifted, Width
<1>2. 0 \in B /\ 23 \in B /\ B \subseteq 0..23
  BY TenSecondsBits
<1> HIDE DEF B
<1>3. n - 1 \in {i + n - 1 : i \in B} /\ n + 22 \in {i + n - 1 : i \in B}
  <2>1. n - 1 = 0 + n - 1 /\ n + 22 = 23 + n - 1
    OBVIOUS
  <2> QED BY <1>2, <2>1
<1>4. \A i \in Shifted(n) : i \in n - 1 .. n + 22 /\ i < 54
  BY <1>1, <1>2
<1> QED BY <1>1, <1>3, <1>4

\* The wait doubles for six attempts; from the seventh on it is the cap, which also stands for
\* what overflows.
LEMMA WaitOf ==
    ASSUME NEW n \in Nat \ {0}
    PROVE  /\ n = 1 => NextRetry(n) = TenSeconds
           /\ n = 2 => NextRetry(n) = 2 * TenSeconds
           /\ n = 3 => NextRetry(n) = 4 * TenSeconds
           /\ n = 4 => NextRetry(n) = 8 * TenSeconds
           /\ n = 5 => NextRetry(n) = 16 * TenSeconds
           /\ n = 6 => NextRetry(n) = 32 * TenSeconds
           /\ n > 6 => NextRetry(n) = 60 * TenSeconds
<1> DEFINE p == 2^(n - 1)
<1>1. /\ TenMinutes = 60 * TenSeconds /\ TenSeconds \in Nat \ {0}
      /\ Product(n) = TenSeconds * p
  BY Units DEF Product
<1>2. /\ n = 1 => p = 1
      /\ n = 2 => p = 2
      /\ n = 3 => p = 4
      /\ n = 4 => p = 8
      /\ n = 5 => p = 16
      /\ n = 6 => p = 32
      /\ n = 7 => p = 64
  <2>1. /\ n - 1 \in Int
        /\ n = 1 => n - 1 = 0
        /\ n = 2 => n - 1 = 1
        /\ n = 3 => n - 1 = 2
        /\ n = 4 => n - 1 = 3
        /\ n = 5 => n - 1 = 4
        /\ n = 6 => n - 1 = 5
        /\ n = 7 => n - 1 = 6
    BY SMT
  <2> QED BY <2>1, Powers, Zenon
<1> HIDE DEF p
<1>3. CASE n <= 6
  <2>1. n - 1 \in Shifted(n) /\ \A i \in Shifted(n) : i \in Int /\ i <= 29
    BY <1>3, ShiftedBits
  <2>2. p \in 1..32
    BY <1>2, <1>3
  <2>3. ~NotPositive(Shifted(n))
    BY <2>1 DEF NotPositive, Sign64, Width
  <2>4. ~(Product(n) > TenMinutes)
    BY <1>1, <1>2, <1>3
  <2>5. ~AboveCap(n)
    BY <2>1, <2>4 DEF AboveCap
  <2>6. NextRetry(n) = TenSeconds * p
    BY <1>1, <2>3, <2>5, Zenon DEF NextRetry
  <2> QED BY <1>1, <1>2, <1>3, <2>6
<1>4. CASE n > 6
  <2>1. NotPositive(Shifted(n)) \/ AboveCap(n)
    <3>1. CASE n = 7
      <4>1. Product(n) > TenMinutes
        BY <1>1, <1>2, <3>1
      <4> QED BY <4>1, Zenon DEF AboveCap
    <3>2. CASE n > 7 /\ n <= 31
      BY <3>2, ShiftedBits DEF AboveCap
    <3>3. CASE n > 31 /\ n <= 54
      BY <3>3, ShiftedBits DEF AboveCap
    <3>4. CASE n > 54
      <4>1. Shifted(n) = {}
        BY <3>4, ShiftedBits
      <4> QED BY <4>1 DEF NotPositive
    <3> QED BY <1>4, <3>1, <3>2, <3>3, <3>4
  <2>2. NextRetry(n) = TenMinutes
    BY <2>1, Zenon DEF NextRetry
  <2> QED BY <1>1, <1>4, <2>2
<1> QED BY <1>3, <1>4

\* Every wait is within its bounds, and none is shorter than the one before.
LEMMA WaitBounds ==
    ASSUME NEW n \in Nat \ {0}
    PROVE  /\ NextRetry(n) \in TenSeconds..TenMinutes
           /\ n > 1 => NextRetry(n - 1) <= NextRetry(n)
<1>1. TenMinutes = 60 * TenSeconds /\ TenSeconds \in Nat \ {0}
  BY Units
<1>2. NextRetry(n) \in TenSeconds..TenMinutes
  BY <1>1, WaitOf
<1>3. ASSUME n > 1 PROVE NextRetry(n - 1) <= NextRetry(n)
  <2> DEFINE k == n - 1
  <2>1. k \in Nat \ {0} /\ n = k + 1
    BY <1>3
  <2> HIDE DEF k
  <2> SUFFICES NextRetry(k) <= NextRetry(n)
    BY DEF k
  <2> QED BY <1>1, <2>1, WaitOf
<1> QED BY <1>2, <1>3

\* What a run of an algorithm works on and, once it is done, what it gave.
RunsOK ==
    /\ input.alg = "retry" => input.attempt \in Attempts
    /\ input.alg = "report" => input.machine \in Machines
    /\ output.done =>
         /\ input.alg = "retry" => output.result = NextRetry(input.attempt)
         /\ input.alg = "report" =>
              output.result = [agent |-> CollectSnapshot(input.machine),
                               ssh |-> CollectOverSSH(input.machine)]

\* An algorithm runs once, on the input that was chosen at the start.
LEMMA RunsKept == AlgSpec => []RunsOK
<1>1. Start => RunsOK
  <2> SUFFICES ASSUME Start PROVE RunsOK
    OBVIOUS
  <2>1. ~output.done
    BY DEF Start, Pending
  <2>2. /\ input.alg = "retry" => input.attempt \in Attempts
        /\ input.alg = "report" => input.machine \in Machines
    BY DEF Start, Inputs
  <2> QED BY <2>1, <2>2 DEF RunsOK
<1>2. RunsOK /\ [Step]_ioVars => RunsOK'
  <2> SUFFICES ASSUME RunsOK, [Step]_ioVars PROVE RunsOK'
    OBVIOUS
  <2>1. CASE UNCHANGED ioVars
    BY <2>1 DEF ioVars, RunsOK
  <2>2. ASSUME NEW alg, NEW result, Answer(alg, result), alg \notin {"retry", "report"}
        PROVE  RunsOK'
    BY <2>2 DEF Answer, RunsOK
  <2>3. CASE Compare \/ Read \/ Scope
    <3>1. CASE Compare
      <4>1. PICK result : Answer("compare", result)
        BY <3>1, Zenon DEF Compare
      <4> QED BY <2>2, <4>1
    <3>2. CASE Read
      <4>1. PICK result : Answer("read", result)
        BY <3>2, Zenon DEF Read
      <4> QED BY <2>2, <4>1
    <3>3. CASE Scope
      <4>1. PICK result : Answer("scope", result)
        BY <3>3, Zenon DEF Scope
      <4> QED BY <2>2, <4>1
    <3> QED BY <2>3, <3>1, <3>2, <3>3
  <2>4. CASE Retry
    <3>1. /\ input.alg = "retry" /\ input' = input
          /\ output'.done /\ output'.result = NextRetry(input.attempt)
      BY <2>4 DEF Retry, Answer, Done
    <3> QED BY <3>1 DEF RunsOK
  <2>5. CASE Report
    <3> DEFINE both == [agent |-> CollectSnapshot(input.machine),
                        ssh |-> CollectOverSSH(input.machine)]
    <3>1. Answer("report", both)
      BY <2>5, Zenon DEF Report
    <3> HIDE DEF both
    <3>2. /\ input.alg = "report" /\ input' = input
          /\ output'.done /\ output'.result = both
      BY <3>1 DEF Answer, Done
    <3> QED BY <3>2 DEF RunsOK, both
  <2> QED BY <2>1, <2>3, <2>4, <2>5 DEF Step
<1> QED BY <1>1, <1>2, PTL DEF AlgSpec

\* A failed job waits from ten seconds to ten minutes, and never less than the time before, whatever
\* the number of its attempt.
THEOREM RetriesBounded == AlgSpec => []BackoffBounded
<1>1. RunsOK => BackoffBounded
  <2> SUFFICES ASSUME RunsOK, Ran("retry")
               PROVE  /\ output.result \in TenSeconds..TenMinutes
                      /\ input.attempt > 1 => NextRetry(input.attempt - 1) <= output.result
    BY DEF BackoffBounded
  <2>1. input.attempt \in Nat \ {0} /\ output.result = NextRetry(input.attempt)
    BY AlgorithmsAssumption DEF RunsOK, Ran
  <2> QED BY <2>1, WaitBounds
<1> QED BY <1>1, RunsKept, PTL

\* A set of numbers has a smallest one.
LEMMA SmallestIn ==
    ASSUME NEW S, S \subseteq Nat, S # {}
    PROVE  Min(S) \in S /\ \A y \in S : Min(S) <= y
<1>1. PICK x \in S : \A y \in S : <<y, x>> \notin OpToRel(<, Nat)
  BY NatLessThanWellFounded, WFMin
<1>2. \A y \in S : x <= y
  <2> SUFFICES ASSUME NEW y \in S, y < x PROVE FALSE
    OBVIOUS
  <2>1. <<y, x>> \in OpToRel(<, Nat)
    BY DEF OpToRel
  <2> QED BY <1>1, <2>1
<1> QED BY <1>1, <1>2 DEF Min

\* The agent's table of distributions and the server's agree on what both know.
LEMMA TablesAgree ==
    ASSUME NEW id, NormalizeOsFamily(id) # Failed, NormalizeOSFamilyString(id) # NoText
    PROVE  NormalizeOSFamilyString(id) = NormalizeOsFamily(id)
BY DEF NormalizeOsFamily, NormalizeOSFamilyString, Failed, NoText

\* So the server picks the script of the family that the agent finds.
LEMMA FamiliesAgree ==
    ASSUME NEW m, WellFormed(m), NormalizeOsFamily(m.id) # Failed,
           DetectOSFamilyFromReleaseOutput(m.id, m.idLike) # NoText
    PROVE  DetectOSFamilyFromReleaseOutput(m.id, m.idLike) = NormalizeOsFamily(m.id)
<1> DEFINE family(i) == NormalizeOSFamilyString(IF i = 0 THEN m.id ELSE m.idLike[i])
           known == {i \in {0} \cup DOMAIN m.idLike : family(i) # NoText}
<1>1. DetectOSFamilyFromReleaseOutput(m.id, m.idLike)
        = IF known = {} THEN NoText ELSE family(Min(known))
  BY Zenon DEF DetectOSFamilyFromReleaseOutput
<1>2. known # {}
  BY <1>1, Zenon
<1>3. DOMAIN m.idLike \subseteq Nat
  BY DEF WellFormed
<1>4. known \subseteq Nat
  BY <1>3
<1>5. Min(known) \in known
  <2> HIDE DEF known
  <2> QED BY <1>2, <1>4, SmallestIn
<1>6. PICK k \in known : DetectOSFamilyFromReleaseOutput(m.id, m.idLike) = family(k)
  BY <1>1, <1>2, <1>5, Zenon
<1>7. CASE k = 0
  <2>1. family(k) = NormalizeOSFamilyString(m.id)
    BY <1>7
  <2> QED BY <1>6, <2>1, TablesAgree, Zenon
<1>8. CASE k # 0
  <2>1. k \in DOMAIN m.idLike /\ family(k) = NormalizeOSFamilyString(m.idLike[k]) /\ family(k) # NoText
    BY <1>8
  <2>2. NormalizeOSFamilyString(m.idLike[k]) \in {NoText, NormalizeOsFamily(m.id)}
    BY <2>1 DEF WellFormed
  <2> QED BY <1>6, <2>1, <2>2, Zenon
<1> QED BY <1>7, <1>8

\* What the agent's report says, when there is one.
LEMMA AgentReport ==
    ASSUME NEW m, CollectSnapshot(m).made
    PROVE  LET a == CollectSnapshot(m)
               family == NormalizeOsFamily(m.id)
           IN  /\ ReadOsRelease(m)
               /\ family # Failed
               /\ ~(ParseMajorVersion(m.version) < 0)
               /\ DetectArchitecture(m.uname) # Failed
               /\ a.family = family
               /\ a.major = ParseMajorVersion(m.version)
               /\ a.arch = m.uname
               /\ a.machineID = ReadMachineID(m)
               /\ "machine-id" \notin m.failing
               /\ a.running = RunningKernelNEVRA(m, family)
               /\ a.packages = CollectInstalledPackages(m, family)
               /\ a.repos = CollectEnabledRepos(m, family)
               /\ a.updates = CollectUpgradablePackages(m, family).count
               /\ a.upgradable = CollectUpgradablePackages(m, family).items
BY DEF CollectSnapshot

\* What the server reads from the script's output.
LEMMA SSHReport ==
    ASSUME NEW m, m.id # NoText, CollectOverSSH(m).made
    PROVE  LET s == CollectOverSSH(m)
               family == DetectOSFamilyFromReleaseOutput(m.id, m.idLike)
               out == Script(m, family)
           IN  /\ family # NoText
               /\ s.family = family
               /\ s.major = IF m.version # <<>> /\ IsNumeral(m.version[1])
                            THEN Number(m.version[1]) ELSE 0
               /\ s.arch = IF m.uname = NoText THEN "unknown" ELSE m.uname
               /\ s.machineID = IF "machine-id" \in m.failing THEN NoText ELSE m.etcID
               /\ s.running = [m.kernel EXCEPT !.epoch = NoText]
               /\ s.packages = ParsePackages(family, out.packages)
               /\ s.repos = ParseRepos(family, out.repos)
               /\ s.updates = CASE family = "apt" -> CountAptPackageUpdates(out.updates)
                                [] family = "rpm" -> CountRpmPackageUpdates(out.updates)
                                [] OTHER          -> 0
               /\ s.upgradable = ParseUpgradablePackages(family, out.updates)
<1> DEFINE family == DetectOSFamilyFromReleaseOutput(m.id, m.idLike)
           out == Script(m, family)
<1>1. family # NoText /\ CollectOverSSH(m) = ParseSSHPullReport(out)
  BY DEF CollectOverSSH
<1>2. /\ out.id = m.id /\ out.idLike = m.idLike /\ out.version = m.version /\ out.arch = m.uname
      /\ out.kernel = [m.kernel EXCEPT !.epoch = NoText]
      /\ out.machineID = IF "machine-id" \in m.failing THEN NoText ELSE m.etcID
  BY DEF Script
<1> HIDE DEF out, family
<1>3. family = DetectOSFamilyFromReleaseOutput(out.id, out.idLike)
  BY <1>2 DEF family
<1> QED BY <1>1, <1>2, <1>3 DEF ParseSSHPullReport, out, family

\* The agent's family is one of two.
LEMMA TwoFamilies ==
    ASSUME NEW id, NormalizeOsFamily(id) # Failed
    PROVE  NormalizeOsFamily(id) \in {"rpm", "apt"} /\ id # NoText
BY DEF NormalizeOsFamily, Failed, NoText

\* The parsers of the installed packages read the same.
LEMMA SamePackages ==
    ASSUME NEW m, NEW family \in {"rpm", "apt"}, "packages" \notin m.failing
    PROVE  CollectInstalledPackages(m, family)
             = ParsePackages(family, Script(m, family).packages)
<1>1. Script(m, family).packages = m.packages
  BY DEF Script
<1>2. ASSUME NEW l PROVE /\ ParsePackageLine(l) = ParseRPMPackageLine(l)
                         /\ ParseAptPackageLine(l) = ParseAPTPackageLine(l)
  BY DEF ParsePackageLine, ParseRPMPackageLine, ParseAptPackageLine, ParseAPTPackageLine
<1>3. CASE family = "rpm"
  BY <1>1, <1>2, <1>3 DEF CollectInstalledPackages, ParsePackages
<1>4. CASE family = "apt"
  BY <1>1, <1>2, <1>4 DEF CollectInstalledPackages, ParsePackages
<1> QED BY <1>3, <1>4

\* What repositories tell differs as the property says.
TextsAlike(repos, family, agent, server) ==
    /\ RepoTexts(server) \subseteq RepoTexts(agent) \cup MadeUp
    /\ RepoTexts(agent) \subseteq RepoTexts(server) \cup Untold(repos, family)

\* A text of a repository is in one of its fields.
LEMMA TextsOf ==
    ASSUME NEW repos, NEW x
    PROVE  x \in RepoTexts(repos) <=> \E r \in repos : x \in r.id \/ x \in r.label \/ x \in r.baseurl
BY DEF RepoTexts

\* On a plain RPM machine dnf lists the sections that say they are enabled.
LEMMA SameRpmRepos ==
    ASSUME NEW m, WellFormed(m), Plain(m, "rpm")
    PROVE  TextsAlike(m.repos, "rpm", CollectEnabledRepos(m, "rpm"), ParseRepos("rpm", Script(m, "rpm").repos))
<1> DEFINE sections == m.repos.sections
           says == {i \in DOMAIN sections : sections[i].enabled \in {"1", "true", "yes"}}
           url(i) == IF sections[i].literal THEN sections[i].baseurl ELSE {}
           heading == [kind |-> "header", id |-> {"repo id"}, name |-> {}]
           entry(i) == [kind |-> "repo", id |-> sections[i].id, name |-> sections[i].shown]
           repos == CollectEnabledRepos(m, "rpm")
           read == ParseRepos("rpm", Script(m, "rpm").repos)
<1>1. /\ "repos" \notin m.failing
      /\ \A i \in DOMAIN sections :
           /\ sections[i].enabled \in {"1", "true", "yes", "0", "false", "no"}
           /\ sections[i].id # {}
           /\ sections[i].shown = sections[i].name
           /\ \A j \in DOMAIN sections : sections[j].id = sections[i].id => i = j
           /\ \A j \in 1..(i - 1) : j \in DOMAIN sections /\ j # i
  <2>1. "repos" \notin m.failing
    BY DEF Plain
  <2>2. \A i \in DOMAIN sections :
           /\ sections[i].enabled \in {"1", "true", "yes", "0", "false", "no"}
           /\ sections[i].id # {}
           /\ sections[i].shown = sections[i].name
           /\ \A j \in DOMAIN sections : sections[j].id = sections[i].id => i = j
    BY DEF WellFormed, Plain, PlainRepos
  <2>3. \A i \in DOMAIN sections : \A j \in 1..(i - 1) : j \in DOMAIN sections /\ j # i
    <3>1. PICK n \in Nat : DOMAIN sections = 1..n
      BY DEF WellFormed
    <3> HIDE DEF sections
    <3> QED BY <3>1
  <2> QED BY <2>1, <2>2, <2>3
<1>2. repos = {Repo(sections[i].id, sections[i].name, url(i)) : i \in says}
  <2> DEFINE enabled(i) == sections[i].enabled \in {"1", "true", "yes"} /\ sections[i].id # {}
             first == {i \in DOMAIN sections :
                          enabled(i) /\ ~\E j \in 1..(i - 1) : enabled(j) /\ sections[j].id = sections[i].id}
  <2>1. repos = {Repo(sections[i].id, sections[i].name, url(i)) : i \in first}
    BY Zenon DEF CollectEnabledRepos, ParseRepoFile
  <2>2. first = says
    <3> HIDE DEF sections
    <3> QED BY <1>1
  <2> QED BY <2>1, <2>2, Zenon
<1>3. EnabledSections(sections) = says
  BY <1>1 DEF EnabledSections
<1>4. Script(m, "rpm").repos = {heading} \cup {entry(i) : i \in says}
  <2>1. Script(m, "rpm").repos = DnfRepolist(sections)
    BY <1>1 DEF Script
  <2> QED BY <1>3, <2>1, Zenon DEF DnfRepolist
<1>5. read = UNION {ParseRPMRepoLine(l) : l \in {heading} \cup {entry(i) : i \in says}}
  BY <1>4 DEF ParseRepos
<1>6. ParseRPMRepoLine(heading) = {}
  BY DEF ParseRPMRepoLine, Header
<1>7. ASSUME NEW i PROVE ParseRPMRepoLine(entry(i)) = {Repo(sections[i].id, sections[i].shown, {})}
  BY DEF ParseRPMRepoLine, Header
<1>8. ASSUME NEW r \in read PROVE \E i \in says : r = Repo(sections[i].id, sections[i].shown, {})
  <2>1. PICK l \in {heading} \cup {entry(i) : i \in says} : r \in ParseRPMRepoLine(l)
    <3> HIDE DEF heading, entry, says, read
    <3> QED BY <1>5, <1>8
  <2>2. l # heading
    <3> HIDE DEF heading
    <3> QED BY <1>6, <2>1
  <2>3. PICK i \in says : l = entry(i)
    <3> HIDE DEF heading, entry, says
    <3> QED BY <2>1, <2>2
  <2> QED BY <1>7, <2>1, <2>3, Zenon
<1>9. ASSUME NEW i \in says PROVE Repo(sections[i].id, sections[i].shown, {}) \in read
  <2> HIDE DEF heading, entry, says, read
  <2> QED BY <1>5, <1>7
<1> HIDE DEF read, repos
<1>10. ASSUME NEW x \in RepoTexts(read) PROVE x \in RepoTexts(repos)
  <2>1. PICK r \in read : x \in r.id \/ x \in r.label \/ x \in r.baseurl
    BY <1>10, TextsOf, Zenon
  <2>2. PICK i \in says : r = Repo(sections[i].id, sections[i].shown, {})
    BY <1>8
  <2>3. x \in sections[i].id \/ x \in sections[i].name
    <3>1. r.id = sections[i].id /\ r.label = sections[i].shown /\ r.baseurl = {}
      BY <2>2 DEF Repo
    <3>2. sections[i].shown = sections[i].name
      BY <1>1, Zenon
    <3> QED BY <2>1, <3>1, <3>2
  <2> DEFINE q == Repo(sections[i].id, sections[i].name, url(i))
  <2>4. q \in repos
    BY <1>2
  <2>5. q.id = sections[i].id /\ q.label = sections[i].name
    BY DEF Repo
  <2> HIDE DEF q
  <2>6. x \in q.id \/ x \in q.label \/ x \in q.baseurl
    BY <2>3, <2>5, Zenon
  <2> QED BY <2>4, <2>6, TextsOf, Zenon
<1>11. ASSUME NEW x \in RepoTexts(repos) PROVE x \in RepoTexts(read) \cup Untold(m.repos, "rpm")
  <2>1. PICK r \in repos : x \in r.id \/ x \in r.label \/ x \in r.baseurl
    BY <1>11, TextsOf, Zenon
  <2>2. PICK i \in says : r = Repo(sections[i].id, sections[i].name, url(i))
    BY <1>2, <2>1
  <2>3. x \in sections[i].id \/ x \in sections[i].shown \/ x \in url(i)
    <3>1. r.id = sections[i].id /\ r.label = sections[i].name /\ r.baseurl = url(i)
      <4> HIDE DEF url, sections
      <4> QED BY <2>2 DEF Repo
    <3>2. sections[i].shown = sections[i].name
      BY <1>1, Zenon
    <3> QED BY <2>1, <3>1, <3>2, Zenon
  <2>4. CASE x \in url(i)
    <3>1. x \in sections[i].baseurl
      BY <2>4
    <3> QED BY <3>1 DEF Untold
  <2>5. CASE x \in sections[i].id \/ x \in sections[i].shown
    <3> DEFINE q == Repo(sections[i].id, sections[i].shown, {})
    <3>1. q \in read
      BY <1>9
    <3>2. q.id = sections[i].id /\ q.label = sections[i].shown
      BY DEF Repo
    <3> HIDE DEF q
    <3>3. x \in q.id \/ x \in q.label \/ x \in q.baseurl
      BY <2>5, <3>2, Zenon
    <3>4. x \in RepoTexts(read)
      BY <3>1, <3>3, TextsOf, Zenon
    <3> QED BY <3>4
  <2> QED BY <2>3, <2>4, <2>5
<1> QED BY <1>10, <1>11, Zenon DEF TextsAlike, read, repos

\* On a plain APT machine the script prints the lines and suites that the agent reads, or leaves them
\* out.
LEMMA SameAptRepos ==
    ASSUME NEW m, WellFormed(m), Plain(m, "apt")
    PROVE  TextsAlike(m.repos, "apt", CollectEnabledRepos(m, "apt"), ParseRepos("apt", Script(m, "apt").repos))
<1> DEFINE lines == m.repos.lines
           blocks == m.repos.blocks
           of(l) == Repo(l.path, l.suite \cup l.components, l.uri)
           from(b, suite, uri) == Repo(b.path, suite \cup b.components, uri)
           told(l) == Repo({"ssh_pull"}, l.suite \cup l.components, l.uri)
           printed == {lines[i] : i \in {j \in DOMAIN lines : GrepPrints(lines[j])}}
           suites == UNION {{SuiteLine(x) : x \in blocks[i].suites} : i \in DOMAIN blocks}
           repos == CollectEnabledRepos(m, "apt")
           read == ParseRepos("apt", Script(m, "apt").repos)
<1>1. Script(m, "apt").repos = printed \cup suites
  BY DEF Script, Plain, AptRepoLines
<1>2. read = UNION {ParseAPTRepoLine(l) : l \in printed \cup suites}
  BY <1>1 DEF ParseRepos
<1>3. /\ \A i \in DOMAIN lines : lines[i].options # "open" /\ lines[i].fields \in Nat
      /\ \A i \in DOMAIN blocks : /\ IsAptSourcesBlockEnabled(blocks[i])
                                   /\ "deb" \in blocks[i].types
                                   /\ blocks[i].uris # {}
  BY DEF Plain, PlainRepos, WellFormed
<1>4. ASSUME NEW l, l.options # "open", l.fields \in Nat, l.type = "deb"
      PROVE  ParseAPTRepoLine(l) = IF l.fields >= 2 THEN {told(l)} ELSE {}
  BY <1>4 DEF ParseAPTRepoLine
<1>5. ASSUME NEW x
      PROVE  /\ ParseAPTRepoLine(SuiteLine(x)) = {told(SuiteLine(x))}
             /\ told(SuiteLine(x)).id = {"ssh_pull"}
             /\ told(SuiteLine(x)).label = x
             /\ told(SuiteLine(x)).baseurl = {"deb822.local"}
  <2> DEFINE l == SuiteLine(x)
  <2>1. /\ l.type = "deb" /\ l.options # "open" /\ l.fields = 2
        /\ l.suite = x /\ l.components = {} /\ l.uri = {"deb822.local"}
    BY DEF SuiteLine
  <2>2. told(l).id = {"ssh_pull"} /\ told(l).label = l.suite \cup l.components /\ told(l).baseurl = l.uri
    BY DEF Repo
  <2>3. ParseAPTRepoLine(l) = {told(l)}
    <3> HIDE DEF l, told
    <3>1. l.fields \in Nat /\ l.fields >= 2
      BY <2>1
    <3> QED BY <1>4, <2>1, <3>1
  <2>4. l.suite \cup l.components = x
    <3> HIDE DEF l
    <3> QED BY <2>1
  <2> QED BY <2>1, <2>2, <2>3, <2>4, Zenon
<1>6. ASSUME NEW l
      PROVE  /\ told(l).id = {"ssh_pull"} /\ told(l).label = l.suite \cup l.components /\ told(l).baseurl = l.uri
             /\ of(l).id = l.path /\ of(l).label = l.suite \cup l.components /\ of(l).baseurl = l.uri
  BY DEF Repo
<1>7. ASSUME NEW b, NEW suite, NEW uri
      PROVE  /\ from(b, suite, uri).id = b.path
             /\ from(b, suite, uri).label = suite \cup b.components
             /\ from(b, suite, uri).baseurl = uri
  BY DEF Repo
<1>8. ASSUME NEW r
      PROVE  r \in repos <=>
               \/ \E i \in DOMAIN lines : /\ lines[i].file \in {"sources.list", "list"}
                                          /\ lines[i].type \in {"deb", "indented deb"}
                                          /\ lines[i].fields >= 2
                                          /\ r = of(lines[i])
               \/ \E i \in DOMAIN blocks : \E uri \in blocks[i].uris, suite \in blocks[i].suites :
                     r = from(blocks[i], suite, uri)
  <2>1. repos = ParseAptListFile(lines) \cup ParseAptSourcesFile(blocks)
    BY DEF CollectEnabledRepos
  <2>2. r \in ParseAptListFile(lines) <=>
          \E i \in DOMAIN lines : /\ lines[i].file \in {"sources.list", "list"}
                                 /\ lines[i].type \in {"deb", "indented deb"}
                                 /\ lines[i].fields >= 2
                                 /\ r = of(lines[i])
    <3> HIDE DEF lines
    <3> QED BY <1>3, Zenon DEF ParseAptListFile
  <2>3. r \in ParseAptSourcesFile(blocks) <=>
          \E i \in DOMAIN blocks : \E uri \in blocks[i].uris, suite \in blocks[i].suites :
             r = from(blocks[i], suite, uri)
    <3> HIDE DEF blocks
    <3> DEFINE all(b) == {from(b, suite, uri) : uri \in b.uris, suite \in b.suites}
               some(b) == IF IsAptSourcesBlockEnabled(b) /\ "deb" \in b.types THEN all(b) ELSE {}
    <3>1. ParseAptSourcesFile(blocks) = UNION {some(blocks[i]) : i \in DOMAIN blocks}
      BY DEF ParseAptSourcesFile
    <3>2. \A b : r \in all(b) <=> \E uri \in b.uris, suite \in b.suites : r = from(b, suite, uri)
      <4> HIDE DEF from
      <4> QED OBVIOUS
    <3> HIDE DEF all, from
    <3>3. \A i \in DOMAIN blocks : some(blocks[i]) = all(blocks[i])
      BY <1>3, Zenon
    <3> HIDE DEF some
    <3>4. r \in UNION {some(blocks[i]) : i \in DOMAIN blocks} <=> \E i \in DOMAIN blocks : r \in all(blocks[i])
      BY <3>3, Zenon
    <3> QED BY <3>1, <3>2, <3>4, Zenon
  <2> HIDE DEF repos
  <2> QED BY <2>1, <2>2, <2>3
<1>9. ASSUME NEW x
      PROVE  x \in Untold(m.repos, "apt") <=>
               \/ \E i \in DOMAIN lines :
                     \/ x \in lines[i].path
                     \/ ~GrepPrints(lines[i]) /\ (x \in lines[i].uri \/ x \in lines[i].suite \/ x \in lines[i].components)
               \/ \E i \in DOMAIN blocks : \/ x \in blocks[i].path \/ x \in blocks[i].components
                                            \/ \E uri \in blocks[i].uris : x \in uri
  <2> DEFINE ofLine(l) == l.path \cup IF GrepPrints(l) THEN {} ELSE l.uri \cup l.suite \cup l.components
             ofBlock(b) == b.path \cup b.components \cup UNION b.uris
  <2>1. Untold(m.repos, "apt") = (UNION {ofLine(lines[i]) : i \in DOMAIN lines})
                                   \cup (UNION {ofBlock(blocks[i]) : i \in DOMAIN blocks})
    BY DEF Untold
  <2>2. \A l : x \in ofLine(l) <=>
          \/ x \in l.path
          \/ ~GrepPrints(l) /\ (x \in l.uri \/ x \in l.suite \/ x \in l.components)
    OBVIOUS
  <2>3. \A b : x \in ofBlock(b) <=>
          x \in b.path \/ x \in b.components \/ \E uri \in b.uris : x \in uri
    OBVIOUS
  <2> HIDE DEF ofLine, ofBlock, lines, blocks
  <2>4. x \in Untold(m.repos, "apt") <=> \/ \E i \in DOMAIN lines : x \in ofLine(lines[i])
                                         \/ \E i \in DOMAIN blocks : x \in ofBlock(blocks[i])
    BY <2>1
  <2> QED BY <2>2, <2>3, <2>4, Zenon
<1> HIDE DEF repos, read, printed, suites, lines, blocks, of, told, from
<1>10. ASSUME NEW x \in RepoTexts(read) PROVE x \in RepoTexts(repos) \cup MadeUp
  <2>1. PICK r \in read : x \in r.id \/ x \in r.label \/ x \in r.baseurl
    BY <1>10, TextsOf, Zenon
  <2>2. PICK l \in printed \cup suites : r \in ParseAPTRepoLine(l)
    BY <1>2, <2>1
  <2>3. CASE l \in printed
    <3>1. PICK i \in DOMAIN lines : l = lines[i] /\ GrepPrints(l)
      BY <2>3 DEF printed
    <3>2. l.type = "deb" /\ l.file = "sources.list" /\ l.options # "open" /\ l.fields \in Nat
      BY <1>3, <3>1 DEF GrepPrints
    <3>3. l.fields >= 2 /\ r = told(l)
      BY <1>4, <2>2, <3>2
    <3>4. of(l) \in repos
      BY <1>8, <3>1, <3>2, <3>3
    <3>5. x = "ssh_pull" \/ x \in of(l).label \/ x \in of(l).baseurl
      BY <1>6, <2>1, <3>3
    <3> QED BY <3>4, <3>5, TextsOf DEF MadeUp
  <2>4. CASE l \in suites
    <3>1. PICK i \in DOMAIN blocks : \E y \in blocks[i].suites : l = SuiteLine(y)
      BY <2>4 DEF suites
    <3>2. PICK y \in blocks[i].suites : l = SuiteLine(y)
      BY <3>1
    <3>3. x = "ssh_pull" \/ x \in y \/ x = "deb822.local"
      <4>1. r = told(SuiteLine(y))
        BY <1>5, <2>2, <3>2
      <4> QED BY <1>5, <2>1, <4>1
    <3>4. PICK uri \in blocks[i].uris : TRUE
      BY <1>3
    <3>5. from(blocks[i], y, uri) \in repos
      BY <1>8, <3>2, <3>4
    <3>6. x \in y => x \in from(blocks[i], y, uri).label
      BY <1>7
    <3> QED BY <3>3, <3>5, <3>6, TextsOf DEF MadeUp
  <2> QED BY <2>2, <2>3, <2>4
<1>11. ASSUME NEW x \in RepoTexts(repos) PROVE x \in RepoTexts(read) \cup Untold(m.repos, "apt")
  <2>1. PICK r \in repos : x \in r.id \/ x \in r.label \/ x \in r.baseurl
    BY <1>11, TextsOf, Zenon
  <2>2. CASE \E i \in DOMAIN lines : /\ lines[i].file \in {"sources.list", "list"}
                                    /\ lines[i].type \in {"deb", "indented deb"}
                                    /\ lines[i].fields >= 2
                                    /\ r = of(lines[i])
    <3>1. PICK i \in DOMAIN lines : lines[i].fields >= 2 /\ r = of(lines[i])
      BY <2>2
    <3>2. x \in lines[i].path \/ x \in lines[i].suite \/ x \in lines[i].components \/ x \in lines[i].uri
      BY <1>6, <2>1, <3>1
    <3>3. CASE ~GrepPrints(lines[i]) \/ x \in lines[i].path
      BY <1>9, <3>2, <3>3
    <3>4. CASE GrepPrints(lines[i]) /\ x \notin lines[i].path
      <4>1. lines[i] \in printed
        BY <3>4 DEF printed
      <4>2. ParseAPTRepoLine(lines[i]) = {told(lines[i])}
        <5>1. lines[i].options # "open" /\ lines[i].fields \in Nat /\ lines[i].type = "deb"
          BY <1>3, <3>4 DEF GrepPrints
        <5> QED BY <1>4, <3>1, <5>1
      <4>3. told(lines[i]) \in read
        BY <1>2, <4>1, <4>2
      <4>4. x \in told(lines[i]).label \/ x \in told(lines[i]).baseurl
        BY <1>6, <3>2, <3>4
      <4> QED BY <4>3, <4>4, TextsOf
    <3> QED BY <3>3, <3>4
  <2>3. CASE \E i \in DOMAIN blocks : \E uri \in blocks[i].uris, suite \in blocks[i].suites :
               r = from(blocks[i], suite, uri)
    <3>1. PICK i \in DOMAIN blocks : \E uri \in blocks[i].uris, suite \in blocks[i].suites :
             r = from(blocks[i], suite, uri)
      BY <2>3
    <3>2. PICK uri \in blocks[i].uris, suite \in blocks[i].suites : r = from(blocks[i], suite, uri)
      BY <3>1
    <3>3. x \in blocks[i].path \/ x \in suite \/ x \in blocks[i].components \/ x \in uri
      BY <1>7, <2>1, <3>2
    <3>4. CASE x \in suite
      <4>1. SuiteLine(suite) \in suites
        BY DEF suites
      <4>2. told(SuiteLine(suite)) \in read
        BY <1>2, <1>5, <4>1
      <4>3. x \in told(SuiteLine(suite)).label
        BY <1>5, <3>4
      <4> QED BY <4>2, <4>3, TextsOf
    <3>5. CASE x \notin suite
      BY <1>9, <3>2, <3>3, <3>5
    <3> QED BY <3>4, <3>5
  <2> QED BY <1>8, <2>1, <2>2, <2>3
<1> QED BY <1>10, <1>11, Zenon DEF TextsAlike, read, repos

\* On a plain machine a line of the updates counts for the one when it does for the other, and is
\* read as the same package.
LEMMA SameRpmUpdate ==
    ASSUME NEW l, PlainLine(l, "rpm"),
           Header(l) \/ (l.fields \in Nat /\ l.nameArch \in Seq(STRING))
    PROVE  /\ AgentRpmUpgradable(l) # {} <=> /\ ~Header(l) /\ l.fields >= 3
                                                  /\ Len(l.nameArch) >= 2 /\ l.digit
           /\ {<<u.name, u.arch>> : u \in AgentRpmUpgradable(l)}
                = {<<u.name, u.arch>> : u \in ParseRpmUpgradableLine(l)}
<1>1. CASE Header(l)
  BY <1>1 DEF AgentRpmUpgradable, ParseRpmUpgradableLine
<1>2. CASE ~Header(l)
  <2>1. /\ l.fields \in Nat /\ l.fields >= 3
        /\ l.nameArch \in Seq(STRING) /\ Len(l.nameArch) = 2
        /\ l.digit
        /\ EpochReads(l.version.epoch)
    BY <1>2 DEF PlainLine
  <2>2. Front(l.nameArch) = <<l.nameArch[1]>> /\ Last(l.nameArch) = l.nameArch[2]
    <3> DEFINE s == l.nameArch
    <3>1. s \in Seq(STRING) /\ Len(s) = 2 /\ Front(s) = SubSeq(s, 1, Len(s) - 1) /\ Last(s) = s[Len(s)]
      BY <2>1 DEF Front, Last
    <3> HIDE DEF s
    <3>2. SubSeq(s, 1, 1) = <<s[1]>>
      <4>1. SubSeq(s, 1, 1) \in Seq(STRING) /\ <<s[1]>> \in Seq(STRING)
        BY <3>1
      <4>2. Len(SubSeq(s, 1, 1)) = 1 /\ Len(<<s[1]>>) = 1
        BY <3>1
      <4>3. \A i \in 1..1 : SubSeq(s, 1, 1)[i] = <<s[1]>>[i]
        BY <3>1
      <4> QED BY <4>1, <4>2, <4>3, SeqEqual
    <3>3. Len(s) - 1 = 1
      BY <3>1
    <3> QED BY <3>1, <3>2, <3>3 DEF s
  <2>3. AgentRpmUpgradable(l)
          = {[name |-> <<l.nameArch[1]>>, arch |-> l.nameArch[2], epoch |-> ParseEpoch(l.version.epoch)]}
    BY <1>2, <2>1, <2>2 DEF AgentRpmUpgradable
  <2>4. ParseRpmUpgradableLine(l)
          = {[name |-> <<l.nameArch[1]>>, arch |-> l.nameArch[2],
              epoch |-> IF IsNumeral(l.version.epoch) THEN Number(l.version.epoch) ELSE 0]}
    BY <1>2, <2>1 DEF ParseRpmUpgradableLine
  <2> QED BY <1>2, <2>1, <2>3, <2>4
<1> QED BY <1>1, <1>2

LEMMA SameAptUpdate ==
    ASSUME NEW l, PlainLine(l, "apt"), Header(l) \/ l.fields \in Nat
    PROVE  /\ AgentAptUpgradable(l) # {} <=> ~Header(l) /\ l.slash /\ l.from
           /\ {<<u.name, u.arch>> : u \in AgentAptUpgradable(l)}
                = {<<u.name, u.arch>> : u \in ParseAptUpgradableLine(l)}
<1>1. CASE Header(l)
  BY <1>1 DEF AgentAptUpgradable, ParseAptUpgradableLine
<1>2. CASE ~Header(l)
  <2>1. /\ l.fields \in Nat /\ l.fields >= 3 /\ l.slash /\ l.from /\ l.name # <<>>
        /\ DebianReads(l.version)
    BY <1>2 DEF PlainLine
  <2>2. AgentAptUpgradable(l) = {[name |-> l.name, arch |-> l.arch,
                                      epoch |-> ParseDebianVersion(l.version).epoch]}
    BY <1>2, <2>1 DEF AgentAptUpgradable
  <2>3. ParseAptUpgradableLine(l) = {[name |-> l.name, arch |-> l.arch, epoch |-> 0]}
    BY <1>2, <2>1 DEF ParseAptUpgradableLine
  <2> QED BY <1>2, <2>1, <2>2, <2>3
<1> QED BY <1>1, <1>2

\* So the updates are counted and named alike.
LEMMA SameUpdates ==
    ASSUME NEW m, NEW family \in {"rpm", "apt"}, WellFormed(m), Plain(m, family),
           family = NormalizeOsFamily(m.id)
    PROVE  LET c == CollectUpgradablePackages(m, family)
               lines == Script(m, family).updates
               items == ParseUpgradablePackages(family, lines)
           IN  /\ c.count = CASE family = "apt" -> CountAptPackageUpdates(lines)
                              [] family = "rpm" -> CountRpmPackageUpdates(lines)
                              [] OTHER          -> 0
               /\ {<<u.name, u.arch>> : u \in c.items} = {<<u.name, u.arch>> : u \in items}
<1> DEFINE lines == m.updates
           agent(l) == IF family = "rpm" THEN AgentRpmUpgradable(l) ELSE AgentAptUpgradable(l)
           server(l) == IF family = "rpm" THEN ParseRpmUpgradableLine(l) ELSE ParseAptUpgradableLine(l)
           counts(l) == IF family = "rpm"
                        THEN ~Header(l) /\ l.fields >= 3 /\ Len(l.nameArch) >= 2 /\ l.digit
                        ELSE ~Header(l) /\ l.slash /\ l.from
           c == CollectUpgradablePackages(m, family)
           count == CASE family = "apt" -> CountAptPackageUpdates(lines)
                      [] family = "rpm" -> CountRpmPackageUpdates(lines)
                      [] OTHER          -> 0
<1>1. Script(m, family).updates = lines
  BY DEF Script, Plain
<1>2. /\ c.count = Cardinality({i \in DOMAIN lines : agent(lines[i]) # {}})
      /\ c.items = UNION {agent(lines[i]) : i \in DOMAIN lines}
  <2>1. m.failing = {}
    BY DEF Plain
  <2>2. "updates" \notin m.failing
    BY <2>1
  <2>3. c = [count |-> Cardinality({i \in DOMAIN lines : agent(lines[i]) # {}}),
             items |-> UNION {agent(lines[i]) : i \in DOMAIN lines}]
    BY <2>2, Zenon DEF CollectUpgradablePackages
  <2> HIDE DEF c, agent, lines
  <2> QED BY <2>3
<1>3. ParseUpgradablePackages(family, lines) = UNION {server(lines[i]) : i \in DOMAIN lines}
  <2>1. CASE family = "rpm"
    BY <2>1 DEF ParseUpgradablePackages
  <2>2. CASE family = "apt"
    BY <2>2 DEF ParseUpgradablePackages
  <2> QED BY <2>1, <2>2
<1>4. count = Cardinality({i \in DOMAIN lines : counts(lines[i])})
  <2>1. CASE family = "rpm"
    <3>1. count = CountRpmPackageUpdates(lines)
      BY <2>1
    <3>2. \A l : counts(l) <=> ~Header(l) /\ l.fields >= 3 /\ Len(l.nameArch) >= 2 /\ l.digit
      BY <2>1, Zenon
    <3> HIDE DEF count, counts
    <3>3. {i \in DOMAIN lines : counts(lines[i])}
            = {i \in DOMAIN lines : /\ ~Header(lines[i]) /\ lines[i].fields >= 3
                                    /\ Len(lines[i].nameArch) >= 2 /\ lines[i].digit}
      BY <3>2, Zenon
    <3> QED BY <3>1, <3>3, Zenon DEF CountRpmPackageUpdates
  <2>2. CASE family = "apt"
    <3>1. count = CountAptPackageUpdates(lines)
      BY <2>2
    <3>2. \A l : counts(l) <=> ~Header(l) /\ l.slash /\ l.from
      <4>1. family # "rpm"
        BY <2>2
      <4> QED BY <4>1, Zenon
    <3> HIDE DEF count, counts
    <3>3. {i \in DOMAIN lines : counts(lines[i])}
            = {i \in DOMAIN lines : ~Header(lines[i]) /\ lines[i].slash /\ lines[i].from}
      BY <3>2, Zenon
    <3> QED BY <3>1, <3>3, Zenon DEF CountAptPackageUpdates
  <2> QED BY <2>1, <2>2
<1>5. ASSUME NEW i \in DOMAIN lines
      PROVE  /\ agent(lines[i]) # {} <=> counts(lines[i])
             /\ {<<u.name, u.arch>> : u \in agent(lines[i])} = {<<u.name, u.arch>> : u \in server(lines[i])}
  <2>1. /\ PlainLine(lines[i], family)
        /\ \/ Header(lines[i])
           \/ lines[i].fields \in Nat /\ (family = "rpm" => lines[i].nameArch \in Seq(STRING))
    BY <1>5 DEF Plain, WellFormed
  <2> DEFINE l == lines[i]
  <2> HIDE DEF l, lines
  <2>2. CASE family = "rpm"
    BY <2>1, <2>2, SameRpmUpdate DEF l
  <2>3. CASE family = "apt"
    BY <2>1, <2>3, SameAptUpdate DEF l
  <2> QED BY <2>2, <2>3
<1> HIDE DEF agent, server, counts, lines
<1>6. {i \in DOMAIN lines : agent(lines[i]) # {}} = {i \in DOMAIN lines : counts(lines[i])}
  BY <1>5
<1>7. c.count = count
  BY <1>2, <1>4, <1>6, Zenon
<1>8. {<<u.name, u.arch>> : u \in UNION {agent(lines[i]) : i \in DOMAIN lines}}
        = {<<u.name, u.arch>> : u \in UNION {server(lines[i]) : i \in DOMAIN lines}}
  BY <1>5
<1> QED BY <1>1, <1>2, <1>3, <1>7, <1>8, Zenon

\* The agent and the SSH script tell the same of every machine, up to the machine id that only D-Bus
\* has, the letters after a major version, and the texts of repositories that the script leaves out or
\* makes up.
THEOREM SameReports == AlgSpec => []ReportsAlike
<1>1. RunsOK => ReportsAlike
  <2> DEFINE m == input.machine
             a == output.result.agent
             s == output.result.ssh
             family == NormalizeOsFamily(m.id)
  <2> SUFFICES ASSUME RunsOK, Ran("report"), a.made, s.made, "packages" \notin m.failing
               PROVE  /\ a.family = s.family /\ a.arch = s.arch
                      /\ s.machineID = a.machineID \/ (m.etcID = NoText /\ s.machineID = NoText)
                      /\ s.major = a.major \/ (~IsNumeral(m.version[1]) /\ s.major = 0)
                      /\ a.packages = s.packages
                      /\ Plain(m, a.family) =>
                           /\ a.running = s.running
                           /\ TextsAlike(m.repos, a.family, a.repos, s.repos)
                           /\ a.updates = s.updates
                           /\ {<<u.name, u.arch>> : u \in a.upgradable} = {<<u.name, u.arch>> : u \in s.upgradable}
    BY Zenon DEF ReportsAlike, TextsAlike
  <2>1. m \in Machines /\ a = CollectSnapshot(m) /\ s = CollectOverSSH(m)
    BY DEF RunsOK, Ran
  <2>2. WellFormed(m)
    BY <2>1, AlgorithmsAssumption
  <2> HIDE DEF m, a, s
  <2>3. /\ ReadOsRelease(m)
        /\ family # Failed
        /\ ~(ParseMajorVersion(m.version) < 0)
        /\ DetectArchitecture(m.uname) # Failed
        /\ a.family = family
        /\ a.major = ParseMajorVersion(m.version)
        /\ a.arch = m.uname
        /\ a.machineID = ReadMachineID(m)
        /\ "machine-id" \notin m.failing
        /\ a.running = RunningKernelNEVRA(m, family)
        /\ a.packages = CollectInstalledPackages(m, family)
        /\ a.repos = CollectEnabledRepos(m, family)
        /\ a.updates = CollectUpgradablePackages(m, family).count
        /\ a.upgradable = CollectUpgradablePackages(m, family).items
    BY <2>1, AgentReport, Zenon
  <2>4. family \in {"rpm", "apt"} /\ m.id # NoText
    BY <2>3, TwoFamilies, Zenon
  <2> DEFINE found == DetectOSFamilyFromReleaseOutput(m.id, m.idLike)
             out == Script(m, found)
  <2>5. /\ found # NoText
        /\ s.family = found
        /\ s.major = IF m.version # <<>> /\ IsNumeral(m.version[1])
                     THEN Number(m.version[1]) ELSE 0
        /\ s.arch = IF m.uname = NoText THEN "unknown" ELSE m.uname
        /\ s.machineID = IF "machine-id" \in m.failing THEN NoText ELSE m.etcID
        /\ s.running = [m.kernel EXCEPT !.epoch = NoText]
        /\ s.packages = ParsePackages(found, out.packages)
        /\ s.repos = ParseRepos(found, out.repos)
        /\ s.updates = CASE found = "apt" -> CountAptPackageUpdates(out.updates)
                         [] found = "rpm" -> CountRpmPackageUpdates(out.updates)
                         [] OTHER          -> 0
        /\ s.upgradable = ParseUpgradablePackages(found, out.updates)
    BY <2>1, <2>4, SSHReport, Zenon
  <2>6. found = family
    BY <2>2, <2>3, <2>5, FamiliesAgree, Zenon
  <2> HIDE DEF found, family, out
  <2>out. out = Script(m, family)
    BY <2>6, Zenon DEF out
  <2>pkg. s.packages = ParsePackages(family, out.packages)
    BY <2>5, <2>6
  <2>rep. s.repos = ParseRepos(family, out.repos)
    BY <2>5, <2>6
  <2>upd. s.updates = CASE family = "apt" -> CountAptPackageUpdates(out.updates)
                        [] family = "rpm" -> CountRpmPackageUpdates(out.updates)
                        [] OTHER          -> 0
    BY <2>5, <2>6
  <2>upg. s.upgradable = ParseUpgradablePackages(family, out.updates)
    BY <2>5, <2>6
  <2>7. s.major = a.major \/ (~IsNumeral(m.version[1]) /\ s.major = 0)
    <3>1. CASE IsNumeral(m.version[1])
      <4>1. m.version[1] \in DOMAIN Leading /\ Leading[m.version[1]] = Number(m.version[1])
        BY <3>1, CollectAssumption, Zenon DEF IsNumeral, Number
      <4>2. a.major = Number(m.version[1])
        BY <2>3, <4>1, Zenon DEF ParseMajorVersion
      <4> QED BY <2>3, <2>5, <3>1, <4>2, Zenon DEF ReadOsRelease
    <3>2. CASE ~IsNumeral(m.version[1])
      BY <2>5, <3>2, Zenon
    <3> QED BY <3>1, <3>2
  <2>id. s.machineID = a.machineID \/ (m.etcID = NoText /\ s.machineID = NoText)
    BY <2>3, <2>5 DEF ReadMachineID
  <2>8. a.arch = s.arch
    <3>1. m.uname # NoText
      BY <2>3 DEF DetectArchitecture, NoText
    <3> QED BY <2>3, <2>5, <3>1
  <2>9. a.packages = s.packages
    BY <2>3, <2>4, <2>out, <2>pkg, SamePackages
  <2>10. ASSUME Plain(m, family)
         PROVE  /\ a.running = s.running
                /\ TextsAlike(m.repos, family, a.repos, s.repos)
                /\ a.updates = s.updates
                /\ {<<u.name, u.arch>> : u \in a.upgradable} = {<<u.name, u.arch>> : u \in s.upgradable}
    <3>1. a.running = s.running
      BY <2>3, <2>5, <2>10 DEF RunningKernelNEVRA, Plain
    <3>2. TextsAlike(m.repos, family, a.repos, s.repos)
      <4>1. CASE family = "rpm"
        BY <2>2, <2>3, <2>10, <2>out, <2>rep, <4>1, SameRpmRepos
      <4>2. CASE family = "apt"
        BY <2>2, <2>3, <2>10, <2>out, <2>rep, <4>2, SameAptRepos
      <4> QED BY <2>4, <4>1, <4>2
    <3>3. /\ a.updates = s.updates
          /\ {<<u.name, u.arch>> : u \in a.upgradable} = {<<u.name, u.arch>> : u \in s.upgradable}
      <4> DEFINE c == CollectUpgradablePackages(m, family)
                 items == ParseUpgradablePackages(family, out.updates)
      <4>1. /\ c.count = CASE family = "apt" -> CountAptPackageUpdates(out.updates)
                           [] family = "rpm" -> CountRpmPackageUpdates(out.updates)
                           [] OTHER          -> 0
            /\ {<<u.name, u.arch>> : u \in c.items} = {<<u.name, u.arch>> : u \in items}
        <5>1. family = NormalizeOsFamily(m.id)
          BY DEF family
        <5> QED BY <2>2, <2>4, <2>10, <2>out, <5>1, SameUpdates, Zenon
      <4>2. a.updates = s.updates
        BY <2>3, <2>upd, <4>1
      <4>3. a.upgradable = c.items /\ s.upgradable = items
        BY <2>3, <2>upg
      <4> HIDE DEF c, items
      <4> QED BY <4>1, <4>2, <4>3, Zenon
    <3> QED BY <3>1, <3>2, <3>3
  <2> QED BY <2>3, <2>5, <2>6, <2>7, <2>id, <2>8, <2>9, <2>10, Zenon
<1> QED BY <1>1, RunsKept, PTL

-----------------------------------------------------------------------------
(* The comparisons of versions.  Each is a loop that takes a segment off both    *)
(* texts; the order of the segments is shown to be total and transitive, and     *)
(* then that of the texts, by the shortest counterexample.                       *)

\* A function that gives base where it stops and else goes on with rest.
IsLoop(f, D, Stop, base, rest) == f = [p \in D |-> IF p \in Stop THEN base[p] ELSE f[rest[p]]]

\* A loop is a function: its value is that of the place where it stops.
LEMMA LoopExists ==
    ASSUME NEW D, NEW Stop, NEW base, NEW rest \in [D -> D]
    PROVE  \E f : IsLoop(f, D, Stop, base, rest)
<1> DEFINE Closed(S) == \A q \in S \ Stop : rest[q] \in S
           Reach(p) == {q \in D : \A S \in SUBSET D : p \in S /\ Closed(S) => q \in S}
           End(p) == CHOOSE q : q \in Reach(p) \cap Stop
           f == [p \in D |-> base[End(p)]]
<1>1. ASSUME NEW p \in D PROVE p \in Reach(p) /\ Closed(Reach(p)) /\ Reach(p) \in SUBSET D
  OBVIOUS
<1>2. ASSUME NEW p \in D \cap Stop PROVE Reach(p) \cap Stop = {p}
  <2>1. {p} \in SUBSET D /\ p \in {p} /\ Closed({p})
    OBVIOUS
  <2>2. Reach(p) \subseteq {p}
    BY <2>1
  <2> HIDE DEF Reach
  <2> QED BY <1>1, <2>2
<1>3. ASSUME NEW p \in D \ Stop PROVE Reach(p) \cap Stop = Reach(rest[p]) \cap Stop
  <2>1. rest[p] \in D
    OBVIOUS
  <2>2. rest[p] \in Reach(p)
    <3> HIDE DEF Reach
    <3> QED BY <1>1
  <2>3. Reach(rest[p]) \subseteq Reach(p)
    <3>1. Reach(p) \in SUBSET D /\ Closed(Reach(p))
      BY <1>1
    <3> DEFINE R == Reach(p)
    <3> HIDE DEF R
    <3> SUFFICES ASSUME NEW q \in Reach(rest[p]) PROVE q \in R
      BY DEF R
    <3> QED BY <2>2, <3>1 DEF R
  <2> DEFINE T == {p} \cup Reach(rest[p])
  <2>4. T \in SUBSET D /\ p \in T /\ Closed(T)
    <3> HIDE DEF Reach
    <3> QED BY <1>1, <2>1
  <2>5. Reach(p) \subseteq T
    <3> HIDE DEF T
    <3> QED BY <2>4
  <2> HIDE DEF Reach
  <2> QED BY <2>3, <2>5
<1> HIDE DEF Reach
<1>4. ASSUME NEW p \in D \cap Stop PROVE f[p] = base[p]
  <2>1. End(p) = p
    BY <1>2
  <2> HIDE DEF End
  <2> QED BY <2>1
<1>5. ASSUME NEW p \in D \ Stop PROVE f[p] = f[rest[p]]
  <2>1. End(p) = End(rest[p])
    BY <1>3, Zenon
  <2> HIDE DEF End
  <2> QED BY <2>1
<1>6. f = [p \in D |-> IF p \in Stop THEN base[p] ELSE f[rest[p]]]
  <2> SUFFICES ASSUME NEW p \in D PROVE f[p] = IF p \in Stop THEN base[p] ELSE f[rest[p]]
    BY Zenon
  <2> HIDE DEF f
  <2> QED BY <1>4, <1>5
<1>7. IsLoop(f, D, Stop, base, rest)
  <2> HIDE DEF f
  <2> QED BY <1>6, Zenon DEF IsLoop
<1> HIDE DEF f
<1> QED BY <1>7, Zenon

\* Where the first character of a set of positions ends a prefix.
LEMMA PrefixEnd ==
    ASSUME NEW s \in Seq(Int), NEW I, I \subseteq 1..Len(s),
           NEW stop, stop = IF I # {} THEN Min(I) ELSE 0,
           NEW n, n = IF stop = 0 THEN Len(s) ELSE stop - 1
    PROVE  /\ n \in 0..Len(s)
           /\ n < Len(s) => n + 1 \in I
           /\ 1 \notin I /\ s # <<>> => n >= 1
<1>1. Len(s) \in Nat /\ (s # <<>> => Len(s) >= 1)
  OBVIOUS
<1>2. CASE I = {}
  BY <1>1, <1>2
<1>3. CASE I # {}
  <2>1. stop \in I
    <3>1. I \subseteq Nat
      BY <1>1
    <3>2. Min(I) \in I
      BY <1>3, <3>1, SmallestIn
    <3> QED BY <1>3, <3>2
  <2> QED BY <1>1, <1>3, <2>1
<1> QED BY <1>2, <1>3

\* The tail of a text.
LEMMA TailOf ==
    ASSUME NEW s \in Seq(Int), NEW n \in 0..Len(s)
    PROVE  /\ SubSeq(s, n + 1, Len(s)) \in Seq(Int)
           /\ Len(SubSeq(s, n + 1, Len(s))) = Len(s) - n
           /\ n < Len(s) => SubSeq(s, n + 1, Len(s))[1] = s[n + 1]
           /\ SubSeq(s, 1, n) \in Seq(Int)
<1>1. Len(s) \in Nat /\ \A i \in 1..Len(s) : s[i] \in Int
  OBVIOUS
<1> QED BY <1>1, SubSeqProperties

\* What is left after the separators is a text that starts with a letter or a digit, or nothing.
LEMMA TrimNonAlnumOf ==
    ASSUME NEW s \in Seq(Int)
    PROVE  /\ TrimNonAlnum(s) \in Seq(Int)
           /\ Len(TrimNonAlnum(s)) <= Len(s)
           /\ TrimNonAlnum(s) # <<>> => IsAlnum(TrimNonAlnum(s)[1])
<1> DEFINE I == {i \in 1..Len(s) : ~~IsAlnum(s[i])}
           stop == IF I # {} THEN Min(I) ELSE 0
           n == IF stop = 0 THEN Len(s) ELSE stop - 1
<1>1. TrimNonAlnum(s) = SubSeq(s, 1 + n, Len(s))
  BY Zenon DEF TrimNonAlnum, PrefixLen, SelectInSeq, From
<1>2. n \in 0..Len(s) /\ (n < Len(s) => n + 1 \in I)
  <2>1. I \subseteq 1..Len(s)
    OBVIOUS
  <2> HIDE DEF I
  <2> QED BY <2>1, PrefixEnd
<1>3. n < Len(s) => IsAlnum(s[n + 1])
  <2> HIDE DEF n
  <2> QED BY <1>2
<1> HIDE DEF n
<1>4. Len(s) \in Nat /\ 1 + n = n + 1
  BY <1>2
<1>5. TrimNonAlnum(s) = SubSeq(s, n + 1, Len(s))
  BY <1>1, <1>4
<1>6. n = Len(s) => SubSeq(s, n + 1, Len(s)) = <<>>
  BY <1>4, SubSeqEmpty
<1> QED BY <1>2, <1>3, <1>4, <1>5, <1>6, TailOf

\* A number without its leading zeros is a text.
LEMMA TrimZerosOf ==
    ASSUME NEW s \in Seq(Int)
    PROVE  TrimZeros(s) \in Seq(Int)
<1> DEFINE I == {i \in 1..Len(s) : ~(s[i] = 48)}
           stop == IF I # {} THEN Min(I) ELSE 0
           n == IF stop = 0 THEN Len(s) ELSE stop - 1
<1>1. TrimZeros(s) = SubSeq(s, 1 + n, Len(s))
  BY Zenon DEF TrimZeros, PrefixLen, SelectInSeq, From
<1>2. n \in 0..Len(s)
  <2>1. I \subseteq 1..Len(s)
    OBVIOUS
  <2> HIDE DEF I
  <2> QED BY <2>1, PrefixEnd
<1> HIDE DEF n
<1>3. 1 + n = n + 1
  BY <1>2
<1> QED BY <1>1, <1>2, <1>3, TailOf

\* The segment that a text starts with takes at least one character.
LEMMA SegmentOf ==
    ASSUME NEW s \in Seq(Int), s # <<>>, IsAlnum(s[1])
    PROVE  LET a == NextSegment(s)
           IN  /\ a.text \in Seq(Int) /\ a.rest \in Seq(Int)
               /\ Len(a.rest) < Len(s)
               /\ a.numeric \in BOOLEAN
<1> DEFINE numeric == IsDigit(s[1])
           I == {i \in 1..Len(s) : ~(IsAlnum(s[i]) /\ IsDigit(s[i]) = numeric)}
           stop == IF I # {} THEN Min(I) ELSE 0
           n == IF stop = 0 THEN Len(s) ELSE stop - 1
<1>1. NextSegment(s) = [text |-> SubSeq(s, 1, n), numeric |-> numeric, rest |-> SubSeq(s, n + 1, Len(s))]
  BY Zenon DEF NextSegment, PrefixLen, SelectInSeq, From, Upto
<1>2. n \in 0..Len(s) /\ n >= 1
  <2>1. I \subseteq 1..Len(s)
    OBVIOUS
  <2>2. 1 \notin I
    OBVIOUS
  <2> HIDE DEF I
  <2> QED BY <2>1, <2>2, PrefixEnd
<1>3. numeric \in BOOLEAN
  <2>1. numeric <=> s[1] \in 48..57
    BY DEF IsDigit
  <2> QED BY <2>1 DEF IsDigit
<1> HIDE DEF n, numeric
<1>4. Len(s) \in Nat
  OBVIOUS
<1> QED BY <1>1, <1>2, <1>3, <1>4, TailOf

\* The loop of compareRPMVersion: where it ends, what it gives there, and what it goes on with.
Pairs == Seq(Int) \X Seq(Int)
SegmentOrder(a, b) ==
    IF a.numeric # b.numeric THEN IF a.numeric THEN 1 ELSE -1
    ELSE CompareSegment(a.text, b.text, a.numeric)
RpmLoop(h) ==
    h = [t \in Pairs |->
            LET l == TrimNonAlnum(t[1])
                r == TrimNonAlnum(t[2])
                a == NextSegment(l)
                b == NextSegment(r)
                compared == CompareSegment(a.text, b.text, a.numeric)
            IN  IF l = <<>> \/ r = <<>> THEN Sign(Len(l), Len(r))
                ELSE IF a.numeric # b.numeric THEN IF a.numeric THEN 1 ELSE -1
                ELSE IF compared # 0 THEN compared
                ELSE h[<<a.rest, b.rest>>]]

\* The loop ends, so that it has a value.
LEMMA RpmLoopExists == \E h : RpmLoop(h)
<1> DEFINE L(t) == TrimNonAlnum(t[1])
           R(t) == TrimNonAlnum(t[2])
           A(t) == NextSegment(L(t))
           B(t) == NextSegment(R(t))
           C(t) == CompareSegment(A(t).text, B(t).text, A(t).numeric)
           Over(t) == L(t) = <<>> \/ R(t) = <<>> \/ A(t).numeric # B(t).numeric \/ C(t) # 0
           Out(t) == IF L(t) = <<>> \/ R(t) = <<>> THEN Sign(Len(L(t)), Len(R(t)))
                     ELSE IF A(t).numeric # B(t).numeric THEN IF A(t).numeric THEN 1 ELSE -1
                     ELSE C(t)
           Rests(t) == <<A(t).rest, B(t).rest>>
           Stop == {t \in Pairs : Over(t)}
           base == [t \in Pairs |-> Out(t)]
           rest == [t \in Pairs |-> IF Over(t) THEN t ELSE Rests(t)]
<1>1. ASSUME NEW t \in Pairs, ~Over(t) PROVE Rests(t) \in Pairs
  <2>1. t[1] \in Seq(Int) /\ t[2] \in Seq(Int)
    BY DEF Pairs
  <2>2. /\ L(t) \in Seq(Int) /\ L(t) # <<>> /\ IsAlnum(L(t)[1])
        /\ R(t) \in Seq(Int) /\ R(t) # <<>> /\ IsAlnum(R(t)[1])
    BY <1>1, <2>1, TrimNonAlnumOf
  <2> HIDE DEF L, R
  <2>3. A(t).rest \in Seq(Int) /\ B(t).rest \in Seq(Int)
    BY <2>2, SegmentOf
  <2> HIDE DEF A, B
  <2> QED BY <2>3 DEF Pairs
<1>2. rest \in [Pairs -> Pairs]
  <2> HIDE DEF Over, Rests, Pairs
  <2> QED BY <1>1
<1>3. PICK f : f = [t \in Pairs |-> IF t \in Stop THEN base[t] ELSE f[rest[t]]]
  <2> HIDE DEF Stop, base, rest, Pairs
  <2>1. \E f : IsLoop(f, Pairs, Stop, base, rest)
    BY <1>2, LoopExists, Zenon
  <2> QED BY <2>1, Zenon DEF IsLoop
<1>4. ASSUME NEW t \in Pairs
      PROVE  f[t] = IF Over(t) THEN Out(t) ELSE f[Rests(t)]
  <2>1. /\ t \in Stop <=> Over(t)
        /\ base[t] = Out(t)
        /\ ~Over(t) => rest[t] = Rests(t)
    <3> HIDE DEF Over, Out, Rests, Pairs
    <3> QED BY <1>4
  <2>2. f[t] = IF t \in Stop THEN base[t] ELSE f[rest[t]]
    <3> HIDE DEF Stop, base, rest, Pairs
    <3> QED BY <1>3, <1>4
  <2> HIDE DEF Stop, base, rest, Over, Out, Rests, Pairs
  <2> QED BY <2>1, <2>2, Zenon
<1> DEFINE body(t) == IF L(t) = <<>> \/ R(t) = <<>> THEN Sign(Len(L(t)), Len(R(t)))
                      ELSE IF A(t).numeric # B(t).numeric THEN IF A(t).numeric THEN 1 ELSE -1
                      ELSE IF C(t) # 0 THEN C(t)
                      ELSE f[Rests(t)]
<1>5. \A t \in Pairs : f[t] = body(t)
  <2> HIDE DEF L, R, A, B, C, Rests, Pairs
  <2> QED BY <1>4, Zenon
<1>6. f = [t \in Pairs |-> f[t]]
  <2> HIDE DEF Stop, base, rest, Pairs
  <2> QED BY <1>3
<1>7. f = [t \in Pairs |-> body(t)]
  <2> HIDE DEF body, Pairs, Stop, base, rest
  <2> QED BY <1>5, <1>6, Zenon
<1>8. RpmLoop(f)
  <2> HIDE DEF Stop, base, rest, Pairs
  <2> QED BY <1>7, Zenon DEF RpmLoop
<1> HIDE DEF Stop, base, rest, Pairs, body
<1> QED BY <1>8, Zenon

\* One turn of the loop.
LEMMA RpmStep ==
    ASSUME NEW p \in Seq(Int), NEW q \in Seq(Int)
    PROVE  LET l == TrimNonAlnum(p)
               r == TrimNonAlnum(q)
               a == NextSegment(l)
               b == NextSegment(r)
           IN  CompareRPMVersion(p, q) =
                 IF l = <<>> \/ r = <<>> THEN Sign(Len(l), Len(r))
                 ELSE IF SegmentOrder(a, b) # 0 THEN SegmentOrder(a, b)
                 ELSE CompareRPMVersion(a.rest, b.rest)
<1> DEFINE h == CHOOSE h : RpmLoop(h)
           l == TrimNonAlnum(p)
           r == TrimNonAlnum(q)
           a == NextSegment(l)
           b == NextSegment(r)
           compared == CompareSegment(a.text, b.text, a.numeric)
<1>1. ASSUME NEW x, NEW y PROVE CompareRPMVersion(x, y) = h[<<x, y>>]
  BY Zenon DEF CompareRPMVersion, RpmLoop, Pairs
<1>2. RpmLoop(h)
  BY RpmLoopExists, Zenon
<1> HIDE DEF h
<1>3. <<p, q>> \in Pairs /\ <<p, q>>[1] = p /\ <<p, q>>[2] = q
  BY DEF Pairs
<1>4. h[<<p, q>>] = IF l = <<>> \/ r = <<>> THEN Sign(Len(l), Len(r))
                    ELSE IF a.numeric # b.numeric THEN IF a.numeric THEN 1 ELSE -1
                    ELSE IF compared # 0 THEN compared
                    ELSE h[<<a.rest, b.rest>>]
  <2> DEFINE t == <<p, q>>
             body(u) == LET k == TrimNonAlnum(u[1])
                            m == TrimNonAlnum(u[2])
                            c == NextSegment(k)
                            d == NextSegment(m)
                            e == CompareSegment(c.text, d.text, c.numeric)
                        IN  IF k = <<>> \/ m = <<>> THEN Sign(Len(k), Len(m))
                            ELSE IF c.numeric # d.numeric THEN IF c.numeric THEN 1 ELSE -1
                            ELSE IF e # 0 THEN e
                            ELSE h[<<c.rest, d.rest>>]
  <2>1. h = [u \in Pairs |-> body(u)]
    BY <1>2, Zenon DEF RpmLoop
  <2>2. h[t] = body(t)
    <3> HIDE DEF body, t
    <3> QED BY <1>3, <2>1 DEF t
  <2> QED BY <1>3, <2>2, Zenon
<1>5. h[<<a.rest, b.rest>>] = CompareRPMVersion(a.rest, b.rest)
  BY <1>1, Zenon
<1> HIDE DEF l, r, a, b
<1>6. CompareRPMVersion(p, q) =
                 IF l = <<>> \/ r = <<>> THEN Sign(Len(l), Len(r))
                 ELSE IF SegmentOrder(a, b) # 0 THEN SegmentOrder(a, b)
                 ELSE CompareRPMVersion(a.rest, b.rest)
  <2>1. CompareRPMVersion(p, q) = h[<<p, q>>]
    BY <1>1, Zenon
  <2>2. CASE l = <<>> \/ r = <<>>
    BY <1>4, <2>1, <2>2, Zenon
  <2>3. CASE ~(l = <<>> \/ r = <<>>) /\ a.numeric # b.numeric
    <3>1. SegmentOrder(a, b) = IF a.numeric THEN 1 ELSE -1
      BY <2>3, Zenon DEF SegmentOrder
    <3>2. SegmentOrder(a, b) # 0
      BY <3>1
    <3> QED BY <1>4, <2>1, <2>3, <3>1, <3>2, Zenon
  <2>4. CASE ~(l = <<>> \/ r = <<>>) /\ a.numeric = b.numeric
    <3>1. SegmentOrder(a, b) = compared
      BY <2>4, Zenon DEF SegmentOrder
    <3> QED BY <1>4, <1>5, <2>1, <2>4, <3>1, Zenon
  <2> QED BY <2>2, <2>3, <2>4, Zenon
<1> QED BY <1>6, Zenon DEF l, r, a, b

\* The sign of a difference.
LEMMA SignLaws ==
    ASSUME NEW a \in Int, NEW b \in Int
    PROVE  /\ Sign(a, b) \in {-1, 0, 1}
           /\ Sign(b, a) = 0 - Sign(a, b)
           /\ Sign(a, b) <= 0 <=> a <= b
           /\ Sign(a, b) < 0 <=> a < b
           /\ Sign(a, b) = 0 <=> a = b
BY DEF Sign

\* Two texts differ first in a character of both, or one is the start of the other.
Starts(l, r) == \A i \in 1..Len(l) : i <= Len(r) => l[i] = r[i]
DifferAt(l, r, k) ==
    /\ k \in 1..Len(l) /\ k \in 1..Len(r)
    /\ l[k] # r[k]
    /\ \A j \in 1..(k - 1) : l[j] = r[j]

LEMMA BytesCases ==
    ASSUME NEW l \in Seq(Int), NEW r \in Seq(Int)
    PROVE  \/ Starts(l, r) /\ CompareBytes(l, r) = Sign(Len(l), Len(r))
           \/ \E k \in Nat : DifferAt(l, r, k) /\ CompareBytes(l, r) = Sign(l[k], r[k])
<1> DEFINE n == Min({Len(l), Len(r)})
           differ == {i \in 1..n : l[i] # r[i]}
<1>1. CompareBytes(l, r) = IF differ = {} THEN Sign(Len(l), Len(r))
                               ELSE Sign(l[Min(differ)], r[Min(differ)])
  BY Zenon DEF CompareBytes
<1>2. Len(l) \in Nat /\ Len(r) \in Nat
  OBVIOUS
<1>3. n \in Nat /\ n <= Len(l) /\ n <= Len(r) /\ (n = Len(l) \/ n = Len(r))
  <2> DEFINE S == {Len(l), Len(r)}
  <2>1. S \subseteq Nat /\ S # {}
    BY <1>2
  <2>2. Min(S) \in S /\ \A y \in S : Min(S) <= y
    <3> HIDE DEF S
    <3> QED BY <2>1, SmallestIn
  <2> QED BY <1>2, <2>2
<1> HIDE DEF n
<1>4. CASE differ = {}
  <2>1. CompareBytes(l, r) = Sign(Len(l), Len(r))
    BY <1>1, <1>4, Zenon
  <2>2. Starts(l, r)
    <3> SUFFICES ASSUME NEW i \in 1..Len(l), i <= Len(r), l[i] # r[i] PROVE FALSE
      BY DEF Starts
    <3>1. i \in 1..n
      BY <1>2, <1>3
    <3>2. i \in differ
      BY <3>1
    <3> QED BY <1>4, <3>2, Zenon
  <2> QED BY <2>1, <2>2
<1>5. CASE differ # {}
  <2> DEFINE k == Min(differ)
  <2>1. differ \subseteq Nat
    BY <1>3
  <2>2. k \in differ /\ \A y \in differ : k <= y
    <3> HIDE DEF differ
    <3> QED BY <1>5, <2>1, SmallestIn
  <2>3. CompareBytes(l, r) = Sign(l[k], r[k])
    BY <1>1, <1>5, Zenon
  <2> HIDE DEF k
  <2>4. DifferAt(l, r, k) /\ k \in Nat
    BY <1>2, <1>3, <2>2 DEF DifferAt
  <2> QED BY <2>3, <2>4
<1> QED BY <1>4, <1>5

\* Go's order of strings turns around with its arguments.
LEMMA BytesOpposite ==
    ASSUME NEW l \in Seq(Int), NEW r \in Seq(Int)
    PROVE  /\ CompareBytes(l, r) \in {-1, 0, 1}
           /\ CompareBytes(r, l) = 0 - CompareBytes(l, r)
<1>0. Len(l) \in Nat /\ Len(r) \in Nat
  OBVIOUS
<1>1. CASE Starts(l, r) /\ CompareBytes(l, r) = Sign(Len(l), Len(r))
  <2>1. ~\E k \in Nat : DifferAt(r, l, k)
    BY <1>1 DEF Starts, DifferAt
  <2>2. CompareBytes(r, l) = Sign(Len(r), Len(l))
    BY <2>1, BytesCases
  <2> QED BY <1>0, <1>1, <2>2, SignLaws
<1>2. ASSUME NEW k \in Nat, DifferAt(l, r, k), CompareBytes(l, r) = Sign(l[k], r[k])
      PROVE  /\ CompareBytes(l, r) \in {-1, 0, 1}
             /\ CompareBytes(r, l) = 0 - CompareBytes(l, r)
  <2>1. ~Starts(r, l)
    BY <1>2 DEF Starts, DifferAt
  <2>2. PICK i \in Nat : DifferAt(r, l, i) /\ CompareBytes(r, l) = Sign(r[i], l[i])
    BY <2>1, BytesCases
  <2>3. i = k
    BY <1>2, <2>2 DEF DifferAt
  <2>4. l[k] \in Int /\ r[k] \in Int
    BY <1>2 DEF DifferAt
  <2> QED BY <1>2, <2>2, <2>3, <2>4, SignLaws
<1> QED BY <1>1, <1>2, BytesCases

\* Two texts agree up to a place where the first one ends or is smaller.
Cut(l, r, k) ==
    /\ k \in 1..(Len(l) + 1) /\ k - 1 <= Len(r)
    /\ \A j \in 1..(k - 1) : l[j] = r[j]
    /\ k <= Len(l) => k <= Len(r) /\ l[k] < r[k]

\* That is what CompareBytes decides.
LEMMA BytesBelow ==
    ASSUME NEW l \in Seq(Int), NEW r \in Seq(Int)
    PROVE  CompareBytes(l, r) <= 0 <=> \E k \in Nat : Cut(l, r, k)
<1>0. /\ Len(l) \in Nat /\ Len(r) \in Nat
      /\ \A i \in 1..Len(l) : l[i] \in Int
      /\ \A i \in 1..Len(r) : r[i] \in Int
  OBVIOUS
<1>1. CASE Starts(l, r) /\ CompareBytes(l, r) = Sign(Len(l), Len(r))
  <2>1. CompareBytes(l, r) <= 0 <=> Len(l) <= Len(r)
    BY <1>0, <1>1, SignLaws
  <2>2. ASSUME Len(l) <= Len(r) PROVE Cut(l, r, Len(l) + 1) /\ Len(l) + 1 \in Nat
    BY <1>0, <1>1, <2>2 DEF Cut, Starts
  <2>3. ASSUME NEW k \in Nat, Cut(l, r, k) PROVE Len(l) <= Len(r)
    <3>1. CASE k <= Len(l)
      <4>1. k \in 1..Len(l) /\ k <= Len(r) /\ l[k] < r[k] /\ k \in 1..Len(r)
        BY <1>0, <2>3, <3>1 DEF Cut
      <4>2. l[k] = r[k]
        BY <1>1, <4>1 DEF Starts
      <4>3. l[k] \in Int
        BY <1>0, <4>1
      <4> QED BY <4>1, <4>2, <4>3
    <3>2. CASE ~(k <= Len(l))
      BY <1>0, <2>3, <3>2 DEF Cut
    <3> QED BY <3>1, <3>2
  <2> QED BY <2>1, <2>2, <2>3
<1>2. ASSUME NEW d \in Nat, DifferAt(l, r, d), CompareBytes(l, r) = Sign(l[d], r[d])
      PROVE  CompareBytes(l, r) <= 0 <=> \E k \in Nat : Cut(l, r, k)
  <2>1. d \in 1..Len(l) /\ d \in 1..Len(r) /\ l[d] # r[d] /\ \A j \in 1..(d - 1) : l[j] = r[j]
    BY <1>2 DEF DifferAt
  <2>2. l[d] \in Int /\ r[d] \in Int
    BY <1>0, <2>1
  <2>3. CompareBytes(l, r) <= 0 <=> l[d] < r[d]
    BY <1>2, <2>1, <2>2, SignLaws
  <2>4. ASSUME l[d] < r[d] PROVE Cut(l, r, d)
    BY <1>0, <2>1, <2>4 DEF Cut
  <2>5. ASSUME NEW k \in Nat, Cut(l, r, k) PROVE l[d] < r[d]
    <3>1. /\ k \in 1..(Len(l) + 1)
          /\ \A j \in 1..(k - 1) : l[j] = r[j]
          /\ k <= Len(l) => k <= Len(r) /\ l[k] < r[k]
      BY <2>5 DEF Cut
    <3>2. CASE d < k
      <4>1. d \in 1..(k - 1)
        BY <1>0, <2>1, <3>1, <3>2
      <4> QED BY <2>1, <3>1, <4>1
    <3>3. CASE k < d
      <4>1. k \in 1..(d - 1) /\ k \in 1..Len(l) /\ k <= Len(l)
        BY <1>0, <2>1, <3>1, <3>3
      <4>2. l[k] = r[k] /\ l[k] < r[k] /\ l[k] \in Int
        BY <1>0, <2>1, <3>1, <4>1
      <4> QED BY <4>2
    <3>4. CASE k = d
      BY <1>0, <2>1, <3>1, <3>4
    <3> QED BY <3>2, <3>3, <3>4
  <2> QED BY <2>3, <2>4, <2>5
<1> QED BY <1>1, <1>2, BytesCases

\* And it is transitive.
LEMMA BytesTransitive ==
    ASSUME NEW l \in Seq(Int), NEW m \in Seq(Int), NEW r \in Seq(Int),
           CompareBytes(l, m) <= 0, CompareBytes(m, r) <= 0
    PROVE  CompareBytes(l, r) <= 0
<1>0. /\ Len(l) \in Nat /\ Len(m) \in Nat /\ Len(r) \in Nat
      /\ \A i \in 1..Len(l) : l[i] \in Int
      /\ \A i \in 1..Len(m) : m[i] \in Int
      /\ \A i \in 1..Len(r) : r[i] \in Int
  OBVIOUS
<1>1. PICK k \in Nat : Cut(l, m, k)
  BY BytesBelow
<1>2. PICK i \in Nat : Cut(m, r, i)
  BY BytesBelow
<1>3. /\ k \in 1..(Len(l) + 1) /\ k - 1 <= Len(m)
      /\ \A j \in 1..(k - 1) : l[j] = m[j]
      /\ k <= Len(l) => k <= Len(m) /\ l[k] < m[k]
  BY <1>1 DEF Cut
<1>4. /\ i \in 1..(Len(m) + 1) /\ i - 1 <= Len(r)
      /\ \A j \in 1..(i - 1) : m[j] = r[j]
      /\ i <= Len(m) => i <= Len(r) /\ m[i] < r[i]
  BY <1>2 DEF Cut
<1>5. CASE k <= i
  <2>1. k \in 1..(Len(l) + 1) /\ k - 1 <= Len(r)
    BY <1>0, <1>3, <1>4, <1>5
  <2>2. ASSUME NEW j \in 1..(k - 1) PROVE l[j] = r[j]
    <3>1. j \in 1..(i - 1)
      BY <1>3, <1>4, <1>5
    <3> QED BY <1>3, <1>4, <3>1
  <2>3. ASSUME k <= Len(l) PROVE k <= Len(r) /\ l[k] < r[k]
    <3>1. k <= Len(m) /\ l[k] < m[k] /\ k \in 1..Len(l) /\ k \in 1..Len(m)
      BY <1>0, <1>3, <2>3
    <3>2. CASE k = i
      <4>1. k <= Len(r) /\ m[k] < r[k] /\ k \in 1..Len(r)
        BY <1>0, <1>4, <3>1, <3>2
      <4>2. l[k] \in Int /\ m[k] \in Int /\ r[k] \in Int
        BY <1>0, <3>1, <4>1
      <4> QED BY <3>1, <4>1, <4>2
    <3>3. CASE k < i
      <4>1. k \in 1..(i - 1) /\ k <= Len(r)
        BY <1>0, <1>3, <1>4, <3>3
      <4>2. m[k] = r[k]
        BY <1>4, <4>1
      <4> QED BY <3>1, <4>1, <4>2
    <3> QED BY <1>5, <3>2, <3>3
  <2>4. Cut(l, r, k)
    BY <2>1, <2>2, <2>3 DEF Cut
  <2> QED BY <2>4, BytesBelow
<1>6. CASE i < k
  <2>1. i \in 1..(k - 1) /\ i \in 1..(Len(l) + 1) /\ i - 1 <= Len(r) /\ i <= Len(m)
    BY <1>0, <1>3, <1>4, <1>6
  <2>2. l[i] = m[i] /\ i <= Len(r) /\ m[i] < r[i]
    BY <1>3, <1>4, <2>1
  <2>3. ASSUME NEW j \in 1..(i - 1) PROVE l[j] = r[j]
    <3>1. j \in 1..(k - 1)
      BY <1>3, <1>4, <1>6
    <3> QED BY <1>3, <1>4, <3>1
  <2>4. Cut(l, r, i)
    BY <2>1, <2>2, <2>3 DEF Cut
  <2> QED BY <2>4, BytesBelow
<1> QED BY <1>5, <1>6

\* Numbers without their leading zeros: the shorter one is the smaller one.
LEMMA NumeralsCases ==
    ASSUME NEW l \in Seq(Int), NEW r \in Seq(Int)
    PROVE  LET a == TrimZeros(l)
               b == TrimZeros(r)
           IN  /\ a \in Seq(Int) /\ b \in Seq(Int) /\ Len(a) \in Nat /\ Len(b) \in Nat
               /\ CompareNumerals(l, r) = IF Len(a) # Len(b) THEN Sign(Len(a), Len(b)) ELSE CompareBytes(a, b)
               /\ CompareNumerals(l, r) <= 0 <=>
                     Len(a) < Len(b) \/ (Len(a) = Len(b) /\ CompareBytes(a, b) <= 0)
<1> DEFINE a == TrimZeros(l)
           b == TrimZeros(r)
<1>1. a \in Seq(Int) /\ b \in Seq(Int)
  BY TrimZerosOf
<1>2. CompareNumerals(l, r) = IF Len(a) # Len(b) THEN Sign(Len(a), Len(b)) ELSE CompareBytes(a, b)
  BY Zenon DEF CompareNumerals
<1> HIDE DEF a, b
<1>3. Len(a) \in Nat /\ Len(b) \in Nat
  BY <1>1
<1>4. CompareNumerals(l, r) <= 0 <=>
        Len(a) < Len(b) \/ (Len(a) = Len(b) /\ CompareBytes(a, b) <= 0)
  <2>1. CASE Len(a) = Len(b)
    BY <1>2, <1>3, <2>1
  <2>2. CASE Len(a) # Len(b)
    <3>1. CompareNumerals(l, r) = Sign(Len(a), Len(b))
      BY <1>2, <2>2
    <3>2. Sign(Len(a), Len(b)) <= 0 <=> Len(a) <= Len(b)
      BY <1>3, SignLaws
    <3> QED BY <1>3, <2>2, <3>1, <3>2
  <2> QED BY <2>1, <2>2
<1> QED BY <1>1, <1>2, <1>3, <1>4 DEF a, b

LEMMA NumeralsOpposite ==
    ASSUME NEW l \in Seq(Int), NEW r \in Seq(Int)
    PROVE  /\ CompareNumerals(l, r) \in {-1, 0, 1}
           /\ CompareNumerals(r, l) = 0 - CompareNumerals(l, r)
<1> DEFINE a == TrimZeros(l)
           b == TrimZeros(r)
<1>1. /\ a \in Seq(Int) /\ b \in Seq(Int) /\ Len(a) \in Nat /\ Len(b) \in Nat
      /\ CompareNumerals(l, r) = IF Len(a) # Len(b) THEN Sign(Len(a), Len(b)) ELSE CompareBytes(a, b)
      /\ CompareNumerals(r, l) = IF Len(b) # Len(a) THEN Sign(Len(b), Len(a)) ELSE CompareBytes(b, a)
  BY NumeralsCases, Zenon
<1> HIDE DEF a, b
<1>2. /\ CompareBytes(a, b) \in {-1, 0, 1}
      /\ CompareBytes(b, a) = 0 - CompareBytes(a, b)
  BY <1>1, BytesOpposite
<1>3. /\ Sign(Len(a), Len(b)) \in {-1, 0, 1}
      /\ Sign(Len(b), Len(a)) = 0 - Sign(Len(a), Len(b))
  BY <1>1, SignLaws
<1> QED BY <1>1, <1>2, <1>3

LEMMA NumeralsTransitive ==
    ASSUME NEW l \in Seq(Int), NEW m \in Seq(Int), NEW r \in Seq(Int),
           CompareNumerals(l, m) <= 0, CompareNumerals(m, r) <= 0
    PROVE  CompareNumerals(l, r) <= 0
<1> DEFINE a == TrimZeros(l)
           b == TrimZeros(m)
           c == TrimZeros(r)
           Below(x, y) == Len(x) < Len(y) \/ (Len(x) = Len(y) /\ CompareBytes(x, y) <= 0)
<1>1. /\ a \in Seq(Int) /\ b \in Seq(Int) /\ c \in Seq(Int)
      /\ Len(a) \in Nat /\ Len(b) \in Nat /\ Len(c) \in Nat
  BY NumeralsCases, Zenon
<1>2. Below(a, b) /\ Below(b, c) /\ (Below(a, c) => CompareNumerals(l, r) <= 0)
  BY NumeralsCases, Zenon
<1> HIDE DEF a, b, c
<1>3. CASE Len(a) = Len(b) /\ Len(b) = Len(c)
  <2>1. CompareBytes(a, c) <= 0
    BY <1>1, <1>2, <1>3, BytesTransitive
  <2> QED BY <1>1, <1>2, <1>3, <2>1
<1>4. CASE ~(Len(a) = Len(b) /\ Len(b) = Len(c))
  BY <1>1, <1>2, <1>4
<1> QED BY <1>3, <1>4

\* The order of segments: words before numbers.
LEMMA SegmentsOpposite ==
    ASSUME NEW a, NEW b, a.text \in Seq(Int), b.text \in Seq(Int), a.numeric \in BOOLEAN, b.numeric \in BOOLEAN
    PROVE  /\ SegmentOrder(a, b) \in {-1, 0, 1}
           /\ SegmentOrder(b, a) = 0 - SegmentOrder(a, b)
<1>1. CASE a.numeric # b.numeric
  BY <1>1 DEF SegmentOrder
<1>2. CASE a.numeric = b.numeric /\ a.numeric
  <2>1. /\ SegmentOrder(a, b) = CompareNumerals(a.text, b.text)
        /\ SegmentOrder(b, a) = CompareNumerals(b.text, a.text)
    BY <1>2, Zenon DEF SegmentOrder, CompareSegment
  <2> QED BY <2>1, NumeralsOpposite
<1>3. CASE a.numeric = b.numeric /\ ~a.numeric
  <2>1. /\ SegmentOrder(a, b) = CompareBytes(a.text, b.text)
        /\ SegmentOrder(b, a) = CompareBytes(b.text, a.text)
    BY <1>3, Zenon DEF SegmentOrder, CompareSegment
  <2> QED BY <2>1, BytesOpposite
<1> QED BY <1>1, <1>2, <1>3

LEMMA SegmentsTransitive ==
    ASSUME NEW a, NEW b, NEW c,
           a.text \in Seq(Int), b.text \in Seq(Int), c.text \in Seq(Int),
           a.numeric \in BOOLEAN, b.numeric \in BOOLEAN, c.numeric \in BOOLEAN,
           SegmentOrder(a, b) <= 0, SegmentOrder(b, c) <= 0
    PROVE  SegmentOrder(a, c) <= 0
<1>1. CASE a.numeric = c.numeric /\ a.numeric
  <2>1. b.numeric
    <3> SUFFICES ASSUME ~b.numeric PROVE FALSE
      OBVIOUS
    <3>1. SegmentOrder(a, b) = 1
      BY <1>1, Zenon DEF SegmentOrder
    <3> QED BY <3>1
  <2>2. /\ SegmentOrder(a, b) = CompareNumerals(a.text, b.text)
        /\ SegmentOrder(b, c) = CompareNumerals(b.text, c.text)
        /\ SegmentOrder(a, c) = CompareNumerals(a.text, c.text)
    BY <1>1, <2>1 DEF SegmentOrder, CompareSegment
  <2> QED BY <2>2, NumeralsTransitive
<1>2. CASE a.numeric = c.numeric /\ ~a.numeric
  <2>1. ~b.numeric
    <3> SUFFICES ASSUME b.numeric PROVE FALSE
      OBVIOUS
    <3>1. SegmentOrder(b, c) = 1
      BY <1>2, Zenon DEF SegmentOrder
    <3> QED BY <3>1
  <2>2. /\ SegmentOrder(a, b) = CompareBytes(a.text, b.text)
        /\ SegmentOrder(b, c) = CompareBytes(b.text, c.text)
        /\ SegmentOrder(a, c) = CompareBytes(a.text, c.text)
    BY <1>2, <2>1 DEF SegmentOrder, CompareSegment
  <2> QED BY <2>2, BytesTransitive
<1>3. CASE a.numeric # c.numeric
  <2>1. CASE a.numeric
    <3>1. ~c.numeric
      BY <1>3, <2>1
    <3>2. SegmentOrder(a, b) = 1 \/ SegmentOrder(b, c) = 1
      BY <2>1, <3>1 DEF SegmentOrder
    <3> QED BY <3>2
  <2>2. CASE ~a.numeric
    BY <1>3, <2>2 DEF SegmentOrder
  <2> QED BY <2>1, <2>2
<1> QED BY <1>1, <1>2, <1>3

\* What is between two equal ones is equal to both.
LEMMA SegmentsBetween ==
    ASSUME NEW a, NEW b, NEW c,
           a.text \in Seq(Int), b.text \in Seq(Int), c.text \in Seq(Int),
           a.numeric \in BOOLEAN, b.numeric \in BOOLEAN, c.numeric \in BOOLEAN,
           SegmentOrder(a, b) <= 0, SegmentOrder(b, c) <= 0, SegmentOrder(a, c) = 0
    PROVE  SegmentOrder(a, b) = 0 /\ SegmentOrder(b, c) = 0
<1>1. SegmentOrder(c, a) = 0
  BY SegmentsOpposite
<1>2. SegmentOrder(c, b) <= 0 /\ SegmentOrder(b, a) <= 0
  BY <1>1, SegmentsTransitive
<1>3. /\ SegmentOrder(a, b) \in {-1, 0, 1} /\ SegmentOrder(b, a) = 0 - SegmentOrder(a, b)
      /\ SegmentOrder(b, c) \in {-1, 0, 1} /\ SegmentOrder(c, b) = 0 - SegmentOrder(b, c)
  BY SegmentsOpposite
<1> QED BY <1>2, <1>3

\* Among texts there is a shortest one.
LEMMA ShortestIn ==
    ASSUME NEW S, S \subseteq Seq(Int), S # {}
    PROVE  \E x \in S : \A y \in S : Len(x) <= Len(y)
<1> DEFINE N == {Len(x) : x \in S}
<1>1. N \subseteq Nat /\ N # {}
  <2>1. \A x \in S : Len(x) \in Nat
    OBVIOUS
  <2>2. PICK x \in S : TRUE
    OBVIOUS
  <2>3. Len(x) \in N
    OBVIOUS
  <2> QED BY <2>1, <2>3
<1>2. PICK k \in N : \A y \in N : k <= y
  <2> HIDE DEF N
  <2> QED BY <1>1, SmallestIn
<1> QED BY <1>2

\* What a turn of the loop reads: two trimmed texts and, if there are any, their segments.
LEMMA RpmTurn ==
    ASSUME NEW p \in Seq(Int), NEW l, l = TrimNonAlnum(p), NEW a, a = NextSegment(l)
    PROVE  /\ l \in Seq(Int) /\ Len(l) \in Nat
           /\ l = <<>> => Len(l) = 0
           /\ l # <<>> => /\ Len(l) > 0
                          /\ a.text \in Seq(Int) /\ a.rest \in Seq(Int) /\ a.numeric \in BOOLEAN
                          /\ Len(a.rest) < Len(p)
<1>1. l \in Seq(Int) /\ (l # <<>> => IsAlnum(l[1])) /\ Len(l) <= Len(p)
  BY TrimNonAlnumOf
<1>2. Len(l) \in Nat /\ Len(p) \in Nat /\ (l = <<>> => Len(l) = 0) /\ (l # <<>> => Len(l) > 0)
  BY <1>1
<1>3. ASSUME l # <<>> PROVE a.text \in Seq(Int) /\ a.rest \in Seq(Int) /\ a.numeric \in BOOLEAN /\ Len(a.rest) < Len(l)
  BY <1>1, <1>3, SegmentOf
<1>4. ASSUME l # <<>> PROVE Len(a.rest) < Len(p)
  <2>1. Len(a.rest) \in Nat
    BY <1>3, <1>4
  <2> QED BY <1>1, <1>2, <1>3, <1>4, <2>1
<1> QED BY <1>1, <1>2, <1>3, <1>4

\* The loop turns around with its arguments.
LEMMA RpmOpposite ==
    ASSUME NEW p \in Seq(Int), NEW q \in Seq(Int)
    PROVE  /\ CompareRPMVersion(p, q) \in {-1, 0, 1}
           /\ CompareRPMVersion(q, p) = 0 - CompareRPMVersion(p, q)
<1> DEFINE Good(x, y) == /\ CompareRPMVersion(x, y) \in {-1, 0, 1}
                         /\ CompareRPMVersion(y, x) = 0 - CompareRPMVersion(x, y)
           Bad == {x \in Seq(Int) : \E y \in Seq(Int) : ~Good(x, y)}
<1>1. ASSUME NEW x \in Seq(Int), \A z \in Bad : Len(x) <= Len(z), NEW y \in Seq(Int)
      PROVE  Good(x, y)
  <2> DEFINE l == TrimNonAlnum(x)
             r == TrimNonAlnum(y)
             a == NextSegment(l)
             b == NextSegment(r)
  <2>1. /\ CompareRPMVersion(x, y) =
                 IF l = <<>> \/ r = <<>> THEN Sign(Len(l), Len(r))
                 ELSE IF SegmentOrder(a, b) # 0 THEN SegmentOrder(a, b)
                 ELSE CompareRPMVersion(a.rest, b.rest)
        /\ CompareRPMVersion(y, x) =
                 IF r = <<>> \/ l = <<>> THEN Sign(Len(r), Len(l))
                 ELSE IF SegmentOrder(b, a) # 0 THEN SegmentOrder(b, a)
                 ELSE CompareRPMVersion(b.rest, a.rest)
    BY RpmStep, Zenon
  <2>2. /\ l \in Seq(Int) /\ Len(l) \in Nat
        /\ l # <<>> => /\ a.text \in Seq(Int) /\ a.rest \in Seq(Int) /\ a.numeric \in BOOLEAN
                       /\ Len(a.rest) < Len(x)
    BY RpmTurn
  <2>3. /\ r \in Seq(Int) /\ Len(r) \in Nat
        /\ r # <<>> => /\ b.text \in Seq(Int) /\ b.rest \in Seq(Int) /\ b.numeric \in BOOLEAN
    BY RpmTurn
  <2> HIDE DEF l, r, a, b
  <2>4. CASE l = <<>> \/ r = <<>>
    <3>1. /\ CompareRPMVersion(x, y) = Sign(Len(l), Len(r))
          /\ CompareRPMVersion(y, x) = Sign(Len(r), Len(l))
      BY <2>1, <2>4, Zenon
    <3> QED BY <2>2, <2>3, <3>1, SignLaws
  <2>5. CASE ~(l = <<>> \/ r = <<>>)
    <3>1. /\ SegmentOrder(a, b) \in {-1, 0, 1}
          /\ SegmentOrder(b, a) = 0 - SegmentOrder(a, b)
      BY <2>2, <2>3, <2>5, SegmentsOpposite
    <3>2. CASE SegmentOrder(a, b) = 0
      <4>1. /\ CompareRPMVersion(x, y) = CompareRPMVersion(a.rest, b.rest)
            /\ CompareRPMVersion(y, x) = CompareRPMVersion(b.rest, a.rest)
        BY <2>1, <2>5, <3>1, <3>2
      <4>2. a.rest \notin Bad
        <5> HIDE DEF Bad
        <5>1. Len(a.rest) \in Nat /\ Len(x) \in Nat /\ Len(a.rest) < Len(x)
          BY <2>2, <2>5
        <5> QED BY <1>1, <5>1
      <4>3. Good(a.rest, b.rest)
        <5> HIDE DEF Good
        <5> QED BY <2>2, <2>3, <2>5, <4>2
      <4> QED BY <4>1, <4>3
    <3>3. CASE SegmentOrder(a, b) # 0
      <4>1. SegmentOrder(b, a) # 0
        BY <3>1, <3>3
      <4>2. /\ CompareRPMVersion(x, y) = SegmentOrder(a, b)
            /\ CompareRPMVersion(y, x) = SegmentOrder(b, a)
        BY <2>1, <2>5, <3>3, <4>1, Zenon
      <4> QED BY <3>1, <4>2
    <3> QED BY <3>2, <3>3
  <2> QED BY <2>4, <2>5
<1> HIDE DEF Good
<1>2. Bad = {}
  <2> SUFFICES ASSUME Bad # {} PROVE FALSE
    OBVIOUS
  <2>1. Bad \subseteq Seq(Int)
    OBVIOUS
  <2>2. PICK x \in Bad : \A z \in Bad : Len(x) <= Len(z)
    <3> HIDE DEF Bad
    <3> QED BY <2>1, ShortestIn
  <2>3. PICK y \in Seq(Int) : ~Good(x, y)
    OBVIOUS
  <2> HIDE DEF Bad
  <2> QED BY <1>1, <2>1, <2>2, <2>3
<1>3. Good(p, q)
  BY <1>2
<1> QED BY <1>3 DEF Good

\* And it is transitive.
LEMMA RpmTransitive ==
    ASSUME NEW p \in Seq(Int), NEW q \in Seq(Int), NEW s \in Seq(Int),
           CompareRPMVersion(p, q) <= 0, CompareRPMVersion(q, s) <= 0
    PROVE  CompareRPMVersion(p, s) <= 0
<1> DEFINE Good(x, y, z) == CompareRPMVersion(x, y) <= 0 /\ CompareRPMVersion(y, z) <= 0
                              => CompareRPMVersion(x, z) <= 0
           Bad == {x \in Seq(Int) : \E y, z \in Seq(Int) : ~Good(x, y, z)}
<1>1. ASSUME NEW x \in Seq(Int), \A u \in Bad : Len(x) <= Len(u), NEW y \in Seq(Int), NEW z \in Seq(Int),
             CompareRPMVersion(x, y) <= 0, CompareRPMVersion(y, z) <= 0
      PROVE  CompareRPMVersion(x, z) <= 0
  <2> DEFINE l == TrimNonAlnum(x)
             m == TrimNonAlnum(y)
             r == TrimNonAlnum(z)
             a == NextSegment(l)
             b == NextSegment(m)
             c == NextSegment(r)
  <2>1. CompareRPMVersion(x, y) =
                 IF l = <<>> \/ m = <<>> THEN Sign(Len(l), Len(m))
                 ELSE IF SegmentOrder(a, b) # 0 THEN SegmentOrder(a, b)
                 ELSE CompareRPMVersion(a.rest, b.rest)
    BY RpmStep, Zenon
  <2>2. CompareRPMVersion(y, z) =
                 IF m = <<>> \/ r = <<>> THEN Sign(Len(m), Len(r))
                 ELSE IF SegmentOrder(b, c) # 0 THEN SegmentOrder(b, c)
                 ELSE CompareRPMVersion(b.rest, c.rest)
    BY RpmStep, Zenon
  <2>3. CompareRPMVersion(x, z) =
                 IF l = <<>> \/ r = <<>> THEN Sign(Len(l), Len(r))
                 ELSE IF SegmentOrder(a, c) # 0 THEN SegmentOrder(a, c)
                 ELSE CompareRPMVersion(a.rest, c.rest)
    BY RpmStep, Zenon
  <2>4. /\ l \in Seq(Int) /\ Len(l) \in Nat /\ (l = <<>> => Len(l) = 0)
        /\ l # <<>> => /\ Len(l) > 0
                       /\ a.text \in Seq(Int) /\ a.rest \in Seq(Int) /\ a.numeric \in BOOLEAN
                       /\ Len(a.rest) < Len(x)
    BY RpmTurn
  <2>5. /\ m \in Seq(Int) /\ Len(m) \in Nat /\ (m = <<>> => Len(m) = 0)
        /\ m # <<>> => /\ Len(m) > 0
                       /\ b.text \in Seq(Int) /\ b.rest \in Seq(Int) /\ b.numeric \in BOOLEAN
    BY RpmTurn
  <2>6. /\ r \in Seq(Int) /\ Len(r) \in Nat /\ (r = <<>> => Len(r) = 0)
        /\ r # <<>> => c.text \in Seq(Int) /\ c.rest \in Seq(Int) /\ c.numeric \in BOOLEAN
    BY RpmTurn
  <2> HIDE DEF l, m, r, a, b, c
  <2>7. CASE l = <<>>
    <3>1. CompareRPMVersion(x, z) = Sign(Len(l), Len(r))
      BY <2>3, <2>7, Zenon
    <3> QED BY <2>4, <2>6, <2>7, <3>1, SignLaws
  <2>8. ASSUME l # <<>> PROVE m # <<>> /\ r # <<>>
    <3>1. ASSUME m = <<>> PROVE FALSE
      <4>1. CompareRPMVersion(x, y) = Sign(Len(l), Len(m))
        BY <2>1, <3>1, Zenon
      <4> QED BY <1>1, <2>4, <2>5, <2>8, <3>1, <4>1, SignLaws
    <3>2. ASSUME m # <<>>, r = <<>> PROVE FALSE
      <4>1. CompareRPMVersion(y, z) = Sign(Len(m), Len(r))
        BY <2>2, <3>2, Zenon
      <4> QED BY <1>1, <2>5, <2>6, <3>2, <4>1, SignLaws
    <3> QED BY <3>1, <3>2
  <2>9. CASE l # <<>>
    <3>1. SegmentOrder(a, b) <= 0
      BY <1>1, <2>1, <2>8, <2>9
    <3>2. SegmentOrder(b, c) <= 0
      BY <1>1, <2>2, <2>8, <2>9
    <3>3. SegmentOrder(a, c) <= 0
      BY <2>4, <2>5, <2>6, <2>8, <2>9, <3>1, <3>2, SegmentsTransitive
    <3>4. CASE SegmentOrder(a, c) # 0
      <4>1. CompareRPMVersion(x, z) = SegmentOrder(a, c)
        BY <2>3, <2>8, <2>9, <3>4, Zenon
      <4> QED BY <3>3, <4>1
    <3>5. CASE SegmentOrder(a, c) = 0
      <4>1. SegmentOrder(a, b) = 0 /\ SegmentOrder(b, c) = 0
        BY <2>4, <2>5, <2>6, <2>8, <2>9, <3>1, <3>2, <3>5, SegmentsBetween
      <4>2. /\ CompareRPMVersion(x, y) = CompareRPMVersion(a.rest, b.rest)
            /\ CompareRPMVersion(y, z) = CompareRPMVersion(b.rest, c.rest)
            /\ CompareRPMVersion(x, z) = CompareRPMVersion(a.rest, c.rest)
        BY <2>1, <2>2, <2>3, <2>8, <2>9, <3>5, <4>1, Zenon
      <4>3. a.rest \notin Bad
        <5> HIDE DEF Bad
        <5>1. Len(a.rest) \in Nat /\ Len(x) \in Nat /\ Len(a.rest) < Len(x)
          BY <2>4, <2>9
        <5> QED BY <1>1, <5>1
      <4>4. Good(a.rest, b.rest, c.rest)
        <5> HIDE DEF Good
        <5> QED BY <2>4, <2>5, <2>6, <2>8, <2>9, <4>3
      <4> QED BY <1>1, <4>2, <4>4
    <3> QED BY <3>4, <3>5
  <2> QED BY <2>7, <2>9
<1>2. Bad = {}
  <2> SUFFICES ASSUME Bad # {} PROVE FALSE
    OBVIOUS
  <2> HIDE DEF Good
  <2>1. Bad \subseteq Seq(Int)
    OBVIOUS
  <2>2. PICK x \in Bad : \A u \in Bad : Len(x) <= Len(u)
    <3> HIDE DEF Bad
    <3> QED BY <2>1, ShortestIn
  <2>3. PICK y \in Seq(Int), z \in Seq(Int) : ~Good(x, y, z)
    OBVIOUS
  <2>4. Good(x, y, z)
    <3> HIDE DEF Bad
    <3> QED BY <1>1, <2>1, <2>2, Zenon DEF Good
  <2> QED BY <2>3, <2>4
<1> HIDE DEF Good
<1>3. Good(p, q, s)
  BY <1>2
<1> QED BY <1>3 DEF Good

\* A version as it is compared: its epoch, and two texts.
EVRSet == [epoch : Int, version : Seq(Int), release : Seq(Int)]

\* CompareEVR orders all RPM versions: of two, one is not above the other, and what is
\* not above a version is not above one that is not below that one (compareEVR).
THEOREM RpmOrder ==
    ASSUME NEW e \in EVRSet, NEW f \in EVRSet, NEW g \in EVRSet
    PROVE  /\ CompareEVR(e, f) \in {-1, 0, 1}
           /\ CompareEVR(f, e) = 0 - CompareEVR(e, f)
           /\ CompareEVR(e, f) <= 0 /\ CompareEVR(f, g) <= 0 => CompareEVR(e, g) <= 0
<1> DEFINE V(x, y) == CompareRPMVersion(x.version, y.version)
           R(x, y) == CompareRPMVersion(x.release, y.release)
           Order(x, y) == IF x.epoch # y.epoch THEN Sign(x.epoch, y.epoch)
                          ELSE IF V(x, y) # 0 THEN V(x, y) ELSE R(x, y)
<1>1. \A x, y : CompareEVR(x, y) = Order(x, y)
  BY Zenon DEF CompareEVR
<1>2. \A x \in EVRSet : x.epoch \in Int /\ x.version \in Seq(Int) /\ x.release \in Seq(Int)
  BY DEF EVRSet
<1>3. \A x, y \in EVRSet : /\ V(x, y) \in {-1, 0, 1} /\ V(y, x) = 0 - V(x, y)
                           /\ R(x, y) \in {-1, 0, 1} /\ R(y, x) = 0 - R(x, y)
  BY <1>2, RpmOpposite
<1>4. \A x, y, z \in EVRSet : /\ V(x, y) <= 0 /\ V(y, z) <= 0 => V(x, z) <= 0
                              /\ R(x, y) <= 0 /\ R(y, z) <= 0 => R(x, z) <= 0
  BY <1>2, RpmTransitive
<1> HIDE DEF V, R
<1>5. /\ Order(e, f) \in {-1, 0, 1}
      /\ Order(f, e) = 0 - Order(e, f)
  BY <1>2, <1>3, SignLaws
<1>6. ASSUME Order(e, f) <= 0, Order(f, g) <= 0 PROVE Order(e, g) <= 0
  <2>1. e.epoch \in Int /\ f.epoch \in Int /\ g.epoch \in Int
    BY <1>2
  <2>2. e.epoch <= f.epoch /\ f.epoch <= g.epoch
    BY <1>6, <2>1, SignLaws
  <2>3. CASE e.epoch # g.epoch
    BY <2>1, <2>2, <2>3, SignLaws
  <2>4. CASE e.epoch = g.epoch
    <3>1. e.epoch = f.epoch /\ f.epoch = g.epoch
      BY <2>1, <2>2, <2>4
    <3>2. V(e, f) <= 0 /\ V(f, g) <= 0
      BY <1>3, <1>6, <3>1
    <3>3. V(e, g) <= 0
      BY <1>4, <3>2
    <3>4. CASE V(e, g) # 0
      BY <3>1, <3>3, <3>4
    <3>5. CASE V(e, g) = 0
      <4>1. V(g, e) <= 0
        BY <1>3, <3>5
      <4>2. V(g, f) <= 0 /\ V(f, e) <= 0
        BY <1>4, <3>2, <4>1
      <4>3. V(e, f) = 0 /\ V(f, g) = 0
        BY <1>3, <3>2, <4>2
      <4>4. R(e, f) <= 0 /\ R(f, g) <= 0
        BY <1>6, <3>1, <4>3
      <4>5. R(e, g) <= 0
        BY <1>4, <4>4
      <4> QED BY <3>1, <3>5, <4>5
    <3> QED BY <3>4, <3>5
  <2> QED BY <2>3, <2>4
<1> HIDE DEF Order
<1> QED BY <1>1, <1>5, <1>6

\* dpkg's classes of what stands at a place of a text: a tilde, the end, a letter, the rest.
Class(s, i) ==
    IF i > Len(s) THEN 1
    ELSE IF s[i] = Tilde THEN 0
    ELSE IF IsLetter(s[i]) THEN 2 ELSE 3
Code(s, i) == IF i > Len(s) THEN 0 ELSE s[i]
Same(l, r, i) == Class(l, i) = Class(r, i) /\ Code(l, i) = Code(r, i)
Less(l, r, i) == Class(l, i) < Class(r, i) \/ (Class(l, i) = Class(r, i) /\ Code(l, i) < Code(r, i))

LEMMA PlaceTypes ==
    ASSUME NEW s \in Seq(Int), NEW i \in Nat \ {0}
    PROVE  Class(s, i) \in Int /\ Code(s, i) \in Int
<1>1. Len(s) \in Nat
  OBVIOUS
<1>2. i <= Len(s) => s[i] \in Int
  BY <1>1
<1> QED BY <1>1, <1>2 DEF Class, Code

\* compareDebianChars orders by class and code.
LEMMA CharsOrder ==
    ASSUME NEW l \in Seq(Int), NEW r \in Seq(Int), NEW i \in Nat \ {0}, i <= Len(l), i <= Len(r)
    PROVE  /\ CompareDebianChars(l[i], r[i]) \in {-1, 0, 1}
           /\ CompareDebianChars(l[i], r[i]) = 0 <=> Same(l, r, i)
           /\ CompareDebianChars(l[i], r[i]) = 0 <=> l[i] = r[i]
           /\ CompareDebianChars(l[i], r[i]) < 0 <=> Less(l, r, i)
<1>1. Len(l) \in Nat /\ Len(r) \in Nat /\ l[i] \in Int /\ r[i] \in Int
  OBVIOUS
<1>2. ASSUME NEW c \in Int, NEW d \in Int
      PROVE  LET k == IF c = 126 THEN 0 ELSE IF IsLetter(c) THEN 2 ELSE 3
                 n == IF d = 126 THEN 0 ELSE IF IsLetter(d) THEN 2 ELSE 3
                 o == CompareDebianChars(c, d)
             IN  /\ o \in {-1, 0, 1}
                 /\ o = 0 <=> k = n /\ c = d
                 /\ o = 0 <=> c = d
                 /\ o < 0 <=> k < n \/ (k = n /\ c < d)
  BY DEF CompareDebianChars, IsLetter, Sign, Tilde
<1>3. /\ Class(l, i) = IF l[i] = 126 THEN 0 ELSE IF IsLetter(l[i]) THEN 2 ELSE 3
      /\ Class(r, i) = IF r[i] = 126 THEN 0 ELSE IF IsLetter(r[i]) THEN 2 ELSE 3
      /\ Code(l, i) = l[i] /\ Code(r, i) = r[i]
  BY <1>1 DEF Class, Code, Tilde
<1> QED BY <1>1, <1>2, <1>3 DEF Same, Less

\* The first place where two texts differ, or the end of both.
FirstPlace(l, r, k) ==
    /\ k \in 1..(Len(l) + 1) /\ k \in 1..(Len(r) + 1)
    /\ \A j \in 1..(k - 1) : l[j] = r[j]
    /\ Same(l, r, k) => k = Len(l) + 1 /\ k = Len(r) + 1

LEMMA WordCases ==
    ASSUME NEW l \in Seq(Int), NEW r \in Seq(Int)
    PROVE  \E k \in Nat \ {0} :
              /\ FirstPlace(l, r, k)
              /\ CompareDebianNonDigit(l, r) = IF Less(l, r, k) THEN -1 ELSE IF Same(l, r, k) THEN 0 ELSE 1
<1> DEFINE n == Min({Len(l), Len(r)})
           differ == {i \in 1..n : CompareDebianChars(l[i], r[i]) # 0}
<1>1. CompareDebianNonDigit(l, r) =
        IF differ # {} THEN CompareDebianChars(l[Min(differ)], r[Min(differ)])
        ELSE IF Len(l) < Len(r) THEN IF r[n + 1] = Tilde THEN 1 ELSE -1
        ELSE IF Len(l) > Len(r) THEN IF l[n + 1] = Tilde THEN -1 ELSE 1
        ELSE 0
  BY Zenon DEF CompareDebianNonDigit
<1>2. Len(l) \in Nat /\ Len(r) \in Nat
  OBVIOUS
<1>3. n \in Nat /\ n <= Len(l) /\ n <= Len(r) /\ (n = Len(l) \/ n = Len(r))
  <2> DEFINE S == {Len(l), Len(r)}
  <2>1. S \subseteq Nat /\ S # {}
    BY <1>2
  <2>2. Min(S) \in S /\ \A y \in S : Min(S) <= y
    <3> HIDE DEF S
    <3> QED BY <2>1, SmallestIn
  <2> QED BY <1>2, <2>2
<1> HIDE DEF n
<1>4. ASSUME NEW i \in 1..n, i \notin differ PROVE l[i] = r[i]
  <2>1. i \in Nat \ {0} /\ i <= Len(l) /\ i <= Len(r) /\ CompareDebianChars(l[i], r[i]) = 0
    BY <1>2, <1>3, <1>4
  <2> QED BY <2>1, CharsOrder
<1>5. CASE differ = {}
  <2> DEFINE k == n + 1
  <2>1. k \in Nat \ {0} /\ k \in 1..(Len(l) + 1) /\ k \in 1..(Len(r) + 1) /\ k - 1 = n
    BY <1>2, <1>3
  <2>2. \A j \in 1..(k - 1) : l[j] = r[j]
    BY <1>4, <1>5, <2>1
  <2>3. CASE Len(l) < Len(r)
    <3>1. k > Len(l) /\ ~(k > Len(r))
      BY <1>2, <1>3, <2>3
    <3>2. Class(l, k) = 1 /\ Class(r, k) = IF r[k] = Tilde THEN 0 ELSE IF IsLetter(r[k]) THEN 2 ELSE 3
      BY <3>1, Zenon DEF Class
    <3>3. ~Same(l, r, k) /\ (Less(l, r, k) <=> r[k] # Tilde)
      <4> HIDE DEF k
      <4> QED BY <3>2 DEF Same, Less
    <3>4. CompareDebianNonDigit(l, r) = IF r[k] = Tilde THEN 1 ELSE -1
      BY <1>1, <1>5, <2>3, Zenon
    <3>5. FirstPlace(l, r, k)
      BY <2>1, <2>2, <3>3, Zenon DEF FirstPlace
    <3> HIDE DEF k
    <3>6. CompareDebianNonDigit(l, r) = IF Less(l, r, k) THEN -1 ELSE IF Same(l, r, k) THEN 0 ELSE 1
      BY <3>3, <3>4, Zenon
    <3> QED BY <2>1, <3>5, <3>6, Zenon
  <2>4. CASE Len(l) > Len(r)
    <3>1. k > Len(r) /\ ~(k > Len(l)) /\ ~(Len(l) < Len(r))
      BY <1>2, <1>3, <2>4
    <3>2. Class(r, k) = 1 /\ Class(l, k) = IF l[k] = Tilde THEN 0 ELSE IF IsLetter(l[k]) THEN 2 ELSE 3
      BY <3>1, Zenon DEF Class
    <3>3. ~Same(l, r, k) /\ (Less(l, r, k) <=> l[k] = Tilde)
      <4> HIDE DEF k
      <4> QED BY <3>2 DEF Same, Less
    <3>4. CompareDebianNonDigit(l, r) = IF l[k] = Tilde THEN -1 ELSE 1
      BY <1>1, <1>5, <2>4, <3>1, Zenon
    <3>5. FirstPlace(l, r, k)
      BY <2>1, <2>2, <3>3, Zenon DEF FirstPlace
    <3> HIDE DEF k
    <3>6. CompareDebianNonDigit(l, r) = IF Less(l, r, k) THEN -1 ELSE IF Same(l, r, k) THEN 0 ELSE 1
      BY <3>3, <3>4, Zenon
    <3> QED BY <2>1, <3>5, <3>6, Zenon
  <2>5. CASE Len(l) = Len(r)
    <3>1. k > Len(r) /\ k > Len(l) /\ ~(Len(l) < Len(r)) /\ ~(Len(l) > Len(r)) /\ k = Len(l) + 1 /\ k = Len(r) + 1
      BY <1>2, <1>3, <2>5
    <3>2. Class(r, k) = 1 /\ Class(l, k) = 1 /\ Code(l, k) = 0 /\ Code(r, k) = 0
      BY <3>1, Zenon DEF Class, Code
    <3>3. Same(l, r, k) /\ ~Less(l, r, k)
      <4> HIDE DEF k
      <4> QED BY <3>2 DEF Same, Less
    <3>4. CompareDebianNonDigit(l, r) = 0
      BY <1>1, <1>5, <3>1, Zenon
    <3>5. FirstPlace(l, r, k)
      BY <2>1, <2>2, <3>1, Zenon DEF FirstPlace
    <3> HIDE DEF k
    <3>6. CompareDebianNonDigit(l, r) = IF Less(l, r, k) THEN -1 ELSE IF Same(l, r, k) THEN 0 ELSE 1
      BY <3>3, <3>4, Zenon
    <3> QED BY <2>1, <3>5, <3>6, Zenon
  <2> QED BY <1>2, <2>3, <2>4, <2>5
<1>6. CASE differ # {}
  <2> DEFINE k == Min(differ)
  <2>1. differ \subseteq Nat
    BY <1>3
  <2>2. k \in differ /\ \A y \in differ : k <= y
    <3> HIDE DEF differ
    <3> QED BY <1>6, <2>1, SmallestIn
  <2>3. CompareDebianNonDigit(l, r) = CompareDebianChars(l[k], r[k])
    BY <1>1, <1>6, Zenon
  <2> HIDE DEF k
  <2>4. k \in 1..n /\ CompareDebianChars(l[k], r[k]) # 0
    BY <2>2
  <2>5. /\ k \in Nat \ {0} /\ k <= Len(l) /\ k <= Len(r)
        /\ k \in 1..(Len(l) + 1) /\ k \in 1..(Len(r) + 1)
    BY <1>2, <1>3, <2>4
  <2>6. ASSUME NEW j \in 1..(k - 1) PROVE l[j] = r[j]
    <3>1. j \in 1..n /\ j < k /\ j \in Nat /\ k \in Nat
      BY <1>3, <2>4
    <3>2. j \notin differ
      <4> HIDE DEF differ
      <4> QED BY <2>2, <3>1
    <3> HIDE DEF differ
    <3> QED BY <1>4, <3>1, <3>2
  <2>7. /\ ~Same(l, r, k)
        /\ CompareDebianChars(l[k], r[k]) = IF Less(l, r, k) THEN -1 ELSE 1
    <3>1. /\ CompareDebianChars(l[k], r[k]) \in {-1, 0, 1}
          /\ CompareDebianChars(l[k], r[k]) = 0 <=> Same(l, r, k)
          /\ CompareDebianChars(l[k], r[k]) < 0 <=> Less(l, r, k)
      BY <2>5, CharsOrder
    <3> QED BY <2>4, <3>1
  <2>8. FirstPlace(l, r, k)
    BY <2>5, <2>6, <2>7, Zenon DEF FirstPlace
  <2> QED BY <2>3, <2>5, <2>7, <2>8, Zenon
<1> QED BY <1>5, <1>6

\* There is one such place, and it is the same from both sides.
LEMMA PlaceUnique ==
    ASSUME NEW l \in Seq(Int), NEW r \in Seq(Int), NEW k \in Nat \ {0}, NEW i \in Nat \ {0},
           FirstPlace(l, r, k), FirstPlace(l, r, i)
    PROVE  k = i
<1>1. ASSUME NEW x \in Nat \ {0}, NEW y \in Nat \ {0}, FirstPlace(l, r, x), FirstPlace(l, r, y), x < y
      PROVE  FALSE
  <2>1. Len(l) \in Nat /\ Len(r) \in Nat
    OBVIOUS
  <2>2. /\ y \in 1..(Len(l) + 1) /\ y \in 1..(Len(r) + 1)
        /\ \A j \in 1..(y - 1) : l[j] = r[j]
        /\ Same(l, r, x) => x = Len(l) + 1
    BY <1>1 DEF FirstPlace
  <2>3. x \in 1..(y - 1) /\ x <= Len(l) /\ x <= Len(r) /\ x # Len(l) + 1
    BY <1>1, <2>1, <2>2
  <2>4. l[x] = r[x]
    BY <2>2, <2>3
  <2>5. Same(l, r, x)
    BY <2>3, <2>4, CharsOrder
  <2> QED BY <2>2, <2>3, <2>5
<1> QED BY <1>1

LEMMA PlaceOpposite ==
    ASSUME NEW l \in Seq(Int), NEW r \in Seq(Int), NEW k \in Nat \ {0}
    PROVE  /\ Same(l, r, k) <=> Same(r, l, k)
           /\ Less(r, l, k) <=> ~Less(l, r, k) /\ ~Same(l, r, k)
           /\ FirstPlace(l, r, k) => FirstPlace(r, l, k)
<1>1. Class(l, k) \in Int /\ Class(r, k) \in Int /\ Code(l, k) \in Int /\ Code(r, k) \in Int
  BY PlaceTypes
<1>2. /\ Same(l, r, k) <=> Same(r, l, k)
      /\ Less(r, l, k) <=> ~Less(l, r, k) /\ ~Same(l, r, k)
  BY <1>1 DEF Same, Less
<1>3. FirstPlace(l, r, k) => FirstPlace(r, l, k)
  BY <1>2 DEF FirstPlace
<1> QED BY <1>2, <1>3

\* compareDebianNonDigit turns around with its arguments.
LEMMA WordsOpposite ==
    ASSUME NEW l \in Seq(Int), NEW r \in Seq(Int)
    PROVE  /\ CompareDebianNonDigit(l, r) \in {-1, 0, 1}
           /\ CompareDebianNonDigit(r, l) = 0 - CompareDebianNonDigit(l, r)
<1>1. PICK k \in Nat \ {0} :
         /\ FirstPlace(l, r, k)
         /\ CompareDebianNonDigit(l, r) = IF Less(l, r, k) THEN -1 ELSE IF Same(l, r, k) THEN 0 ELSE 1
  BY WordCases
<1>2. PICK i \in Nat \ {0} :
         /\ FirstPlace(r, l, i)
         /\ CompareDebianNonDigit(r, l) = IF Less(r, l, i) THEN -1 ELSE IF Same(r, l, i) THEN 0 ELSE 1
  BY WordCases
<1>3. i = k
  <2>1. FirstPlace(l, r, i)
    BY <1>2, PlaceOpposite
  <2> QED BY <1>1, <2>1, PlaceUnique
<1>4. /\ Same(l, r, k) <=> Same(r, l, k)
      /\ Less(r, l, k) <=> ~Less(l, r, k) /\ ~Same(l, r, k)
  BY PlaceOpposite
<1>5. ~(Less(l, r, k) /\ Same(l, r, k))
  <2>1. Class(l, k) \in Int /\ Class(r, k) \in Int /\ Code(l, k) \in Int /\ Code(r, k) \in Int
    BY PlaceTypes
  <2> QED BY <2>1 DEF Less, Same
<1> QED BY <1>1, <1>2, <1>3, <1>4, <1>5

\* And it is transitive.
LEMMA WordsTransitive ==
    ASSUME NEW l \in Seq(Int), NEW m \in Seq(Int), NEW r \in Seq(Int),
           CompareDebianNonDigit(l, m) <= 0, CompareDebianNonDigit(m, r) <= 0
    PROVE  CompareDebianNonDigit(l, r) <= 0
<1>1. PICK k \in Nat \ {0} : FirstPlace(l, m, k) /\ (Less(l, m, k) \/ Same(l, m, k))
  <2>1. PICK k \in Nat \ {0} :
           /\ FirstPlace(l, m, k)
           /\ CompareDebianNonDigit(l, m) = IF Less(l, m, k) THEN -1 ELSE IF Same(l, m, k) THEN 0 ELSE 1
    BY WordCases
  <2> QED BY <2>1
<1>2. PICK i \in Nat \ {0} : FirstPlace(m, r, i) /\ (Less(m, r, i) \/ Same(m, r, i))
  <2>1. PICK i \in Nat \ {0} :
           /\ FirstPlace(m, r, i)
           /\ CompareDebianNonDigit(m, r) = IF Less(m, r, i) THEN -1 ELSE IF Same(m, r, i) THEN 0 ELSE 1
    BY WordCases
  <2> QED BY <2>1
<1>3. PICK u \in Nat \ {0} :
         /\ FirstPlace(l, r, u)
         /\ CompareDebianNonDigit(l, r) = IF Less(l, r, u) THEN -1 ELSE IF Same(l, r, u) THEN 0 ELSE 1
  BY WordCases
<1>4. Len(l) \in Nat /\ Len(m) \in Nat /\ Len(r) \in Nat
  OBVIOUS
<1>5. /\ k \in 1..(Len(l) + 1) /\ k \in 1..(Len(m) + 1)
      /\ \A j \in 1..(k - 1) : l[j] = m[j]
      /\ Same(l, m, k) => k = Len(l) + 1 /\ k = Len(m) + 1
  BY <1>1 DEF FirstPlace
<1>6. /\ i \in 1..(Len(m) + 1) /\ i \in 1..(Len(r) + 1)
      /\ \A j \in 1..(i - 1) : m[j] = r[j]
      /\ Same(m, r, i) => i = Len(m) + 1 /\ i = Len(r) + 1
  BY <1>2 DEF FirstPlace
<1>7. ASSUME NEW x \in Nat \ {0}, Less(l, r, x) \/ (Same(l, r, x) /\ x = Len(l) + 1 /\ x = Len(r) + 1),
             x \in 1..(Len(l) + 1), x \in 1..(Len(r) + 1), \A j \in 1..(x - 1) : l[j] = r[j]
      PROVE  CompareDebianNonDigit(l, r) <= 0
  <2>1. ~(Less(l, r, x) /\ Same(l, r, x))
    <3>1. Class(l, x) \in Int /\ Class(r, x) \in Int /\ Code(l, x) \in Int /\ Code(r, x) \in Int
      BY PlaceTypes
    <3> QED BY <3>1 DEF Less, Same
  <2>2. FirstPlace(l, r, x)
    BY <1>7, <2>1, Zenon DEF FirstPlace
  <2>3. x = u
    BY <1>3, <2>2, PlaceUnique
  <2> QED BY <1>3, <1>7, <2>3
<1>8. CASE k < i
  <2>1. k \in 1..(i - 1) /\ k <= Len(m) /\ k <= Len(r) /\ k \in 1..(Len(r) + 1) /\ k # Len(m) + 1
    BY <1>4, <1>5, <1>6, <1>8
  <2>2. Less(l, m, k)
    BY <1>1, <1>5, <2>1
  <2>3. Same(m, r, k)
    <3>1. m[k] = r[k]
      BY <1>6, <2>1
    <3> QED BY <2>1, <3>1, CharsOrder
  <2>4. Less(l, r, k)
    BY <2>2, <2>3 DEF Less, Same
  <2>5. ASSUME NEW j \in 1..(k - 1) PROVE l[j] = r[j]
    <3>1. j \in 1..(i - 1)
      BY <1>8
    <3> QED BY <1>5, <1>6, <3>1
  <2> QED BY <1>5, <1>7, <2>1, <2>4, <2>5
<1>9. CASE i < k
  <2>1. i \in 1..(k - 1) /\ i <= Len(m) /\ i <= Len(l) /\ i \in 1..(Len(l) + 1) /\ i # Len(m) + 1
    BY <1>4, <1>5, <1>6, <1>9
  <2>2. Less(m, r, i)
    BY <1>2, <1>6, <2>1
  <2>3. Same(l, m, i)
    <3>1. l[i] = m[i]
      BY <1>5, <2>1
    <3> QED BY <2>1, <3>1, CharsOrder
  <2>4. Less(l, r, i)
    BY <2>2, <2>3 DEF Less, Same
  <2>5. ASSUME NEW j \in 1..(i - 1) PROVE l[j] = r[j]
    <3>1. j \in 1..(k - 1)
      BY <1>9
    <3> QED BY <1>5, <1>6, <3>1
  <2> QED BY <1>6, <1>7, <2>1, <2>4, <2>5
<1>10. CASE i = k
  <2>1. \A j \in 1..(k - 1) : l[j] = r[j]
    BY <1>5, <1>6, <1>10
  <2>2. k \in 1..(Len(r) + 1)
    BY <1>6, <1>10
  <2>3. Less(l, r, k) \/ (Same(l, r, k) /\ k = Len(l) + 1 /\ k = Len(r) + 1)
    <3>1. /\ Class(l, k) \in Int /\ Class(m, k) \in Int /\ Class(r, k) \in Int
          /\ Code(l, k) \in Int /\ Code(m, k) \in Int /\ Code(r, k) \in Int
      BY PlaceTypes
    <3>2. (Less(l, m, k) /\ (Less(m, r, k) \/ Same(m, r, k))) \/ (Same(l, m, k) /\ Less(m, r, k)) => Less(l, r, k)
      BY <3>1 DEF Less, Same
    <3>3. Same(l, m, k) /\ Same(m, r, k) => Same(l, r, k)
      BY DEF Same
    <3> QED BY <1>1, <1>2, <1>5, <1>6, <1>10, <3>2, <3>3
  <2> QED BY <1>5, <1>7, <2>1, <2>2, <2>3
<1> QED BY <1>8, <1>9, <1>10

\* What a turn of compareDebianVersionStrings takes off a text: a word and a number.
WordLen(s) == PrefixLen(s, LAMBDA c : ~IsDigit(c))
NumberLen(s) == PrefixLen(From(s, WordLen(s) + 1), LAMBDA c : IsDigit(c))
Word(s) == Upto(s, WordLen(s))
Digits(s) == SubSeq(s, WordLen(s) + 1, WordLen(s) + NumberLen(s))
Rest(s) == From(s, WordLen(s) + NumberLen(s) + 1)

LEMMA DebianTurn ==
    ASSUME NEW s \in Seq(Int)
    PROVE  /\ Word(s) \in Seq(Int) /\ Digits(s) \in Seq(Int) /\ Rest(s) \in Seq(Int)
           /\ Len(Rest(s)) \in Nat /\ Len(Rest(s)) <= Len(s)
           /\ s # <<>> => Len(Rest(s)) < Len(s)
           /\ s = <<>> => Word(s) = <<>> /\ Digits(s) = <<>> /\ Rest(s) = <<>>
<1> DEFINE I == {i \in 1..Len(s) : ~~IsDigit(s[i])}
           stop == IF I # {} THEN Min(I) ELSE 0
           n == IF stop = 0 THEN Len(s) ELSE stop - 1
           t == SubSeq(s, n + 1, Len(s))
           J == {i \in 1..Len(t) : ~IsDigit(t[i])}
           end == IF J # {} THEN Min(J) ELSE 0
           m == IF end = 0 THEN Len(t) ELSE end - 1
<1>1. WordLen(s) = n
  BY Zenon DEF WordLen, PrefixLen, SelectInSeq
<1>2. NumberLen(s) = m
  <2>1. From(s, WordLen(s) + 1) = t
    BY <1>1, Zenon DEF From
  <2> HIDE DEF t
  <2> QED BY <2>1, Zenon DEF NumberLen, PrefixLen, SelectInSeq
<1>0. Len(s) \in Nat
  OBVIOUS
<1>3. /\ n \in 0..Len(s)
      /\ n < Len(s) => n + 1 \in I
  <2>1. I \subseteq 1..Len(s)
    OBVIOUS
  <2> HIDE DEF I
  <2> QED BY <2>1, PrefixEnd
<1>4. n < Len(s) => IsDigit(s[n + 1])
  <2> HIDE DEF n
  <2> QED BY <1>3
<1> HIDE DEF n
<1>5. /\ t \in Seq(Int) /\ Len(t) = Len(s) - n
      /\ n < Len(s) => t[1] = s[n + 1]
      /\ SubSeq(s, 1, n) \in Seq(Int)
  BY <1>0, <1>3, TailOf
<1> HIDE DEF t
<1>6. /\ m \in 0..Len(t)
      /\ n < Len(s) => m >= 1
  <2>1. J \subseteq 1..Len(t)
    OBVIOUS
  <2>2. n < Len(s) => 1 \notin J /\ t # <<>>
    <3>1. n < Len(s) => t # <<>>
      BY <1>0, <1>3, <1>5
    <3> QED BY <1>4, <1>5, <3>1
  <2> HIDE DEF J
  <2> QED BY <1>5, <2>1, <2>2, PrefixEnd
<1> HIDE DEF m
<1>7. n + m \in 0..Len(s) /\ n + m \in Nat /\ n \in Nat /\ (Len(s) # 0 => n + m >= 1)
  BY <1>0, <1>3, <1>5, <1>6
<1>8. /\ Word(s) = SubSeq(s, 1, n)
      /\ Digits(s) = SubSeq(s, n + 1, n + m)
      /\ Rest(s) = SubSeq(s, n + m + 1, Len(s))
  BY <1>1, <1>2, Zenon DEF Word, Digits, Rest, Upto, From
<1>9. SubSeq(s, n + 1, n + m) \in Seq(Int)
  <2>1. \A i \in 1..Len(s) : s[i] \in Int
    OBVIOUS
  <2> QED BY <1>0, <1>3, <1>7, <2>1, SubSeqProperties
<1>10. Rest(s) \in Seq(Int) /\ Len(Rest(s)) = Len(s) - (n + m)
  BY <1>7, <1>8, TailOf
<1>11. s # <<>> => Len(s) # 0
  OBVIOUS
<1>12. ASSUME s = <<>> PROVE Word(s) = <<>> /\ Digits(s) = <<>> /\ Rest(s) = <<>>
  <2>1. Len(s) = 0
    BY <1>12
  <2>2. n = 0 /\ n + m = 0
    BY <1>0, <1>3, <1>7, <2>1
  <2>3. SubSeq(s, 1, 0) = <<>>
    BY SubSeqEmpty
  <2>4. 0 + 1 = 1 /\ n + 1 = 1 /\ n + m + 1 = 1
    BY <2>2
  <2> QED BY <1>8, <2>1, <2>2, <2>3, <2>4, Zenon
<1>13. Len(Rest(s)) \in Nat /\ Len(Rest(s)) <= Len(s) /\ (s # <<>> => Len(Rest(s)) < Len(s))
  BY <1>0, <1>7, <1>10, <1>11
<1>14. Word(s) \in Seq(Int) /\ Digits(s) \in Seq(Int)
  BY <1>5, <1>8, <1>9
<1> QED BY <1>10, <1>12, <1>13, <1>14, Zenon

\* The order of what a turn takes off.
TurnOrder(l, r) ==
    IF CompareDebianNonDigit(Word(l), Word(r)) # 0 THEN CompareDebianNonDigit(Word(l), Word(r))
    ELSE CompareNumerals(Digits(l), Digits(r))
DebianLoop(h) ==
    h = [t \in Pairs |->
            IF t[1] = <<>> /\ t[2] = <<>> THEN 0
            ELSE IF CompareDebianNonDigit(Word(t[1]), Word(t[2])) # 0
                 THEN CompareDebianNonDigit(Word(t[1]), Word(t[2]))
            ELSE IF CompareDebianDigit(Digits(t[1]), Digits(t[2])) # 0
                 THEN CompareDebianDigit(Digits(t[1]), Digits(t[2]))
            ELSE h[<<Rest(t[1]), Rest(t[2])>>]]

\* The loop ends, so that it has a value.
LEMMA DebianLoopExists == \E h : DebianLoop(h)
<1> DEFINE W(t) == CompareDebianNonDigit(Word(t[1]), Word(t[2]))
           D(t) == CompareDebianDigit(Digits(t[1]), Digits(t[2]))
           Over(t) == (t[1] = <<>> /\ t[2] = <<>>) \/ W(t) # 0 \/ D(t) # 0
           Out(t) == IF t[1] = <<>> /\ t[2] = <<>> THEN 0 ELSE IF W(t) # 0 THEN W(t) ELSE D(t)
           Rests(t) == <<Rest(t[1]), Rest(t[2])>>
           Stop == {t \in Pairs : Over(t)}
           base == [t \in Pairs |-> Out(t)]
           rest == [t \in Pairs |-> Rests(t)]
<1>1. ASSUME NEW t \in Pairs PROVE Rests(t) \in Pairs
  <2>1. t[1] \in Seq(Int) /\ t[2] \in Seq(Int)
    BY DEF Pairs
  <2>2. Rest(t[1]) \in Seq(Int) /\ Rest(t[2]) \in Seq(Int)
    BY <2>1, DebianTurn
  <2> QED BY <2>2 DEF Pairs
<1>2. rest \in [Pairs -> Pairs]
  <2> HIDE DEF Rests, Pairs
  <2> QED BY <1>1
<1>3. PICK f : f = [t \in Pairs |-> IF t \in Stop THEN base[t] ELSE f[rest[t]]]
  <2> HIDE DEF Stop, base, rest, Pairs
  <2>1. \E f : IsLoop(f, Pairs, Stop, base, rest)
    BY <1>2, LoopExists, Zenon
  <2> QED BY <2>1, Zenon DEF IsLoop
<1>4. ASSUME NEW t \in Pairs
      PROVE  f[t] = IF Over(t) THEN Out(t) ELSE f[Rests(t)]
  <2>1. /\ t \in Stop <=> Over(t)
        /\ base[t] = Out(t)
        /\ rest[t] = Rests(t)
    <3> HIDE DEF Over, Out, Rests, Pairs
    <3> QED BY <1>4
  <2>2. f[t] = IF t \in Stop THEN base[t] ELSE f[rest[t]]
    <3> HIDE DEF Stop, base, rest, Pairs
    <3> QED BY <1>3, <1>4
  <2> HIDE DEF Stop, base, rest, Over, Out, Rests, Pairs
  <2> QED BY <2>1, <2>2, Zenon
<1> DEFINE body(t) == IF t[1] = <<>> /\ t[2] = <<>> THEN 0
                      ELSE IF W(t) # 0 THEN W(t)
                      ELSE IF D(t) # 0 THEN D(t)
                      ELSE f[Rests(t)]
<1>5. \A t \in Pairs : f[t] = body(t)
  <2> HIDE DEF W, D, Rests, Pairs
  <2> QED BY <1>4, Zenon
<1>6. f = [t \in Pairs |-> f[t]]
  <2> HIDE DEF Stop, base, rest, Pairs
  <2> QED BY <1>3
<1>7. f = [t \in Pairs |-> body(t)]
  <2> HIDE DEF body, Pairs, Stop, base, rest
  <2> QED BY <1>5, <1>6, Zenon
<1>8. DebianLoop(f)
  <2> HIDE DEF Stop, base, rest, Pairs
  <2> QED BY <1>7, Zenon DEF DebianLoop
<1> HIDE DEF Stop, base, rest, Pairs, body
<1> QED BY <1>8, Zenon

\* Nothing is equal to nothing.
LEMMA EmptyTurn == TurnOrder(<<>>, <<>>) = 0
<1>1. <<>> \in Seq(Int)
  OBVIOUS
<1>2. Word(<<>>) = <<>> /\ Digits(<<>>) = <<>>
  BY <1>1, DebianTurn
<1>3. CompareDebianNonDigit(<<>>, <<>>) = 0
  <2>1. \A x : x \in {-1, 0, 1} /\ x = 0 - x => x = 0
    OBVIOUS
  <2> QED BY <1>1, <2>1, WordsOpposite
<1>4. CompareNumerals(<<>>, <<>>) = 0
  <2>1. \A x : x \in {-1, 0, 1} /\ x = 0 - x => x = 0
    OBVIOUS
  <2> QED BY <1>1, <2>1, NumeralsOpposite
<1> QED BY <1>2, <1>3, <1>4, Zenon DEF TurnOrder

\* One turn of the loop.
LEMMA DebianStep ==
    ASSUME NEW p \in Seq(Int), NEW q \in Seq(Int)
    PROVE  /\ CompareDebianVersionStrings(p, q) =
                IF TurnOrder(p, q) # 0 THEN TurnOrder(p, q)
                ELSE CompareDebianVersionStrings(Rest(p), Rest(q))
           /\ p = <<>> /\ q = <<>> => CompareDebianVersionStrings(p, q) = 0
<1> DEFINE h == CHOOSE h : DebianLoop(h)
           w == CompareDebianNonDigit(Word(p), Word(q))
           d == CompareDebianDigit(Digits(p), Digits(q))
<1>1. ASSUME NEW x, NEW y PROVE CompareDebianVersionStrings(x, y) = h[<<x, y>>]
  BY Zenon DEF CompareDebianVersionStrings, DebianLoop, Pairs, Word, Digits, Rest, WordLen, NumberLen,
               PrefixLen, SelectInSeq
<1>2. DebianLoop(h)
  BY DebianLoopExists, Zenon
<1> HIDE DEF h
<1>3. <<p, q>> \in Pairs /\ <<p, q>>[1] = p /\ <<p, q>>[2] = q
  BY DEF Pairs
<1>4. h[<<p, q>>] = IF p = <<>> /\ q = <<>> THEN 0
                    ELSE IF w # 0 THEN w
                    ELSE IF d # 0 THEN d
                    ELSE h[<<Rest(p), Rest(q)>>]
  <2> DEFINE t == <<p, q>>
             body(u) == IF u[1] = <<>> /\ u[2] = <<>> THEN 0
                        ELSE IF CompareDebianNonDigit(Word(u[1]), Word(u[2])) # 0
                             THEN CompareDebianNonDigit(Word(u[1]), Word(u[2]))
                        ELSE IF CompareDebianDigit(Digits(u[1]), Digits(u[2])) # 0
                             THEN CompareDebianDigit(Digits(u[1]), Digits(u[2]))
                        ELSE h[<<Rest(u[1]), Rest(u[2])>>]
  <2>1. h = [u \in Pairs |-> body(u)]
    BY <1>2, Zenon DEF DebianLoop
  <2>2. h[t] = body(t)
    <3> HIDE DEF body, t
    <3> QED BY <1>3, <2>1 DEF t
  <2> QED BY <1>3, <2>2, Zenon
<1>5. h[<<Rest(p), Rest(q)>>] = CompareDebianVersionStrings(Rest(p), Rest(q))
  BY <1>1, Zenon
<1>6. CompareDebianVersionStrings(p, q) = h[<<p, q>>]
  BY <1>1, Zenon
<1>7. TurnOrder(p, q) = IF w # 0 THEN w ELSE d
  BY Zenon DEF TurnOrder, CompareDebianDigit
<1> HIDE DEF w, d
<1>8. CASE p = <<>> /\ q = <<>>
  <2>1. Rest(p) = <<>> /\ Rest(q) = <<>>
    BY <1>8, DebianTurn
  <2>2. CompareDebianVersionStrings(p, q) = 0
    BY <1>4, <1>6, <1>8, Zenon
  <2>3. TurnOrder(p, q) = 0
    BY <1>8, EmptyTurn, Zenon
  <2> QED BY <1>8, <2>1, <2>2, <2>3, Zenon
<1>9. CASE ~(p = <<>> /\ q = <<>>)
  BY <1>4, <1>5, <1>6, <1>7, <1>9, Zenon
<1> QED BY <1>8, <1>9

\* The order of what a turn takes off: it turns around, and is transitive.
LEMMA TurnsOpposite ==
    ASSUME NEW l \in Seq(Int), NEW r \in Seq(Int)
    PROVE  /\ TurnOrder(l, r) \in {-1, 0, 1}
           /\ TurnOrder(r, l) = 0 - TurnOrder(l, r)
<1>1. /\ Word(l) \in Seq(Int) /\ Word(r) \in Seq(Int)
      /\ Digits(l) \in Seq(Int) /\ Digits(r) \in Seq(Int)
  BY DebianTurn
<1> DEFINE W(x, y) == CompareDebianNonDigit(Word(x), Word(y))
           D(x, y) == CompareNumerals(Digits(x), Digits(y))
<1>2. W(l, r) \in {-1, 0, 1} /\ W(r, l) = 0 - W(l, r)
  BY <1>1, WordsOpposite
<1>3. D(l, r) \in {-1, 0, 1} /\ D(r, l) = 0 - D(l, r)
  BY <1>1, NumeralsOpposite
<1>4. /\ TurnOrder(l, r) = IF W(l, r) # 0 THEN W(l, r) ELSE D(l, r)
      /\ TurnOrder(r, l) = IF W(r, l) # 0 THEN W(r, l) ELSE D(r, l)
  BY Zenon DEF TurnOrder
<1> HIDE DEF W, D
<1> QED BY <1>2, <1>3, <1>4

LEMMA TurnsTransitive ==
    ASSUME NEW l \in Seq(Int), NEW m \in Seq(Int), NEW r \in Seq(Int),
           TurnOrder(l, m) <= 0, TurnOrder(m, r) <= 0
    PROVE  TurnOrder(l, r) <= 0
<1>1. \A x \in {l, m, r} : Word(x) \in Seq(Int) /\ Digits(x) \in Seq(Int)
  BY DebianTurn
<1> DEFINE W(x, y) == CompareDebianNonDigit(Word(x), Word(y))
           D(x, y) == CompareNumerals(Digits(x), Digits(y))
<1>2. \A x, y \in {l, m, r} : /\ W(x, y) \in {-1, 0, 1} /\ W(y, x) = 0 - W(x, y)
                              /\ D(x, y) \in {-1, 0, 1} /\ D(y, x) = 0 - D(x, y)
  BY <1>1, WordsOpposite, NumeralsOpposite
<1>3. \A x, y, z \in {l, m, r} : /\ W(x, y) <= 0 /\ W(y, z) <= 0 => W(x, z) <= 0
                                 /\ D(x, y) <= 0 /\ D(y, z) <= 0 => D(x, z) <= 0
  BY <1>1, WordsTransitive, NumeralsTransitive
<1>4. \A x, y : TurnOrder(x, y) = IF W(x, y) # 0 THEN W(x, y) ELSE D(x, y)
  BY Zenon DEF TurnOrder
<1> HIDE DEF W, D
<1>5. W(l, m) <= 0 /\ W(m, r) <= 0
  <2>1. TurnOrder(l, m) = IF W(l, m) # 0 THEN W(l, m) ELSE D(l, m)
    BY <1>4, Zenon
  <2>2. TurnOrder(m, r) = IF W(m, r) # 0 THEN W(m, r) ELSE D(m, r)
    BY <1>4, Zenon
  <2> QED BY <2>1, <2>2
<1>6. W(l, r) <= 0
  BY <1>3, <1>5
<1>7. CASE W(l, r) # 0
  BY <1>4, <1>6, <1>7
<1>8. CASE W(l, r) = 0
  <2>1. W(r, l) <= 0
    BY <1>2, <1>8
  <2>2. W(r, m) <= 0 /\ W(m, l) <= 0
    BY <1>3, <1>5, <2>1
  <2>3. W(l, m) = 0 /\ W(m, r) = 0
    BY <1>2, <1>5, <2>2
  <2>4. D(l, m) <= 0 /\ D(m, r) <= 0
    BY <1>4, <2>3
  <2>5. D(l, r) <= 0
    BY <1>3, <2>4
  <2> QED BY <1>4, <1>8, <2>5
<1> QED BY <1>7, <1>8

LEMMA TurnsBetween ==
    ASSUME NEW l \in Seq(Int), NEW m \in Seq(Int), NEW r \in Seq(Int),
           TurnOrder(l, m) <= 0, TurnOrder(m, r) <= 0, TurnOrder(l, r) = 0
    PROVE  TurnOrder(l, m) = 0 /\ TurnOrder(m, r) = 0
<1>1. TurnOrder(r, l) = 0
  BY TurnsOpposite
<1>2. TurnOrder(r, m) <= 0 /\ TurnOrder(m, l) <= 0
  BY <1>1, TurnsTransitive
<1>3. /\ TurnOrder(l, m) \in {-1, 0, 1} /\ TurnOrder(m, l) = 0 - TurnOrder(l, m)
      /\ TurnOrder(m, r) \in {-1, 0, 1} /\ TurnOrder(r, m) = 0 - TurnOrder(m, r)
  BY TurnsOpposite
<1> QED BY <1>2, <1>3

\* The loop turns around with its arguments.
LEMMA DebianOpposite ==
    ASSUME NEW p \in Seq(Int), NEW q \in Seq(Int)
    PROVE  /\ CompareDebianVersionStrings(p, q) \in {-1, 0, 1}
           /\ CompareDebianVersionStrings(q, p) = 0 - CompareDebianVersionStrings(p, q)
<1> DEFINE C(x, y) == CompareDebianVersionStrings(x, y)
           Good(x, y) == C(x, y) \in {-1, 0, 1} /\ C(y, x) = 0 - C(x, y)
           Bad == {n \in Nat : \E x, y \in Seq(Int) : n = Len(x) + Len(y) /\ ~Good(x, y)}
<1>1. ASSUME NEW x \in Seq(Int), NEW y \in Seq(Int), \A n \in Bad : Len(x) + Len(y) <= n
      PROVE  Good(x, y)
  <2>1. /\ C(x, y) = IF TurnOrder(x, y) # 0 THEN TurnOrder(x, y) ELSE C(Rest(x), Rest(y))
        /\ C(y, x) = IF TurnOrder(y, x) # 0 THEN TurnOrder(y, x) ELSE C(Rest(y), Rest(x))
        /\ x = <<>> /\ y = <<>> => C(x, y) = 0 /\ C(y, x) = 0
    BY DebianStep, Zenon
  <2>2. /\ Rest(x) \in Seq(Int) /\ Len(Rest(x)) \in Nat /\ Len(Rest(x)) <= Len(x)
        /\ x # <<>> => Len(Rest(x)) < Len(x)
        /\ Rest(y) \in Seq(Int) /\ Len(Rest(y)) \in Nat /\ Len(Rest(y)) <= Len(y)
        /\ y # <<>> => Len(Rest(y)) < Len(y)
    BY DebianTurn
  <2>3. TurnOrder(x, y) \in {-1, 0, 1} /\ TurnOrder(y, x) = 0 - TurnOrder(x, y)
    BY TurnsOpposite
  <2>4. Len(x) \in Nat /\ Len(y) \in Nat
    OBVIOUS
  <2>5. CASE x = <<>> /\ y = <<>>
    <3> HIDE DEF C
    <3> QED BY <2>1, <2>5
  <2>6. CASE ~(x = <<>> /\ y = <<>>) /\ TurnOrder(x, y) = 0
    <3>1. Len(Rest(x)) + Len(Rest(y)) < Len(x) + Len(y) /\ Len(Rest(x)) + Len(Rest(y)) \in Nat
      BY <2>2, <2>4, <2>6
    <3>2. Len(Rest(x)) + Len(Rest(y)) \notin Bad
      <4> HIDE DEF Bad
      <4> QED BY <1>1, <2>4, <3>1
    <3>3. Good(Rest(x), Rest(y))
      <4> HIDE DEF Good
      <4> QED BY <2>2, <3>1, <3>2
    <3>4. TurnOrder(y, x) = 0
      BY <2>3, <2>6
    <3>5. C(x, y) = C(Rest(x), Rest(y)) /\ C(y, x) = C(Rest(y), Rest(x))
      BY <2>1, <2>6, <3>4, Zenon
    <3> HIDE DEF C
    <3> QED BY <3>3, <3>5
  <2>7. CASE TurnOrder(x, y) # 0
    <3>1. TurnOrder(y, x) # 0
      BY <2>3, <2>7
    <3>2. C(x, y) = TurnOrder(x, y) /\ C(y, x) = TurnOrder(y, x)
      BY <2>1, <2>7, <3>1, Zenon
    <3> HIDE DEF C
    <3> QED BY <2>3, <3>2
  <2> QED BY <2>5, <2>6, <2>7
<1> HIDE DEF Good
<1>2. Bad = {}
  <2> SUFFICES ASSUME Bad # {} PROVE FALSE
    OBVIOUS
  <2>1. Bad \subseteq Nat
    OBVIOUS
  <2>2. PICK k \in Bad : \A n \in Bad : k <= n
    <3> HIDE DEF Bad
    <3> QED BY <2>1, SmallestIn
  <2>3. PICK x \in Seq(Int), y \in Seq(Int) : k = Len(x) + Len(y) /\ ~Good(x, y)
    OBVIOUS
  <2> HIDE DEF Bad
  <2> QED BY <1>1, <2>2, <2>3
<1>3. Good(p, q)
  <2>1. Len(p) + Len(q) \in Nat
    OBVIOUS
  <2> QED BY <1>2, <2>1
<1> QED BY <1>3 DEF Good

\* And it is transitive.
LEMMA DebianTransitive ==
    ASSUME NEW p \in Seq(Int), NEW q \in Seq(Int), NEW s \in Seq(Int),
           CompareDebianVersionStrings(p, q) <= 0, CompareDebianVersionStrings(q, s) <= 0
    PROVE  CompareDebianVersionStrings(p, s) <= 0
<1> DEFINE C(x, y) == CompareDebianVersionStrings(x, y)
           Good(x, y, z) == C(x, y) <= 0 /\ C(y, z) <= 0 => C(x, z) <= 0
           Size(x, y, z) == Len(x) + Len(y) + Len(z)
           Bad == {n \in Nat : \E x, y, z \in Seq(Int) : n = Size(x, y, z) /\ ~Good(x, y, z)}
<1>1. ASSUME NEW x \in Seq(Int), NEW y \in Seq(Int), NEW z \in Seq(Int), \A n \in Bad : Size(x, y, z) <= n,
             C(x, y) <= 0, C(y, z) <= 0
      PROVE  C(x, z) <= 0
  <2>1. /\ C(x, y) = IF TurnOrder(x, y) # 0 THEN TurnOrder(x, y) ELSE C(Rest(x), Rest(y))
        /\ C(y, z) = IF TurnOrder(y, z) # 0 THEN TurnOrder(y, z) ELSE C(Rest(y), Rest(z))
        /\ C(x, z) = IF TurnOrder(x, z) # 0 THEN TurnOrder(x, z) ELSE C(Rest(x), Rest(z))
        /\ x = <<>> /\ z = <<>> => C(x, z) = 0
    BY DebianStep, Zenon
  <2>2. /\ Rest(x) \in Seq(Int) /\ Len(Rest(x)) \in Nat /\ Len(Rest(x)) <= Len(x)
        /\ x # <<>> => Len(Rest(x)) < Len(x)
    BY DebianTurn
  <2>3. /\ Rest(y) \in Seq(Int) /\ Len(Rest(y)) \in Nat /\ Len(Rest(y)) <= Len(y)
    BY DebianTurn
  <2>4. /\ Rest(z) \in Seq(Int) /\ Len(Rest(z)) \in Nat /\ Len(Rest(z)) <= Len(z)
        /\ z # <<>> => Len(Rest(z)) < Len(z)
    BY DebianTurn
  <2>5. Len(x) \in Nat /\ Len(y) \in Nat /\ Len(z) \in Nat
    OBVIOUS
  <2>6. CASE x = <<>> /\ z = <<>>
    <3> HIDE DEF C
    <3> QED BY <2>1, <2>6
  <2>7. CASE ~(x = <<>> /\ z = <<>>)
    <3>1. TurnOrder(x, y) <= 0 /\ TurnOrder(y, z) <= 0
      <4> HIDE DEF C
      <4> QED BY <1>1, <2>1
    <3>2. TurnOrder(x, z) <= 0
      BY <3>1, TurnsTransitive
    <3>3. CASE TurnOrder(x, z) # 0
      <4> HIDE DEF C
      <4> QED BY <2>1, <3>2, <3>3
    <3>4. CASE TurnOrder(x, z) = 0
      <4>1. TurnOrder(x, y) = 0 /\ TurnOrder(y, z) = 0
        BY <3>1, <3>4, TurnsBetween
      <4>2. /\ C(x, y) = C(Rest(x), Rest(y)) /\ C(y, z) = C(Rest(y), Rest(z))
            /\ C(x, z) = C(Rest(x), Rest(z))
        BY <2>1, <3>4, <4>1, Zenon
      <4> DEFINE n == Size(Rest(x), Rest(y), Rest(z))
      <4>3. n \in Nat /\ Size(x, y, z) \in Nat /\ n < Size(x, y, z)
        BY <2>2, <2>3, <2>4, <2>5, <2>7
      <4> HIDE DEF Size
      <4>4. n \notin Bad
        <5> HIDE DEF Bad, n
        <5> QED BY <1>1, <4>3
      <4>5. Good(Rest(x), Rest(y), Rest(z))
        <5> HIDE DEF Good
        <5> QED BY <2>2, <2>3, <2>4, <4>3, <4>4
      <4> HIDE DEF C
      <4> QED BY <1>1, <4>2, <4>5
    <3> QED BY <3>3, <3>4
  <2> QED BY <2>6, <2>7
<1> HIDE DEF C
<1>2. Bad = {}
  <2> SUFFICES ASSUME Bad # {} PROVE FALSE
    OBVIOUS
  <2>1. Bad \subseteq Nat
    OBVIOUS
  <2>2. PICK k \in Bad : \A n \in Bad : k <= n
    <3> HIDE DEF Bad
    <3> QED BY <2>1, SmallestIn
  <2>3. PICK x \in Seq(Int), y \in Seq(Int), z \in Seq(Int) : k = Size(x, y, z) /\ ~Good(x, y, z)
    <3> HIDE DEF Good, Size
    <3> QED OBVIOUS
  <2> HIDE DEF Bad, Size
  <2>4. Good(x, y, z)
    BY <1>1, <2>2, <2>3
  <2> QED BY <2>3, <2>4
<1>3. Good(p, q, s)
  <2>1. Size(p, q, s) \in Nat
    OBVIOUS
  <2> HIDE DEF Good, Size
  <2> QED BY <1>2, <2>1
<1> QED BY <1>3 DEF C

\* CompareDebianEVR orders all Debian versions: of two, one is not above the other, and what is
\* not above a version is not above one that is not below that one (compareDebianEVR).
THEOREM DebianOrder ==
    ASSUME NEW e \in EVRSet, NEW f \in EVRSet, NEW g \in EVRSet
    PROVE  /\ CompareDebianEVR(e, f) \in {-1, 0, 1}
           /\ CompareDebianEVR(f, e) = 0 - CompareDebianEVR(e, f)
           /\ CompareDebianEVR(e, f) <= 0 /\ CompareDebianEVR(f, g) <= 0 => CompareDebianEVR(e, g) <= 0
<1> DEFINE V(x, y) == CompareDebianVersionStrings(x.version, y.version)
           R(x, y) == CompareDebianVersionStrings(x.release, y.release)
           Order(x, y) == IF x.epoch # y.epoch THEN Sign(x.epoch, y.epoch)
                          ELSE IF V(x, y) # 0 THEN V(x, y) ELSE R(x, y)
<1>1. \A x, y : CompareDebianEVR(x, y) = Order(x, y)
  BY Zenon DEF CompareDebianEVR
<1>2. \A x \in EVRSet : x.epoch \in Int /\ x.version \in Seq(Int) /\ x.release \in Seq(Int)
  BY DEF EVRSet
<1>3. \A x, y \in EVRSet : /\ V(x, y) \in {-1, 0, 1} /\ V(y, x) = 0 - V(x, y)
                           /\ R(x, y) \in {-1, 0, 1} /\ R(y, x) = 0 - R(x, y)
  BY <1>2, DebianOpposite
<1>4. \A x, y, z \in EVRSet : /\ V(x, y) <= 0 /\ V(y, z) <= 0 => V(x, z) <= 0
                              /\ R(x, y) <= 0 /\ R(y, z) <= 0 => R(x, z) <= 0
  BY <1>2, DebianTransitive
<1> HIDE DEF V, R
<1>5. /\ Order(e, f) \in {-1, 0, 1}
      /\ Order(f, e) = 0 - Order(e, f)
  BY <1>2, <1>3, SignLaws
<1>6. ASSUME Order(e, f) <= 0, Order(f, g) <= 0 PROVE Order(e, g) <= 0
  <2>1. e.epoch \in Int /\ f.epoch \in Int /\ g.epoch \in Int
    BY <1>2
  <2>2. e.epoch <= f.epoch /\ f.epoch <= g.epoch
    BY <1>6, <2>1, SignLaws
  <2>3. CASE e.epoch # g.epoch
    BY <2>1, <2>2, <2>3, SignLaws
  <2>4. CASE e.epoch = g.epoch
    <3>1. e.epoch = f.epoch /\ f.epoch = g.epoch
      BY <2>1, <2>2, <2>4
    <3>2. V(e, f) <= 0 /\ V(f, g) <= 0
      BY <1>3, <1>6, <3>1
    <3>3. V(e, g) <= 0
      BY <1>4, <3>2
    <3>4. CASE V(e, g) # 0
      BY <3>1, <3>3, <3>4
    <3>5. CASE V(e, g) = 0
      <4>1. V(g, e) <= 0
        BY <1>3, <3>5
      <4>2. V(g, f) <= 0 /\ V(f, e) <= 0
        BY <1>4, <3>2, <4>1
      <4>3. V(e, f) = 0 /\ V(f, g) = 0
        BY <1>3, <3>2, <4>2
      <4>4. R(e, f) <= 0 /\ R(f, g) <= 0
        BY <1>6, <3>1, <4>3
      <4>5. R(e, g) <= 0
        BY <1>4, <4>4
      <4> QED BY <3>1, <3>5, <4>5
    <3> QED BY <3>4, <3>5
  <2> QED BY <2>3, <2>4
<1> HIDE DEF Order
<1> QED BY <1>1, <1>5, <1>6
=============================================================================
