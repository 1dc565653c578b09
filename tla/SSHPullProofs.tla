-------------------------- MODULE SSHPullProofs --------------------------
(***************************************************************************)
(* Proofs about SSHPull, for any number of requests and pulls and any      *)
(* bounds.  PullInv is inductive; the theorems read the properties off it. *)
(***************************************************************************)
EXTENDS SSHPull, TLAPS

\* The four parts that speak of the requests and the schedule.
RequestInv == LockInv /\ AloneInv /\ KnowsInv /\ ScheduleInv

\* The idle request and the idle pull are well formed.
LEMMA RecordTypes == NoRequest \in Request /\ NoPull \in Pull
BY SSHPullAssumption DEF NoRequest, Request, NoPull, Pull

\* Nothing exists at the start.
LEMMA InitInv == Init => PullInv
<1> SUFFICES ASSUME Init PROVE PullInv
  OBVIOUS
<1>1. TypeOK
  <2>1. NoRequest \in Request /\ NoPull \in Pull
    BY RecordTypes
  <2>2. req \in [Handlers -> Request] /\ pull \in [Pullers -> Pull]
    BY <2>1 DEF Init
  <2>3. /\ sched \in 0..MaxFreq /\ retryable \in 0..MaxRetryable /\ os \in 0..MaxOS
        /\ snap \in 0..MaxOS /\ failures \in 0..MaxFailures
    BY SSHPullAssumption DEF Init, NoJob
  <2>4. row \in [status : {"absent", "created", "onboarded", "deleted"}, freq : 0..MaxFreq]
    BY SSHPullAssumption DEF Init
  <2>5. /\ hostLock \in Handlers \cup {None} /\ calm \in BOOLEAN
        /\ job \in {"none", "available", "running", "orphaned"}
        /\ left \in BOOLEAN /\ alone \in BOOLEAN
    BY DEF Init
  <2> QED BY <2>2, <2>3, <2>4, <2>5 DEF TypeOK
<1>2. LockInv /\ AloneInv /\ KnowsInv
  BY SSHPullAssumption
  DEF Init, LockInv, AloneInv, KnowsInv, NoRequest, Updating, Onboarding, Present
<1>3. ScheduleInv /\ RowsInv /\ VersionInv
  BY DEF Init, ScheduleInv, RowsInv, VersionInv, Expected, NoJob, NoPull, Present
<1> QED BY <1>1, <1>2, <1>3 DEF PullInv

\* A step of River or of a pull does not touch what RequestInv speaks of ...
LEMMA HostFrame == ASSUME PullInv, UNCHANGED hostVars PROVE RequestInv'
BY DEF PullInv, RequestInv, hostVars, LockInv, AloneInv, KnowsInv, ScheduleInv, Behind,
       Expected, Present, Others

\* ... and a step of a request that deletes nothing does not touch the pulls.
LEMMA PullFrame ==
    ASSUME PullInv, UNCHANGED <<pull, os, snap, left, alone>>,
           row.status # "deleted" \/ row' = row, Present => Present'
    PROVE  RowsInv' /\ VersionInv'
BY DEF PullInv, RowsInv, VersionInv, Present

\* One more failure is within the bound.
LEMMA FailingType == ASSUME PullInv, Failing PROVE failures' \in 0..MaxFailures
BY SSHPullAssumption DEF PullInv, TypeOK, Failing

\* What may be scheduled is a frequency or nothing.
LEMMA AfterErrorType ==
    ASSUME NEW s \in 0..MaxFreq, NEW f \in 0..MaxFreq
    PROVE  AfterError(s, f) \subseteq 0..MaxFreq
BY SSHPullAssumption DEF AfterError, NoJob

\* CreateSSHHost inserts the rows; nothing is scheduled yet.
LEMMA CreateSSHHostInv ==
    ASSUME PullInv, NEW f \in Freqs, CreateSSHHost(f)
    PROVE  PullInv'
<1>0. calm' \in BOOLEAN /\ (calm' => calm)
  BY Zenon DEF CreateSSHHost, PullInv, TypeOK
<1>1. TypeOK'
  <2>1. req' \in [Handlers -> Request]
    BY RecordTypes, SSHPullAssumption
    DEF CreateSSHHost, PullInv, TypeOK, Request, Freqs, Updating, Onboarding
  <2>2. row' \in [status : {"absent", "created", "onboarded", "deleted"}, freq : 0..MaxFreq]
    BY SSHPullAssumption DEF CreateSSHHost, PullInv, TypeOK, Freqs, Request
  <2>3. /\ sched' \in 0..MaxFreq /\ hostLock' \in Handlers \cup {None}
        /\ job' \in {"none", "available", "running", "orphaned"}
        /\ failures' \in 0..MaxFailures
    BY SSHPullAssumption, FailingType, AfterErrorType
    DEF CreateSSHHost, PullInv, TypeOK, Request, pullVars
  <2>4. UNCHANGED <<retryable, pull, os, snap, left, alone>>
    BY DEF CreateSSHHost, pullVars
  <2> QED BY <1>0, <2>1, <2>2, <2>3, <2>4 DEF PullInv, TypeOK
<1>2. LockInv'
  BY SSHPullAssumption DEF CreateSSHHost, PullInv, TypeOK, LockInv, Present, Updating
<1>3. AloneInv'
  BY <1>0, SSHPullAssumption
  DEF CreateSSHHost, PullInv, TypeOK, LockInv, AloneInv, Others, Updating, Onboarding
<1>4. KnowsInv'
  BY <1>0, SSHPullAssumption
  DEF CreateSSHHost, PullInv, TypeOK, LockInv, AloneInv, KnowsInv, Others, Updating,
      Onboarding, Present
<1>5. ScheduleInv'
  BY <1>0, SSHPullAssumption
  DEF CreateSSHHost, PullInv, TypeOK, LockInv, AloneInv, KnowsInv, ScheduleInv, Behind,
      Expected, Others, Updating, Onboarding, Present, NoJob
<1>6. RowsInv' /\ VersionInv'
  BY PullFrame DEF CreateSSHHost, PullInv, TypeOK, LockInv, pullVars, Present, Updating
<1> QED BY <1>1, <1>2, <1>3, <1>4, <1>5, <1>6 DEF PullInv

\* An onboarding that starts beside another request ends the calm.
LEMMA ReadOnboardInv ==
    ASSUME PullInv, NEW h \in Handlers, ReadOnboard(h)
    PROVE  PullInv'
<1>0. calm' \in BOOLEAN /\ (calm' => calm /\ \A g \in Others(h) : req[g].pc = "idle")
  BY Zenon DEF ReadOnboard, PullInv, TypeOK
<1>1. TypeOK'
  <2>1. req' \in [Handlers -> Request]
    BY RecordTypes, SSHPullAssumption
    DEF ReadOnboard, PullInv, TypeOK, Request, NoRequest, Updating, Onboarding
  <2>2. row' \in [status : {"absent", "created", "onboarded", "deleted"}, freq : 0..MaxFreq]
    BY SSHPullAssumption DEF ReadOnboard, PullInv, TypeOK, Request
  <2>3. /\ sched' \in 0..MaxFreq /\ hostLock' \in Handlers \cup {None}
        /\ job' \in {"none", "available", "running", "orphaned"}
        /\ failures' \in 0..MaxFailures
    BY SSHPullAssumption, FailingType, AfterErrorType
    DEF ReadOnboard, PullInv, TypeOK, Request, pullVars
  <2>4. UNCHANGED <<retryable, pull, os, snap, left, alone>>
    BY DEF ReadOnboard, pullVars
  <2> QED BY <1>0, <2>1, <2>2, <2>3, <2>4 DEF PullInv, TypeOK
<1>2. LockInv'
  BY SSHPullAssumption
  DEF ReadOnboard, PullInv, TypeOK, LockInv, Present, Updating, NoRequest, Others
<1>3. AloneInv'
  BY <1>0, SSHPullAssumption
  DEF ReadOnboard, PullInv, TypeOK, LockInv, AloneInv, Others, Updating, Onboarding,
      NoRequest
<1>4. KnowsInv'
  BY <1>0, SSHPullAssumption
  DEF ReadOnboard, PullInv, TypeOK, LockInv, AloneInv, KnowsInv, Others, Updating,
      Onboarding, NoRequest, Present
<1>5. ScheduleInv'
  BY <1>0, SSHPullAssumption
  DEF ReadOnboard, PullInv, TypeOK, LockInv, AloneInv, KnowsInv, ScheduleInv, Behind,
      Expected, Others, Updating, Onboarding, NoRequest, Present, NoJob
<1>6. RowsInv' /\ VersionInv'
  BY PullFrame DEF ReadOnboard, PullInv, TypeOK, LockInv, pullVars, Present, Updating
<1> QED BY <1>1, <1>2, <1>3, <1>4, <1>5, <1>6 DEF PullInv

\* Alone, an onboarding finds the row it has read.
LEMMA SetOnboardedInv ==
    ASSUME PullInv, NEW h \in Handlers, SetOnboarded(h)
    PROVE  PullInv'
<1>0. calm' \in BOOLEAN /\ (calm' => calm)
  BY Zenon DEF SetOnboarded, PullInv, TypeOK
<1>1. TypeOK'
  <2>1. req' \in [Handlers -> Request]
    BY RecordTypes, SSHPullAssumption
    DEF SetOnboarded, PullInv, TypeOK, Request, Updating, Onboarding
  <2>2. row' \in [status : {"absent", "created", "onboarded", "deleted"}, freq : 0..MaxFreq]
    BY SSHPullAssumption DEF SetOnboarded, PullInv, TypeOK, Request
  <2>3. /\ sched' \in 0..MaxFreq /\ hostLock' \in Handlers \cup {None}
        /\ job' \in {"none", "available", "running", "orphaned"}
        /\ failures' \in 0..MaxFailures
    BY SSHPullAssumption, FailingType, AfterErrorType
    DEF SetOnboarded, PullInv, TypeOK, Request, pullVars
  <2>4. UNCHANGED <<retryable, pull, os, snap, left, alone>>
    BY DEF SetOnboarded, pullVars
  <2> QED BY <1>0, <2>1, <2>2, <2>3, <2>4 DEF PullInv, TypeOK
<1>2. LockInv'
  BY SSHPullAssumption
  DEF SetOnboarded, PullInv, TypeOK, LockInv, Present, Updating, Others
<1>3. AloneInv'
  BY <1>0, SSHPullAssumption
  DEF SetOnboarded, PullInv, TypeOK, LockInv, AloneInv, Others, Updating, Onboarding
<1>4. KnowsInv'
  BY <1>0, SSHPullAssumption
  DEF SetOnboarded, PullInv, TypeOK, LockInv, AloneInv, KnowsInv, Others, Updating,
      Onboarding, Present
<1>5. ScheduleInv'
  BY <1>0, SSHPullAssumption
  DEF SetOnboarded, PullInv, TypeOK, LockInv, AloneInv, KnowsInv, ScheduleInv, Behind,
      Expected, Others, Updating, Onboarding, Present, NoJob
<1>6. RowsInv' /\ VersionInv'
  BY PullFrame DEF SetOnboarded, PullInv, TypeOK, LockInv, pullVars, Present, Updating
<1> QED BY <1>1, <1>2, <1>3, <1>4, <1>5, <1>6 DEF PullInv

\* The frequency that was read is the row's.
LEMMA AddPullJobInv ==
    ASSUME PullInv, NEW h \in Handlers, AddPullJob(h)
    PROVE  PullInv'
<1>0. calm' \in BOOLEAN /\ (calm' => calm /\ sched' = req[h].freq)
  <2>1. (calm' = calm /\ sched' = req[h].freq) \/ calm' = FALSE
    BY DEF AddPullJob
  <2>2. calm \in BOOLEAN
    BY DEF PullInv, TypeOK
  <2>3. CASE calm' = FALSE
    BY <2>3
  <2> QED BY <2>1, <2>2, <2>3
<1>1. TypeOK'
  <2>1. req' \in [Handlers -> Request]
    BY RecordTypes, SSHPullAssumption
    DEF AddPullJob, PullInv, TypeOK, Request, NoRequest, Updating, Onboarding
  <2>2. row' \in [status : {"absent", "created", "onboarded", "deleted"}, freq : 0..MaxFreq]
    BY SSHPullAssumption DEF AddPullJob, PullInv, TypeOK, Request
  <2>3. /\ sched' \in 0..MaxFreq /\ hostLock' \in Handlers \cup {None}
        /\ job' \in {"none", "available", "running", "orphaned"}
        /\ failures' \in 0..MaxFailures
    BY SSHPullAssumption, FailingType, AfterErrorType
    DEF AddPullJob, PullInv, TypeOK, Request, Enqueued
  <2>4. UNCHANGED <<retryable, pull, os, snap, left, alone>>
    BY DEF AddPullJob
  <2> QED BY <1>0, <2>1, <2>2, <2>3, <2>4 DEF PullInv, TypeOK
<1>2. LockInv'
  BY SSHPullAssumption
  DEF AddPullJob, PullInv, TypeOK, LockInv, Present, Updating, NoRequest
<1>3. AloneInv'
  BY <1>0, SSHPullAssumption
  DEF AddPullJob, PullInv, TypeOK, LockInv, AloneInv, Others, Updating, Onboarding,
      NoRequest
<1>4. KnowsInv'
  BY <1>0, SSHPullAssumption
  DEF AddPullJob, PullInv, TypeOK, LockInv, AloneInv, KnowsInv, Others, Updating,
      Onboarding, NoRequest, Present
<1>5. ScheduleInv'
  BY <1>0, SSHPullAssumption
  DEF AddPullJob, PullInv, TypeOK, LockInv, AloneInv, KnowsInv, ScheduleInv, Behind,
      Expected, Others, Updating, Onboarding, NoRequest, Present, NoJob
<1>6. RowsInv' /\ VersionInv'
  BY PullFrame DEF AddPullJob, PullInv, TypeOK, LockInv, Present, Updating
<1> QED BY <1>1, <1>2, <1>3, <1>4, <1>5, <1>6 DEF PullInv

\* The lock excludes another update and a deletion.
LEMMA LockForUpdateInv ==
    ASSUME PullInv, NEW h \in Handlers, LockForUpdate(h)
    PROVE  PullInv'
<1>0. /\ calm' \in BOOLEAN
      /\ calm' => calm /\ \A g \in Others(h) : req[g].pc \notin Onboarding \cup {"restore"}
  BY Zenon DEF LockForUpdate, PullInv, TypeOK
<1>1. TypeOK'
  <2>1. req' \in [Handlers -> Request]
    BY RecordTypes, SSHPullAssumption
    DEF LockForUpdate, PullInv, TypeOK, Request, NoRequest, Updating, Onboarding
  <2>2. row' \in [status : {"absent", "created", "onboarded", "deleted"}, freq : 0..MaxFreq]
    BY SSHPullAssumption DEF LockForUpdate, PullInv, TypeOK, Request
  <2>3. /\ sched' \in 0..MaxFreq /\ hostLock' \in Handlers \cup {None}
        /\ job' \in {"none", "available", "running", "orphaned"}
        /\ failures' \in 0..MaxFailures
    BY SSHPullAssumption, FailingType, AfterErrorType
    DEF LockForUpdate, PullInv, TypeOK, Request, pullVars
  <2>4. UNCHANGED <<retryable, pull, os, snap, left, alone>>
    BY DEF LockForUpdate, pullVars
  <2> QED BY <1>0, <2>1, <2>2, <2>3, <2>4 DEF PullInv, TypeOK
<1>2. LockInv'
  BY SSHPullAssumption
  DEF LockForUpdate, PullInv, TypeOK, LockInv, Present, Updating, Onboarding, NoRequest,
      Others, LockFree
<1>3. AloneInv'
  BY <1>0, SSHPullAssumption
  DEF LockForUpdate, PullInv, TypeOK, LockInv, AloneInv, Others, Updating, Onboarding,
      NoRequest
<1>4. KnowsInv'
  BY <1>0, SSHPullAssumption
  DEF LockForUpdate, PullInv, TypeOK, LockInv, AloneInv, KnowsInv, Others, Updating,
      Onboarding, NoRequest, Present, LockFree
<1>5. ScheduleInv'
  BY <1>0, SSHPullAssumption
  DEF LockForUpdate, PullInv, TypeOK, LockInv, AloneInv, KnowsInv, ScheduleInv, Behind,
      Expected, Others, Updating, Onboarding, NoRequest, Present, NoJob, LockFree
<1>6. RowsInv' /\ VersionInv'
  BY PullFrame DEF LockForUpdate, PullInv, TypeOK, LockInv, pullVars, Present, Updating
<1> QED BY <1>1, <1>2, <1>3, <1>4, <1>5, <1>6 DEF PullInv

\* Under the lock the configuration stays as it was read.
LEMMA ReadConfigInv ==
    ASSUME PullInv, NEW h \in Handlers, ReadConfig(h)
    PROVE  PullInv'
<1>0. calm' \in BOOLEAN /\ (calm' => calm)
  BY Zenon DEF ReadConfig, PullInv, TypeOK
<1>1. TypeOK'
  <2>1. req' \in [Handlers -> Request]
    BY RecordTypes, SSHPullAssumption
    DEF ReadConfig, PullInv, TypeOK, Request, Updating, Onboarding
  <2>2. row' \in [status : {"absent", "created", "onboarded", "deleted"}, freq : 0..MaxFreq]
    BY SSHPullAssumption DEF ReadConfig, PullInv, TypeOK, Request
  <2>3. /\ sched' \in 0..MaxFreq /\ hostLock' \in Handlers \cup {None}
        /\ job' \in {"none", "available", "running", "orphaned"}
        /\ failures' \in 0..MaxFailures
    BY SSHPullAssumption, FailingType, AfterErrorType
    DEF ReadConfig, PullInv, TypeOK, Request, pullVars
  <2>4. UNCHANGED <<retryable, pull, os, snap, left, alone>>
    BY DEF ReadConfig, pullVars
  <2> QED BY <1>0, <2>1, <2>2, <2>3, <2>4 DEF PullInv, TypeOK
<1>2. LockInv'
  BY SSHPullAssumption DEF ReadConfig, PullInv, TypeOK, LockInv, Present, Updating
<1>3. AloneInv'
  BY <1>0, SSHPullAssumption
  DEF ReadConfig, PullInv, TypeOK, LockInv, AloneInv, Others, Updating, Onboarding
<1>4. KnowsInv'
  <2>1. /\ req'[h].pc = "write" /\ req'[h].freq = row.freq
        /\ req'[h].resched <=> row.status = "onboarded"
        /\ \A g \in Others(h) : req'[g] = req[g]
        /\ UNCHANGED <<row, sched>>
    BY DEF ReadConfig, PullInv, TypeOK, Request, Others
  <2>2. SUFFICES ASSUME calm', NEW g \in Handlers, g # h
                 PROVE  req'[g] = req[g] /\ UNCHANGED <<row, sched>>
    BY <1>0, <2>1 DEF PullInv, KnowsInv, Present, Onboarding
  <2> QED BY <2>1, <2>2 DEF Others
<1>5. ScheduleInv'
  BY <1>0, SSHPullAssumption
  DEF ReadConfig, PullInv, TypeOK, LockInv, AloneInv, KnowsInv, ScheduleInv, Behind,
      Expected, Others, Updating, Onboarding, Present, NoJob
<1>6. RowsInv' /\ VersionInv'
  BY PullFrame DEF ReadConfig, PullInv, TypeOK, LockInv, pullVars, Present, Updating
<1> QED BY <1>1, <1>2, <1>3, <1>4, <1>5, <1>6 DEF PullInv

\* What is written is not visible before the commit.
LEMMA WriteConfigInv ==
    ASSUME PullInv, NEW h \in Handlers, NEW f \in Freqs, WriteConfig(h, f)
    PROVE  PullInv'
<1>0. calm' \in BOOLEAN /\ (calm' => calm)
  BY Zenon DEF WriteConfig, PullInv, TypeOK
<1>1. TypeOK'
  <2>1. req' \in [Handlers -> Request]
    <3>1. PICK pc \in {"reschedule", "commit"} :
            req' = [req EXCEPT ![h] = [req[h] EXCEPT !.pc = pc, !.new = f]]
      BY DEF WriteConfig, PullInv, TypeOK
    <3>2. f \in 0..MaxFreq /\ pc \in Updating
      BY SSHPullAssumption DEF Freqs, Updating
    <3>3. [req[h] EXCEPT !.pc = pc, !.new = f] \in Request
      BY <3>2 DEF PullInv, TypeOK, Request
    <3> QED BY <3>1, <3>3 DEF PullInv, TypeOK
  <2>2. row' \in [status : {"absent", "created", "onboarded", "deleted"}, freq : 0..MaxFreq]
    BY SSHPullAssumption DEF WriteConfig, PullInv, TypeOK, Freqs, Request
  <2>3. /\ sched' \in 0..MaxFreq /\ hostLock' \in Handlers \cup {None}
        /\ job' \in {"none", "available", "running", "orphaned"}
        /\ failures' \in 0..MaxFailures
    BY SSHPullAssumption, FailingType, AfterErrorType
    DEF WriteConfig, PullInv, TypeOK, Request, pullVars
  <2>4. UNCHANGED <<retryable, pull, os, snap, left, alone>>
    BY DEF WriteConfig, pullVars
  <2> QED BY <1>0, <2>1, <2>2, <2>3, <2>4 DEF PullInv, TypeOK
<1>2. LockInv'
  BY SSHPullAssumption DEF WriteConfig, PullInv, TypeOK, LockInv, Present, Updating
<1>3. AloneInv'
  BY <1>0, SSHPullAssumption
  DEF WriteConfig, PullInv, TypeOK, LockInv, AloneInv, Others, Updating, Onboarding
<1>4. KnowsInv'
  BY <1>0, SSHPullAssumption
  DEF WriteConfig, PullInv, TypeOK, LockInv, AloneInv, KnowsInv, Others, Updating,
      Onboarding, Present
<1>5. ScheduleInv'
  BY <1>0, SSHPullAssumption
  DEF WriteConfig, PullInv, TypeOK, LockInv, AloneInv, KnowsInv, ScheduleInv, Behind,
      Expected, Others, Updating, Onboarding, Present, NoJob
<1>6. RowsInv' /\ VersionInv'
  BY PullFrame DEF WriteConfig, PullInv, TypeOK, LockInv, pullVars, Present, Updating
<1> QED BY <1>1, <1>2, <1>3, <1>4, <1>5, <1>6 DEF PullInv

\* A rollback before the schedule was changed leaves it right.
LEMMA AbortUpdateInv ==
    ASSUME PullInv, NEW h \in Handlers, AbortUpdate(h)
    PROVE  PullInv'
<1>0. calm' \in BOOLEAN /\ (calm' => calm)
  BY Zenon DEF AbortUpdate, PullInv, TypeOK
<1>1. TypeOK'
  <2>1. req' \in [Handlers -> Request]
    BY RecordTypes, SSHPullAssumption
    DEF AbortUpdate, PullInv, TypeOK, Request, NoRequest, Updating, Onboarding
  <2>2. row' \in [status : {"absent", "created", "onboarded", "deleted"}, freq : 0..MaxFreq]
    BY SSHPullAssumption DEF AbortUpdate, PullInv, TypeOK, Request
  <2>3. /\ sched' \in 0..MaxFreq /\ hostLock' \in Handlers \cup {None}
        /\ job' \in {"none", "available", "running", "orphaned"}
        /\ failures' \in 0..MaxFailures
    BY SSHPullAssumption, FailingType, AfterErrorType
    DEF AbortUpdate, PullInv, TypeOK, Request, pullVars
  <2>4. UNCHANGED <<retryable, pull, os, snap, left, alone>>
    BY DEF AbortUpdate, pullVars
  <2> QED BY <1>0, <2>1, <2>2, <2>3, <2>4 DEF PullInv, TypeOK
<1>2. LockInv'
  BY SSHPullAssumption
  DEF AbortUpdate, PullInv, TypeOK, LockInv, Present, Updating, NoRequest
<1>3. AloneInv'
  BY <1>0, SSHPullAssumption
  DEF AbortUpdate, PullInv, TypeOK, LockInv, AloneInv, Others, Updating, Onboarding,
      NoRequest
<1>4. KnowsInv'
  BY <1>0, SSHPullAssumption
  DEF AbortUpdate, PullInv, TypeOK, LockInv, AloneInv, KnowsInv, Others, Updating,
      Onboarding, NoRequest, Present
<1>5. ScheduleInv'
  BY <1>0, SSHPullAssumption
  DEF AbortUpdate, PullInv, TypeOK, LockInv, AloneInv, KnowsInv, ScheduleInv, Behind,
      Expected, Others, Updating, Onboarding, NoRequest, Present, NoJob
<1>6. RowsInv' /\ VersionInv'
  BY PullFrame DEF AbortUpdate, PullInv, TypeOK, LockInv, pullVars, Present, Updating
<1> QED BY <1>1, <1>2, <1>3, <1>4, <1>5, <1>6 DEF PullInv

\* The schedule runs ahead of the row until the commit; an error ends the calm.
LEMMA RescheduleInv ==
    ASSUME PullInv, NEW h \in Handlers, Reschedule(h)
    PROVE  PullInv'
<1>0. \/ /\ sched' = req[h].new
         /\ req' = [req EXCEPT ![h].pc = "commit"]
         /\ UNCHANGED <<hostLock, calm, failures>>
      \/ /\ sched' \in 0..MaxFreq
         /\ req' = [req EXCEPT ![h] = NoRequest]
         /\ hostLock' = None
         /\ calm' = FALSE
         /\ failures' \in 0..MaxFailures
  BY SSHPullAssumption, FailingType, AfterErrorType
  DEF Reschedule, PullInv, TypeOK, Request
<1>1. req[h].pc = "reschedule" /\ UNCHANGED <<row, pullVars>>
  BY DEF Reschedule
<1>2. CASE sched' = req[h].new /\ req' = [req EXCEPT ![h].pc = "commit"]
           /\ UNCHANGED <<hostLock, calm, failures>>
  <2>1. TypeOK'
    <3>1. [req[h] EXCEPT !.pc = "commit"] \in Request
      BY DEF PullInv, TypeOK, Request, Updating
    <3>2. req' \in [Handlers -> Request] /\ sched' \in 0..MaxFreq
      BY <1>2, <3>1 DEF PullInv, TypeOK, Request
    <3> QED BY <1>1, <1>2, <3>2 DEF PullInv, TypeOK, pullVars
  <2>2. LockInv' /\ AloneInv'
    BY <1>1, <1>2
    DEF PullInv, TypeOK, LockInv, AloneInv, Present, Updating, Onboarding, Others
  <2>3. KnowsInv'
    BY <1>1, <1>2, SSHPullAssumption
    DEF PullInv, TypeOK, LockInv, KnowsInv, Present, Updating, Onboarding
  <2>4. ScheduleInv'
    BY <1>1, <1>2 DEF PullInv, TypeOK, KnowsInv, ScheduleInv, Behind
  <2> QED BY <1>1, <2>1, <2>2, <2>3, <2>4, PullFrame DEF PullInv, pullVars, Present
<1>3. CASE /\ sched' \in 0..MaxFreq /\ req' = [req EXCEPT ![h] = NoRequest]
           /\ hostLock' = None /\ calm' = FALSE /\ failures' \in 0..MaxFailures
  <2>1. TypeOK'
    BY <1>1, <1>3, RecordTypes DEF PullInv, TypeOK, pullVars
  <2>2. LockInv'
    BY <1>1, <1>3, SSHPullAssumption
    DEF PullInv, TypeOK, LockInv, NoRequest, Present, Updating
  <2>3. AloneInv' /\ KnowsInv' /\ ScheduleInv'
    BY <1>3 DEF AloneInv, KnowsInv, ScheduleInv
  <2> QED BY <1>1, <2>1, <2>2, <2>3, PullFrame DEF PullInv, pullVars, Present
<1> QED BY <1>0, <1>2, <1>3

\* The commit brings the row to the schedule.
LEMMA CommitUpdateInv ==
    ASSUME PullInv, NEW h \in Handlers, CommitUpdate(h)
    PROVE  PullInv'
<1>0. calm' \in BOOLEAN /\ (calm' => calm)
  BY Zenon DEF CommitUpdate, PullInv, TypeOK
<1>1. TypeOK'
  <2>1. req' \in [Handlers -> Request]
    BY RecordTypes, SSHPullAssumption
    DEF CommitUpdate, PullInv, TypeOK, Request, NoRequest, Updating, Onboarding
  <2>2. row' \in [status : {"absent", "created", "onboarded", "deleted"}, freq : 0..MaxFreq]
    BY SSHPullAssumption DEF CommitUpdate, PullInv, TypeOK, Request
  <2>3. /\ sched' \in 0..MaxFreq /\ hostLock' \in Handlers \cup {None}
        /\ job' \in {"none", "available", "running", "orphaned"}
        /\ failures' \in 0..MaxFailures
    BY SSHPullAssumption, FailingType, AfterErrorType
    DEF CommitUpdate, PullInv, TypeOK, Request, pullVars
  <2>4. UNCHANGED <<retryable, pull, os, snap, left, alone>>
    BY DEF CommitUpdate, pullVars
  <2> QED BY <1>0, <2>1, <2>2, <2>3, <2>4 DEF PullInv, TypeOK
<1>2. LockInv'
  BY SSHPullAssumption
  DEF CommitUpdate, PullInv, TypeOK, LockInv, Present, Updating, NoRequest
<1>3. AloneInv'
  BY <1>0, SSHPullAssumption
  DEF CommitUpdate, PullInv, TypeOK, LockInv, AloneInv, Others, Updating, Onboarding,
      NoRequest
<1>4. KnowsInv'
  BY <1>0, SSHPullAssumption
  DEF CommitUpdate, PullInv, TypeOK, LockInv, AloneInv, KnowsInv, Others, Updating,
      Onboarding, NoRequest, Present
<1>5. ScheduleInv'
  BY <1>0, SSHPullAssumption
  DEF CommitUpdate, PullInv, TypeOK, LockInv, AloneInv, KnowsInv, ScheduleInv, Behind,
      Expected, Others, Updating, Onboarding, NoRequest, Present, NoJob
<1>6. RowsInv' /\ VersionInv'
  BY PullFrame, SSHPullAssumption
  DEF CommitUpdate, PullInv, TypeOK, LockInv, pullVars, Present, Updating
<1> QED BY <1>1, <1>2, <1>3, <1>4, <1>5, <1>6 DEF PullInv

\* A failed commit leaves the restoration to do.
LEMMA FailCommitInv ==
    ASSUME PullInv, NEW h \in Handlers, FailCommit(h)
    PROVE  PullInv'
<1>0. /\ calm' \in BOOLEAN
      /\ calm' => calm /\ UNCHANGED row /\ \A g \in Others(h) : req[g].pc = "idle"
  BY Zenon DEF FailCommit, PullInv, TypeOK
<1>1. TypeOK'
  <2>1. req' \in [Handlers -> Request]
    BY RecordTypes, SSHPullAssumption
    DEF FailCommit, PullInv, TypeOK, Request, NoRequest, Updating, Onboarding
  <2>2. row' \in [status : {"absent", "created", "onboarded", "deleted"}, freq : 0..MaxFreq]
    BY SSHPullAssumption DEF FailCommit, PullInv, TypeOK, Request
  <2>3. /\ sched' \in 0..MaxFreq /\ hostLock' \in Handlers \cup {None}
        /\ job' \in {"none", "available", "running", "orphaned"}
        /\ failures' \in 0..MaxFailures
    BY SSHPullAssumption, FailingType, AfterErrorType
    DEF FailCommit, PullInv, TypeOK, Request, pullVars
  <2>4. UNCHANGED <<retryable, pull, os, snap, left, alone>>
    BY DEF FailCommit, pullVars
  <2> QED BY <1>0, <2>1, <2>2, <2>3, <2>4 DEF PullInv, TypeOK
<1>2. LockInv'
  BY SSHPullAssumption
  DEF FailCommit, PullInv, TypeOK, LockInv, Present, Updating, NoRequest, Others
<1>3. AloneInv'
  BY <1>0, SSHPullAssumption
  DEF FailCommit, PullInv, TypeOK, LockInv, AloneInv, Others, Updating, Onboarding,
      NoRequest
<1>4. KnowsInv'
  BY <1>0, SSHPullAssumption
  DEF FailCommit, PullInv, TypeOK, LockInv, AloneInv, KnowsInv, Others, Updating,
      Onboarding, NoRequest, Present
<1>5. ScheduleInv'
  BY <1>0, SSHPullAssumption
  DEF FailCommit, PullInv, TypeOK, LockInv, AloneInv, KnowsInv, ScheduleInv, Behind,
      Expected, Others, Updating, Onboarding, NoRequest, Present, NoJob
<1>6. RowsInv' /\ VersionInv'
  BY PullFrame, SSHPullAssumption
  DEF FailCommit, PullInv, TypeOK, LockInv, pullVars, Present, Updating
<1> QED BY <1>1, <1>2, <1>3, <1>4, <1>5, <1>6 DEF PullInv

\* The restoration puts back the row's frequency.
LEMMA RestoreInv ==
    ASSUME PullInv, NEW h \in Handlers, Restore(h)
    PROVE  PullInv'
<1>0. calm' \in BOOLEAN /\ (calm' => calm /\ sched' = req[h].freq)
  <2>1. (calm' = calm /\ sched' = req[h].freq) \/ calm' = FALSE
    BY DEF Restore
  <2>2. calm \in BOOLEAN
    BY DEF PullInv, TypeOK
  <2>3. CASE calm' = FALSE
    BY <2>3
  <2> QED BY <2>1, <2>2, <2>3
<1>1. TypeOK'
  <2>1. req' \in [Handlers -> Request]
    BY RecordTypes, SSHPullAssumption
    DEF Restore, PullInv, TypeOK, Request, NoRequest, Updating, Onboarding
  <2>2. row' \in [status : {"absent", "created", "onboarded", "deleted"}, freq : 0..MaxFreq]
    BY SSHPullAssumption DEF Restore, PullInv, TypeOK, Request
  <2>3. /\ sched' \in 0..MaxFreq /\ hostLock' \in Handlers \cup {None}
        /\ job' \in {"none", "available", "running", "orphaned"}
        /\ failures' \in 0..MaxFailures
    BY SSHPullAssumption, FailingType, AfterErrorType
    DEF Restore, PullInv, TypeOK, Request, pullVars
  <2>4. UNCHANGED <<retryable, pull, os, snap, left, alone>>
    BY DEF Restore, pullVars
  <2> QED BY <1>0, <2>1, <2>2, <2>3, <2>4 DEF PullInv, TypeOK
<1>2. LockInv'
  BY SSHPullAssumption
  DEF Restore, PullInv, TypeOK, LockInv, Present, Updating, NoRequest
<1>3. AloneInv'
  BY <1>0, SSHPullAssumption
  DEF Restore, PullInv, TypeOK, LockInv, AloneInv, Others, Updating, Onboarding,
      NoRequest
<1>4. KnowsInv'
  BY <1>0, SSHPullAssumption
  DEF Restore, PullInv, TypeOK, LockInv, AloneInv, KnowsInv, Others, Updating,
      Onboarding, NoRequest, Present
<1>5. ScheduleInv'
  BY <1>0, SSHPullAssumption
  DEF Restore, PullInv, TypeOK, LockInv, AloneInv, KnowsInv, ScheduleInv, Behind,
      Expected, Others, Updating, Onboarding, NoRequest, Present, NoJob
<1>6. RowsInv' /\ VersionInv'
  BY PullFrame DEF Restore, PullInv, TypeOK, LockInv, pullVars, Present, Updating
<1> QED BY <1>1, <1>2, <1>3, <1>4, <1>5, <1>6 DEF PullInv

\* After the removal nothing is scheduled for the deleted host.
LEMMA RemovePullJobInv ==
    ASSUME PullInv, NEW h \in Handlers, RemovePullJob(h)
    PROVE  PullInv'
<1>0. calm' \in BOOLEAN /\ (calm' => calm /\ sched' = NoJob)
  <2>1. (calm' = calm /\ sched' = NoJob) \/ calm' = FALSE
    BY DEF RemovePullJob
  <2>2. calm \in BOOLEAN
    BY DEF PullInv, TypeOK
  <2>3. CASE calm' = FALSE
    BY <2>3
  <2> QED BY <2>1, <2>2, <2>3
<1>1. TypeOK'
  <2>1. req' \in [Handlers -> Request]
    BY RecordTypes, SSHPullAssumption
    DEF RemovePullJob, PullInv, TypeOK, Request, NoRequest, Updating, Onboarding
  <2>2. row' \in [status : {"absent", "created", "onboarded", "deleted"}, freq : 0..MaxFreq]
    BY SSHPullAssumption DEF RemovePullJob, PullInv, TypeOK, Request
  <2>3. /\ sched' \in 0..MaxFreq /\ hostLock' \in Handlers \cup {None}
        /\ job' \in {"none", "available", "running", "orphaned"}
        /\ failures' \in 0..MaxFailures
    BY SSHPullAssumption, FailingType, AfterErrorType
    DEF RemovePullJob, PullInv, TypeOK, Request, pullVars, NoJob
  <2>4. UNCHANGED <<retryable, pull, os, snap, left, alone>>
    BY DEF RemovePullJob, pullVars
  <2> QED BY <1>0, <2>1, <2>2, <2>3, <2>4 DEF PullInv, TypeOK
<1>2. LockInv'
  BY SSHPullAssumption
  DEF RemovePullJob, PullInv, TypeOK, LockInv, Present, Updating, NoRequest
<1>3. AloneInv'
  BY <1>0, SSHPullAssumption
  DEF RemovePullJob, PullInv, TypeOK, LockInv, AloneInv, Others, Updating, Onboarding,
      NoRequest
<1>4. KnowsInv'
  BY <1>0, SSHPullAssumption
  DEF RemovePullJob, PullInv, TypeOK, LockInv, AloneInv, KnowsInv, Others, Updating,
      Onboarding, NoRequest, Present
<1>5. ScheduleInv'
  BY <1>0, SSHPullAssumption
  DEF RemovePullJob, PullInv, TypeOK, LockInv, AloneInv, KnowsInv, ScheduleInv, Behind,
      Expected, Others, Updating, Onboarding, NoRequest, Present, NoJob
<1>6. RowsInv' /\ VersionInv'
  BY PullFrame DEF RemovePullJob, PullInv, TypeOK, LockInv, pullVars, Present, Updating
<1> QED BY <1>1, <1>2, <1>3, <1>4, <1>5, <1>6 DEF PullInv

\* DeleteHost takes the rows with it; the schedule follows with RemovePullJob.
LEMMA DeleteHostInv ==
    ASSUME PullInv, NEW h \in Handlers, DeleteHost(h)
    PROVE  PullInv'
<1>0. /\ calm' \in BOOLEAN
      /\ calm' => calm /\ \A g \in Others(h) : req[g].pc \notin Onboarding \cup {"restore"}
  BY Zenon DEF DeleteHost, PullInv, TypeOK
<1>1. /\ row' = [status |-> "deleted", freq |-> 0]
      /\ req[h].pc = "idle" /\ hostLock = None /\ UNCHANGED <<sched, hostLock, alone>>
      /\ req' = [req EXCEPT ![h] = [NoRequest EXCEPT !.pc = "remove"]]
  BY DEF DeleteHost, LockFree
<1>2. TypeOK'
  <2>1. [NoRequest EXCEPT !.pc = "remove"] \in Request
    BY RecordTypes DEF Request
  <2>2. req' \in [Handlers -> Request]
    BY <1>1, <2>1 DEF PullInv, TypeOK
  <2>3. pull' \in [Pullers -> Pull]
    BY DEF DeleteHost, PullInv, TypeOK, Pull
  <2>4. left' \in BOOLEAN
    BY DEF DeleteHost
  <2>5. /\ os' \in 0..MaxOS /\ snap' \in 0..MaxOS
        /\ row' \in [status : {"absent", "created", "onboarded", "deleted"},
                     freq : 0..MaxFreq]
    BY SSHPullAssumption DEF DeleteHost
  <2>6. UNCHANGED <<sched, hostLock, job, retryable, alone, failures>>
    BY DEF DeleteHost
  <2> QED BY <1>0, <2>2, <2>3, <2>4, <2>5, <2>6 DEF PullInv, TypeOK
<1>3. LockInv'
  BY <1>1, SSHPullAssumption
  DEF PullInv, TypeOK, LockInv, Present, Updating, Onboarding, NoRequest
<1>4. AloneInv' /\ KnowsInv'
  BY <1>0, <1>1, SSHPullAssumption
  DEF PullInv, TypeOK, LockInv, AloneInv, KnowsInv, NoRequest, Updating, Onboarding,
      Others
<1>5. ScheduleInv'
  BY <1>1 DEF PullInv, TypeOK, ScheduleInv, Behind, NoRequest
<1>6. RowsInv'
  BY DEF DeleteHost, RowsInv, PullInv, TypeOK, Pull
<1>7. VersionInv'
  <2>1. snap' = 0 /\ row'.status = "deleted" /\ \A p \in Pullers : pull'[p].pc = pull[p].pc
    BY DEF DeleteHost, PullInv, TypeOK, Pull
  <2> QED BY <1>1, <2>1 DEF PullInv, VersionInv
<1> QED BY <1>2, <1>3, <1>4, <1>5, <1>6, <1>7 DEF PullInv

\* River moves jobs; the rows and the pulls stay.
LEMMA RiverInv ==
    ASSUME PullInv, PeriodicTick \/ RetryJob \/ RescueJob
    PROVE  PullInv'
<1>1. UNCHANGED <<hostVars, pull, os, snap, left, alone, failures>>
  BY DEF PeriodicTick, RetryJob, RescueJob
<1>2. /\ job' \in {"none", "available", "running", "orphaned"}
      /\ retryable' \in 0..MaxRetryable
  BY SSHPullAssumption
  DEF PeriodicTick, RetryJob, RescueJob, Enqueued, OneMoreRetryable, PullInv, TypeOK
<1>3. TypeOK'
  BY <1>1, <1>2 DEF PullInv, TypeOK, hostVars
<1> QED
  BY <1>1, <1>3, HostFrame, PullFrame DEF PullInv, RequestInv, hostVars, Present

\* A pull that starts beside another one ends "alone".
LEMMA StartInv ==
    ASSUME PullInv, NEW p \in Pullers, Starting(p),
           job' \in {"none", "available", "running", "orphaned"},
           UNCHANGED <<hostVars, retryable, os, snap, left, failures>>
    PROVE  PullInv'
<1>0. /\ alone' \in BOOLEAN
      /\ alone' => alone /\ \A q \in Pullers \ {p} : pull[q].pc = "idle"
  BY Zenon DEF Starting, PullInv, TypeOK
<1>1. /\ pull' \in [Pullers -> Pull]
      /\ pull[p].pc = "idle" /\ pull'[p].pc = "start" /\ pull'[p].row = pull[p].row
      /\ \A q \in Pullers \ {p} : pull'[q] = pull[q]
  BY DEF Starting, PullInv, TypeOK, Pull
<1>2. TypeOK'
  BY <1>0, <1>1 DEF PullInv, TypeOK, hostVars
<1>3. RowsInv'
  BY <1>1 DEF PullInv, RowsInv, Present, hostVars
<1>4. VersionInv'
  BY <1>0, <1>1 DEF PullInv, VersionInv, hostVars
<1> QED BY <1>2, <1>3, <1>4, HostFrame DEF PullInv, RequestInv

\* Work and RunPullNow start a pull.
LEMMA WorkInv ==
    ASSUME PullInv, Work \/ (\E p \in Pullers : RunPullNow(p))
    PROVE  PullInv'
<1>1. CASE Work
  BY <1>1, StartInv DEF Work, Pullers
<1>2. ASSUME NEW p \in Pullers, RunPullNow(p) PROVE PullInv'
  BY <1>2, StartInv DEF RunPullNow, PullInv, TypeOK
<1> QED BY <1>1, <1>2

\* What Returns leaves of a pull: nothing, and a job that is done or waits.
LEMMA ReturnsType ==
    ASSUME PullInv, NEW p \in Pullers, NEW r \in BOOLEAN, Returns(p, r)
    PROVE  /\ pull' \in [Pullers -> Pull]
           /\ pull'[p] = NoPull
           /\ \A q \in Pullers \ {p} : pull'[q] = pull[q]
           /\ job' \in {"none", "available", "running", "orphaned"}
           /\ retryable' \in 0..MaxRetryable
<1>1. /\ pull' \in [Pullers -> Pull] /\ pull'[p] = NoPull
      /\ \A q \in Pullers \ {p} : pull'[q] = pull[q]
  BY RecordTypes DEF Returns, PullInv, TypeOK
<1>2. OneMoreRetryable \in 0..MaxRetryable
  BY SSHPullAssumption DEF OneMoreRetryable, PullInv, TypeOK
<1> QED BY <1>1, <1>2 DEF Returns, PullInv, TypeOK

\* A pull that ends without a result changes no row but its own.
LEMMA EndInv ==
    ASSUME PullInv, NEW p \in Pullers, NEW r \in BOOLEAN, Returns(p, r),
           left' = left \/ left' = (left \/ pull[p].row),
           failures' \in 0..MaxFailures,
           UNCHANGED <<hostVars, os, snap, alone>>
    PROVE  PullInv'
<1>0. left' \in BOOLEAN /\ (left' => left \/ pull[p].row)
  <2>1. left \in BOOLEAN /\ pull[p].row \in BOOLEAN
    BY DEF PullInv, TypeOK, Pull
  <2> QED BY <2>1
<1>1. TypeOK'
  BY <1>0, ReturnsType DEF PullInv, TypeOK, hostVars
<1>2. RowsInv'
  BY <1>0, ReturnsType DEF PullInv, RowsInv, Present, hostVars, NoPull
<1>3. VersionInv'
  BY ReturnsType DEF PullInv, VersionInv, hostVars, NoPull
<1> QED BY <1>1, <1>2, <1>3, HostFrame DEF PullInv, RequestInv

\* A pull that goes on keeps the version it read, or reads it now.
LEMMA GoOnInv ==
    ASSUME PullInv, NEW p \in Pullers, pull[p].pc # "idle",
           NEW new \in Pull, pull' = [pull EXCEPT ![p] = new],
           new.os = os \/ (new.os = pull[p].os /\ pull[p].pc \in {"insert", "collect"}),
           new.row => pull[p].row \/ Present,
           failures' \in 0..MaxFailures,
           UNCHANGED <<hostVars, job, retryable, os, snap, left, alone>>
    PROVE  PullInv'
<1>1. /\ pull' \in [Pullers -> Pull] /\ pull'[p] = new
      /\ \A q \in Pullers \ {p} : pull'[q] = pull[q]
  BY DEF PullInv, TypeOK
<1>2. TypeOK'
  BY <1>1 DEF PullInv, TypeOK, hostVars
<1>3. RowsInv'
  BY <1>1 DEF PullInv, RowsInv, Present, hostVars
<1>4. VersionInv'
  BY <1>1 DEF PullInv, VersionInv, hostVars
<1> QED BY <1>2, <1>3, <1>4, HostFrame DEF PullInv, RequestInv

\* The steps before the result is recorded.
LEMMA PullInvBefore ==
    ASSUME PullInv, NEW p \in Pullers, ReadHost(p) \/ InsertRow(p) \/ Collect(p)
    PROVE  PullInv'
<1>0. pull[p] \in Pull /\ failures \in 0..MaxFailures
  BY DEF PullInv, TypeOK
<1>1. CASE ReadHost(p)
  <2>1. CASE Present
    <3>1. [pull[p] EXCEPT !.pc = "insert", !.os = os] \in Pull
      BY <1>0 DEF Pull, PullInv, TypeOK
    <3> QED BY <1>0, <1>1, <2>1, <3>1, GoOnInv DEF ReadHost, Pull, PullInv, TypeOK
  <2>2. CASE ~Present
    BY <1>0, <1>1, <2>2, EndInv DEF ReadHost, NotFound
  <2> QED BY <2>1, <2>2
<1>2. CASE InsertRow(p)
  <2>1. CASE Present
    <3>1. [pull[p] EXCEPT !.pc = "collect", !.row = TRUE] \in Pull
      BY <1>0 DEF Pull
    <3> QED BY <1>0, <1>2, <2>1, <3>1, GoOnInv DEF InsertRow, Pull, PullInv, TypeOK
  <2>2. CASE ~Present
    BY <1>0, <1>2, <2>2, EndInv DEF InsertRow
  <2> QED BY <2>1, <2>2
<1>3. CASE Collect(p)
  <2>1. PICK v \in 0..MaxOS :
          pull' = [pull EXCEPT ![p] = [pull[p] EXCEPT !.pc = "record", !.got = v]]
    <3>1. CASE \E v \in 1..MaxOS : pull' = [pull EXCEPT ![p].pc = "record", ![p].got = v]
      <4>1. PICK v \in 1..MaxOS : pull' = [pull EXCEPT ![p].pc = "record", ![p].got = v]
        BY <3>1
      <4>2. v \in 0..MaxOS
        BY SSHPullAssumption
      <4> QED BY <4>1, <4>2 DEF PullInv, TypeOK
    <3>2. CASE pull' = [pull EXCEPT ![p].pc = "record"]
      <4>1. [pull[p] EXCEPT !.pc = "record"]
              = [pull[p] EXCEPT !.pc = "record", !.got = pull[p].got]
        BY <1>0 DEF Pull
      <4> QED BY <1>0, <3>2, <4>1 DEF Pull
    <3> QED BY <1>3, <3>1, <3>2 DEF Collect
  <2>2. [pull[p] EXCEPT !.pc = "record", !.got = v] \in Pull
    BY <1>0 DEF Pull
  <2>3. failures' \in 0..MaxFailures
    BY <1>0, <1>3, FailingType DEF Collect
  <2> QED BY <1>0, <1>3, <2>1, <2>2, <2>3, GoOnInv DEF Collect, Pull
<1> QED BY <1>1, <1>2, <1>3

\* A result is written for a host that is there; alone, the version that a failed pull
\* writes back is the recorded one.
LEMMA RecordResultInv ==
    ASSUME PullInv, NEW p \in Pullers, RecordResult(p)
    PROVE  PullInv'
<1>0. pull[p] \in Pull /\ pull[p].row /\ Present /\ pull[p].pc = "record"
  BY DEF RecordResult, JobRowThere, PullInv, TypeOK, RowsInv
<1>1. PICK r \in BOOLEAN : Returns(p, r)
  BY DEF RecordResult
<1>2. os' \in 0..MaxOS /\ snap' \in 0..MaxOS
  BY <1>0 DEF RecordResult, RecordedVersion, PullInv, TypeOK, Pull
<1>3. UNCHANGED <<hostVars, left, alone, failures>>
  BY DEF RecordResult
<1>4. TypeOK'
  BY <1>1, <1>2, <1>3, ReturnsType DEF PullInv, TypeOK, hostVars
<1>5. RowsInv'
  BY <1>0, <1>3 DEF RowsInv, Present, hostVars
<1>6. VersionInv'
  <2> SUFFICES ASSUME alone' PROVE VersionInv!2'
    BY DEF VersionInv
  <2>1. \A q \in Pullers : pull'[q].pc = "idle"
    BY <1>0, <1>1, <1>3, ReturnsType DEF PullInv, VersionInv, NoPull
  <2>2. pull[p].os = os
    BY <1>0, <1>3 DEF PullInv, VersionInv, Present
  <2>3. snap' # 0 => os' = snap'
    <3>1. snap # 0 => os = snap
      BY <1>3 DEF PullInv, VersionInv
    <3>2. CASE pull[p].got # 0
      BY <3>2 DEF RecordResult, RecordedVersion
    <3>3. CASE pull[p].got = 0
      BY <2>2, <3>1, <3>3 DEF RecordResult, RecordedVersion
    <3> QED BY <3>2, <3>3
  <2> QED BY <2>1, <2>3
<1> QED BY <1>3, <1>4, <1>5, <1>6, HostFrame DEF PullInv, RequestInv

\* Results that are not written, and timeouts.
LEMMA RecordFailsInv ==
    ASSUME PullInv, NEW p \in Pullers, RecordFails(p) \/ Timeout(p)
    PROVE  PullInv'
<1>1. failures' \in 0..MaxFailures
  BY FailingType DEF RecordFails, Timeout, PullInv, TypeOK
<1> QED BY <1>1, EndInv DEF RecordFails, Timeout

\* After a restart there is no request and no pull, and the schedule is the rows'.
LEMMA CrashInv ==
    ASSUME PullInv, Crash
    PROVE  PullInv'
<1>1. /\ UNCHANGED <<row, retryable, os, snap, left, alone>>
      /\ hostLock' = None
      /\ req' = [h \in Handlers |-> NoRequest]
      /\ pull' = [p \in Pullers |-> NoPull]
  BY DEF Crash
<1>2. (sched' = Initialized /\ calm' = TRUE) \/ (sched' = NoJob /\ calm' = FALSE)
  BY DEF Crash
<1>3. TypeOK'
  <2>1. req' \in [Handlers -> Request] /\ pull' \in [Pullers -> Pull]
    BY <1>1, RecordTypes
  <2>2. sched' \in 0..MaxFreq
    BY <1>2, SSHPullAssumption DEF Initialized, NoJob, PullInv, TypeOK
  <2>4. calm' \in BOOLEAN
    BY <1>2
  <2>3. /\ job' \in {"none", "available", "running", "orphaned"}
        /\ failures' \in 0..MaxFailures
    BY FailingType DEF Crash, PullInv, TypeOK
  <2> QED BY <1>1, <2>1, <2>2, <2>3, <2>4 DEF PullInv, TypeOK
<1>4. LockInv' /\ AloneInv' /\ KnowsInv'
  BY <1>1, SSHPullAssumption
  DEF LockInv, AloneInv, KnowsInv, NoRequest, Updating, Onboarding
<1>5. ScheduleInv'
  BY <1>1, <1>2 DEF ScheduleInv, Initialized, Expected
<1>6. RowsInv' /\ VersionInv'
  BY <1>1 DEF PullInv, RowsInv, VersionInv, NoPull, Present
<1> QED BY <1>3, <1>4, <1>5, <1>6 DEF PullInv

\* Every step preserves PullInv.
LEMMA NextInv == PullInv /\ [Next]_vars => PullInv'
<1> SUFFICES ASSUME PullInv, [Next]_vars PROVE PullInv'
  OBVIOUS
<1>1. CASE \E f \in Freqs : CreateSSHHost(f)
  BY <1>1, CreateSSHHostInv
<1>2. ASSUME NEW h \in Handlers, RequestStep(h) PROVE PullInv'
  BY <1>2, SetOnboardedInv, AddPullJobInv, ReadConfigInv, WriteConfigInv,
     AbortUpdateInv, RescheduleInv, CommitUpdateInv, FailCommitInv, RestoreInv,
     RemovePullJobInv
  DEF RequestStep
<1>3. ASSUME NEW h \in Handlers, ReadOnboard(h) \/ LockForUpdate(h) \/ DeleteHost(h)
      PROVE PullInv'
  BY <1>3, ReadOnboardInv, LockForUpdateInv, DeleteHostInv
<1>4. CASE PeriodicTick \/ RetryJob \/ RescueJob
  BY <1>4, RiverInv
<1>5. CASE Work \/ (\E p \in Pullers : RunPullNow(p))
  BY <1>5, WorkInv
<1>6. ASSUME NEW p \in Pullers, PullStep(p) \/ Timeout(p) PROVE PullInv'
  BY <1>6, PullInvBefore, RecordResultInv, RecordFailsInv DEF PullStep
<1>7. CASE Crash
  BY <1>7, CrashInv
<1>8. CASE UNCHANGED vars
  <2>1. UNCHANGED <<hostVars, pullVars, failures>>
    BY <1>8 DEF vars, hostVars, pullVars
  <2>2. TypeOK'
    BY <2>1 DEF PullInv, TypeOK, hostVars, pullVars
  <2> QED
    BY <2>1, <2>2, HostFrame, PullFrame DEF PullInv, RequestInv, hostVars, pullVars, Present
<1> QED BY <1>1, <1>2, <1>3, <1>4, <1>5, <1>6, <1>7, <1>8 DEF Next

\* The lock, the requests and the pulls fit together in every reachable state.
THEOREM PullInvariant == Spec => []PullInv
BY InitInv, NextInv, PTL DEF Spec

\* Type correctness of SSHPull.
THEOREM TypeCorrect == Spec => []TypeOK
<1>1. PullInv => TypeOK
  BY DEF PullInv
<1> QED BY <1>1, PullInvariant, PTL

\* Between requests the periodic job is the one the rows ask for: UpdateHost's order of
\* schedule and commit is right, with its restoration, for any number of requests.
THEOREM ScheduleAgrees == Spec => []ScheduleFollowsRow
<1>1. PullInv => ScheduleFollowsRow
  BY DEF PullInv, ScheduleInv, ScheduleFollowsRow, Quiet, Behind
<1> QED BY <1>1, PullInvariant, PTL

\* No pull in progress brings back rows of a deleted host.
THEOREM DeletedStaysDeleted == Spec => []DeletedLeavesNothing
<1>1. PullInv => DeletedLeavesNothing
  BY DEF PullInv, RowsInv, DeletedLeavesNothing, Present
<1> QED BY <1>1, PullInvariant, PTL

\* As long as pulls do not overlap, the version shown is the last snapshot's.
THEOREM VersionAgrees == Spec => []VersionFollowsSnapshot
<1>1. PullInv => VersionFollowsSnapshot
  BY DEF PullInv, VersionInv, VersionFollowsSnapshot
<1> QED BY <1>1, PullInvariant, PTL
=============================================================================
