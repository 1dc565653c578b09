# PatchBase in TLA+

PatchBase is a Go server that collects package inventories ("snapshots") from
Linux hosts, matches them against advisory databases, and shows the result in a
dashboard. This directory holds TLA+ models of the parts of the server and the
agent that are concurrent or can fail half-way, and of the algorithms that decide what the
dashboard tells about a host; the TLC configurations that check them on small
instances; and TLAPS proofs of their invariants for every instance.

## The system

| Part | State | Operations | Talks to |
| --- | --- | --- | --- |
| Snapshot ingestion (`services/hosts.go`) | `hosts`, `host_snapshots`, `host_current_state` | `IngestAgentSnapshot`, `IngestManualReport`, `RunSSHPull`, `DeleteHost` | advisory sync (`RegisterScopeDemand`), matcher, broker |
| Matching engine (`services/matchers`) | `decision_records`, `host_current_state` | `MatchSnapshot`, `MatchHostsForScope` | PostgreSQL row locks and foreign keys, broker |
| Advisory sync (`services/advisory_sync.go`) | `advisory_scopes`, advisory rows, `advisories-<sha>.db` files | `RegisterScopeDemand`, `SyncScope`, `TriggerManualSync` | publisher (HTTP), River, matcher, broker |
| Queue (`internal/queue`) | River jobs, the periodic jobs in `PeriodicJobManager` | `Initialize`, `AddAdvisorySyncJob`, `AddSSHPullJob`, `Work` of the workers | advisory sync, SSH pull |
| Event broker (`internal/events`) | topic maps, one buffered channel per subscriber | `Subscribe`, `Unsubscribe`, `Update`, `Publish` | every service, hub |
| WebSocket hub (`internal/ws`) | per connection: active topics, debounce timers | `HandleWS`, `readLoop`, `eventLoop`, `pushHosts`, `pushAdvisories` | broker, services |
| SSH pull hosts (`services/hosts.go`, `ssh_pull.go`) | `host_ssh_pull`, `host_ssh_pull_jobs`, schedule | `CreateSSHHost`, `OnboardSSHHost`, `UpdateHost`, `RunSSHPull` | periodic jobs, ingestion |
| Registration (`services/hosts.go`, `agent/`) | registration tokens, host access tokens, the agent's credential file | `CreateRegistrationToken`, `RegisterAgentHost`, `ApproveHost`, agent `enroll` and `sync` | ingestion |
| Authentication, settings | `users`, `settings` | `TryInitialSetup`, `CompleteInitialSetup`, `GetGlobalSSHKeyPair`, mail settings | everything |
| Email reports (`queue/email_report.go`, `mailer`) | the periodic job | `SetEmailReportJob`, `Work` | settings |
| Collectors (`agent/internal/collector`, `services/ssh_pull.go`) | none | `CollectSnapshot`, the SSH script, `ParseSSHPullReport` | ingestion |
| Pure algorithms | none | version comparison (RPM, Debian), `buildDecisions`, `overallAction`, `ResolveScopeKey`, retry backoff | matcher, queue |
| Host pages (`api/v1/hosts`, `api/v1/entities`) | none | `GetVulnerablePackages`, `GetUpgradablePackages`, `GetKernelPosture` | decision records |
| Dashboard, other HTTP handlers, CLI, generated code | none of interest | | |

What is hard about it:

- *Statement-level interleaving in PostgreSQL.* Everything runs at READ
  COMMITTED; the matcher reads product streams before it opens its transaction,
  and its statements each see a different database when an import commits.
- *Work after the commit.* A snapshot is committed, then matched; an import is
  committed, then the hosts are rematched, then the row is updated. Each later
  step can fail on its own, and most failures are only logged.
- *Jobs.* River's uniqueness leaves out retryable jobs; a timeout cancels the
  very context that the error handling uses; a crash leaves a running job that
  is rescued later.
- *Calls that get lost.* An agent that is killed between its registration and
  the write of its file, an answer that nobody receives, an image of a machine
  that is cloned with its token.
- *Two copies of one rule.* Matcher and pages rank actions, agent and server
  parse packages, matcher and import name distributions, each in their own way.
- *Goroutines and timers.* The hub's debounce timers race with their own
  callbacks and with the end of the connection; the broker drops events.

What makes each part correct: rows never refer to missing rows, concurrent
matches do not mix, and a host's counts cover its records (ingestion and
matching); a scope shown as synced has the build its row names, a stored file is
whole, and every scope ends up synced (advisory sync); no send on a closed
channel, no published change lost in buffers and debouncing, every connection is
torn down (broker and hub); the schedule of
an SSH host agrees with its rows, pulls go on, and a deleted host leaves nothing
behind (SSH pull); the snapshots of a host come from the one machine that was
approved, repeated enrolments leave no further hosts, and an approved machine is
heard of (enrolment); there is one administrator, whose printed password ends
with the setup, and a new password ends every session (accounts); one key
pair is ever given out, the report's schedule follows the rows (settings); no
exposure is dropped, advice that is followed comes to an end, and the pages agree
with the host list (decisions); comparisons are orders, what is written is read
back, both ways of reporting tell the same, and imports keep to their release
(algorithms). `PROJECT.json`
lists each hazard at the line where it bites, with the properties that cover it.

## Modules

| Module | Models | Checked by | Proved in |
| --- | --- | --- | --- |
| `HostMatch` | ingestion, matching, import and deletion for the hosts of one scope | `MCHostMatch` | `HostMatchProofs` |
| `ScopeSync` | one scope's row, files, imported rows, River jobs and `SyncScope` | `MCScopeSync` | `ScopeSyncProofs` |
| `WSHub` | broker, hub goroutines and debounced pushes of one connection | `MCWSHub` | `WSHubProofs` |
| `SSHPull` | one SSH host: its rows, its periodic job, the requests that change both, its pulls | `MCSSHPull` | `SSHPullProofs` |
| `Enrollment` | registration tokens, agents that register and report, approval, renaming, deletion, manual hosts | `MCEnrollment` | `EnrollmentProofs` |
| `Accounts` | the administrator's creation, the setup, logins, profile changes | `MCAccounts` | `AccountsProofs` |
| `Settings` | the global SSH key, the settings page, the report's schedule and its delivery | `MCSettings` | `SettingsProofs` |
| `WriteOnce` | abstract: a value that is chosen once and told to everyone | by `Settings` | by `SettingsProofs` |
| `Decisions` | what a match decides, as operators | `MCPatchCycle` | by `PatchCycleProofs` |
| `Views` | the pages of a host, as operators | `MCPatchCycle` | by `PatchCycleProofs` |
| `PatchCycle` | composes both with a host that reports, updates and reboots | `MCPatchCycle` | `PatchCycleProofs` |
| `Versions`, `Backoff`, `Collect`, `ScopeMapping` | version comparison and parsing, retry backoff, collectors, scope resolution, as operators | `MCAlgorithms` | |
| `Algorithms` | runs each algorithm on an input | `MCAlgorithms` | |

Definitions whose names end in `Mutant`, or that a comment calls a fault, are
deliberately wrong variants of the definition that follows them. Nothing uses them; substituting one for its
original must make the property named in `PROJECT.json` fail.

### HostMatch

A *matcher* is an ingestion handler or the scope's sync worker. `match[p]` holds
what it has read so far and the statement it is at; `hostLock` is the `FOR
UPDATE` lock of `LockHost`. Advisory data is reduced to links *product stream -
advisory*, a decision to a link that hits the host; package and version
comparison are left out, so every link of a resolved stream hits. `Links[b]` are
the rows of build `b`.

| Action | Code |
| --- | --- |
| `IngestSnapshot`, `RegisterScope` | the transaction of `IngestAgentSnapshot` (`RunSSHPull` and `IngestManualReport` end the same way), then scope registration, whose errors are logged |
| `ReadStreams` | reads of `MatchSnapshot` before its transaction |
| `LockHost`, `ListAdvisories`, `BuildDecisions` | the statements of the transaction, each with its own view of the database |
| `CommitMatch`, `CommitInvestigate` | inserts under savepoints, upsert of the counts, commit |
| `RejectMatch`, `FailMatch` | constraint violations; any other error |
| `ImportBuild`, `SkipImport` | `ImportAdvisoryDB` with its cascades; the sync that finds its hash unchanged |
| `ListHosts`, `RematchNext`, `FinishSync` | `MatchHostsForScope` |
| `DeleteHost`, `Crash` | deletion; restart |

The decisions that an insert may skip are those whose advisory row is gone; when
an import committed in between, an insert that waited for it may be skipped as
well, so the model lets any decision be skipped then.

### ScopeSync

A build stands for its SHA-256 and file name; `files` says what the file of each
name holds, a build's bytes or `Torn` ones. `Download` stages what the server
answers with, the right bytes or not, in a temporary file, and `VerifyAndRename`
puts it in place. `run` is the `SyncScope` call in
progress, with one action per step (`MarkSyncing` ... `Save`) because a crash,
a timeout or an error may come between any two. `FailSync` is `handleFailure`,
which uses the call's own context: after `Timeout` it writes nothing. `job` is
the unique River job, `retryable` the failed ones that wait; River is external
and modelled from the options the code passes to it. `Withdraw` is a publisher
that returns to an earlier build; `withdrawn`, a history variable, are the builds
it took back. `SyncScope` takes a build that its row names for imported, so what
it promises is about builds that were not taken back: `SyncedMeansImported` and
`AdvisoriesAdvance` say so.

### WSHub

One connection is enough: the broker keeps subscribers apart by id and its
methods hold a mutex. `entry` is the timer in the `debouncers` map, `armed`
counts the timers that will fire (a callback may remove a timer it did not
start), `push` are running callbacks. `Commit` is a write that publishes, as most
services' do; `CommitSilently` one that does not (an SSH host's onboarding, a
scope that becomes pending or syncing). `told`, `fetched` and `missed` are history
variables for the properties: the last version of a topic's data that was
published, the last that was read, and whether the topic's event was dropped while
the buffer held only other topics' events. An event dropped next to one of its own
topic is not excused, since that one leads to the read.

### SSHPull

The schedule (`sched`, the entry of `PeriodicJobManager.sshJobs`) is in memory,
the rows are in PostgreSQL, and every request changes one after the other, so
each request is split at the points where another one can come between. `req[h]`
is the request a handler is in, with what it has read; `pull[p]` a `RunSSHPull`
call, of the River worker or of "pull now".

| Action | Code |
| --- | --- |
| `CreateSSHHost` | `CreateSSHHost`, one transaction |
| `ReadOnboard`, `SetOnboarded`, `AddPullJob` | `OnboardSSHHost`: no transaction and no lock |
| `LockForUpdate`, `ReadConfig`, `WriteConfig`, `Reschedule`, `CommitUpdate` | `UpdateHost` with a new frequency |
| `AbortUpdate`, `FailCommit`, `Restore` | its error returns |
| `DeleteHost`, `RemovePullJob` | `DeleteHost`'s transaction, then the schedule |
| `PeriodicTick`, `Work`, `RunPullNow`, `RetryJob`, `RescueJob` | the periodic job, the worker, the API call, River |
| `ReadHost`, `InsertRow`, `Collect`, `RecordResult`, `RecordFails`, `Timeout` | `RunSSHPull` with `updateJobResult` |
| `Crash` | restart with `Initialize` |

`AfterError` is what `AddSSHPullJob` may leave when it returns an error. A
cancelled context makes everything that the pull still does fail, so `Timeout`
ends it in one step. `calm` and `alone` are history variables: they say where
the code promises nothing. `calm` ends when an onboarding overlaps another
request, or a failed commit is restored beside one, or a change of the schedule
fails; `alone` when two pulls overlap.

### Enrollment

A machine has a host name, an `/etc/machine-id` and one configuration file,
which is named by the host whose token it holds. An enrolment is the agent's
process and its request in one record: the token is checked, the host inserted
and committed (`RegisterCheckToken`, `RegisterCommit`), the answer received or
lost, the file truncated and written (`SaveTruncate`, `SaveWrite`), with an end
possible in between (`HangUp`, `RegisterRollback`, `LoseAnswer`, `SaveFail`).
`Sync`, `IngestCheck` and `IngestCommit` split `IngestAgentSnapshot` where the
row it checked may change. `vouched` and `renamed` are history variables: who was
approved, and which hosts an administrator renamed. `StrandedStaysSilent` is about
hosts that nobody holds the token of (`Held`): what a lost answer leaves behind.

### Accounts

An instance is a server process that runs `TryInitialSetup` statement by
statement; its name also stands for the administrator it creates and the password
it prints. A request may carry any password, the printed ones included: the code
checks the length only. A hash is a number that is never used again (bcrypt salts
it), so that a token signed with an old hash is told from a new one, also when the
password is the same. `CompleteInitialSetup` and
`UpdateProfile` are split into their reads and their commit; `rowLock` is the row
lock that an e-mail change takes. `alone` and `typed` are history variables: a
request read what is still true; the new passwords that requests carried.

### Settings and WriteOnce

Every query is a step. `Callers` are calls of `GetGlobalSSHKeyPair`: read, read
again in a transaction, insert unless there, commit, read. `WriteOnce` is what
they promise; `KeyIsWrittenOnce` is the refinement, with the stored key as the
value and the calls' results as the answers (`Keys == INSTANCE WriteOnce WITH
...`). A request of the settings page goes through user, question, SMTP and
frequency, each only if it is in the request, and sets the report's job after the
last two; `calm` is a history variable that says that no two requests overlapped
and none failed since the start, which itself did not fail. `InitializeFail` is a
start whose errors are only logged; `SendFail` a report that is not sent, for want
of settings or of a mail server, which River tries again (`RetryReport`) or
discards.

### Decisions, Views and PatchCycle

Versions are numbers, since `Versions` shows the comparisons to be orders; the
pieces the code cuts out of package names are given by `Parts`. The collapse of
superseded decisions goes through the advisories one by one, as the code's loop
does (`KeepPreferred` is its body), and `BuildDecisions` returns the results for
every order of them. `PagesAgree` has three parts: the highest action on the
pages (`TopAgrees`), the number of entries (`CountsAgree`) and the kernel page's
promise (`PromiseKept`). `PatchCycle` takes a
match as one step (`HostMatch` has its interleavings) and adds what the code does
not contain: a package manager, a boot loader and an administrator who follows
the advice, which are marked external. Among its hosts are those that the code's
comparison of kernels goes wrong for; `Overtakes` says what such a host has, a
kernel package that the code takes for newer than anything the host can boot, and
`RebootCures` and `AdviceConverges` name it as their exception. Of fixes with
one build and of references with one severity the code keeps the first it meets;
they differ in what the records here leave out (stream, NEVRA, evidence tier, the
wording of a severity), so `SelectBestFix` is the maximum of the builds.

### Versions, Backoff, Collect, ScopeMapping and Algorithms

A text in `Versions` is a sequence of characters, since the comparisons go by
characters; elsewhere it is the sequence of the words the code splits it into.
The loops of the two comparisons are recursive functions on pairs of texts.
`Collect` has the agent's parsers and the server's copies of them side by side; a
repository is the texts that streams search (id, label and base URL, as sets of
words), and `WellFormed` says what a machine can print. `Numerals` are the texts
that are numbers and `Leading` those that begin with one, which is what the agent's
`Sscanf` takes. `GrepPrints` follows GNU grep, whose `-d skip` overrides the `-r`
before it: the script reads `/etc/apt/sources.list` and no file of
`sources.list.d`. `ImportStreams` is what an import leaves of the streams: it
removes those of the scope's vendor and major version and those of the database's
ids, and adds the database's. `NextRetry` shifts in 64 bits: `Shifted` has the bits
that are left, and `Product` the number as long as none is lost. `Algorithms` has one action per question, which
runs the algorithm on one input of the run.

## Runs

| Run | Result | Shows |
| --- | --- | --- |
| `host_match` | passes, 225,025 states | `NoOrphanRows`, `NoForeignRecords`, `CountsCoverRecords`; `EventuallyUpToDate`: stale and failed matches are repaired by the periodic rematch |
| `host_match_reflected` | violated | a match that resolved its streams before the first import ends after the rematch and overwrites it with "investigate" |
| `scope_sync` | passes, 819,044 states | `SyncedMeansImported`, `StoredFilesWhole`; `AdvisoriesAdvance`: neither an import nor the row goes back, unless the publisher does; `EventuallySynced` |
| `ws_hub` | passes, 911,848 states | `NoSendOnClosed`, `NoLostWakeup`; `CloseCompletes` |
| `ssh_pull` | passes, 1,026,410 states | `ScheduleFollowsRow`, `DeletedLeavesNothing`, `VersionFollowsSnapshot`, the inductive `PullInv`; `PulledAgain`, `DeletedJobsEnd` |
| `ssh_pull_deleted` | violated | an onboarding that overlaps a deletion schedules the deleted host |
| `enrollment` | passes, 421,972 states | `OneMachinePerHost`, `SnapshotsVouched`, `OneHostPerMachine`; `StrandedStaysSilent`, `EnrolledReports` |
| `accounts` | passes, 1,550,754 states (up to symmetry) | `OneAdmin`, `BootstrapPasswordDies`; `ReplacedKnowingly`, `SessionsEnd` |
| `settings` | passes, 334,359 states | `JobFollowsSettings`; the refinement `KeyIsWrittenOnce`, `PasswordKept`, `ReportsGoOut` |
| `patch_cycle` | passes, 28,481 states | `NoExposureDropped`, `OrderIndependent`, `PagesAgree`, `RebootCures`; `AdviceConverges` |
| `algorithms` | passes, 174,562 states | `VersionOrder`, `ReadsBack`, `BackoffBounded`, `ReportsAlike`, `ScopesApart` |
| `algorithms_tilde` | violated | `0~0` is newer than `0` for `compareRPMVersion` |

The violated properties state what a document of the repository says;
`PROJECT.json` quotes it under `findings`. `MatchInv`, `SyncInv`, `HubInv`,
`EnrolInv`, `AccountsInv`, `SettingsInv` and `PatchInv` are the inductive invariants behind
the properties of their modules; the proofs establish them, TLC checked them
first, and no run lists them.

### Bounds

- `HostMatch`: one host, two handlers and the sync, two snapshots, two imports,
  one failure. Two snapshots are needed for a stale match, two imports for a
  match that sees both, two handlers for two matches of a host beside the
  sync's. The three builds share an advisory under another stream, or a stream
  with another advisory, so that every constraint can be violated. Hosts only
  meet in the sync's list; the proofs cover any number of them.
- `ScopeSync`: three builds, one withdrawal, one trigger, three failures (a wrong
  download, an error, a timeout or a crash each), one retryable job (a second is
  discarded as if its attempts were used up). Three builds and a withdrawal
  are enough for an import that is not recorded and a manifest that returns to the
  recorded build.
- `WSHub`: one topic of each kind, a buffer of two that one topic can fill, two
  callbacks at once, two writes per topic, two client messages, one failure.
  Deadlock is not checked: a connection that has ended takes no step.
- `SSHPull`: two requests at once, the worker and one manual pull, two
  frequencies, two versions, one job waiting for a retry, one failure (of a
  step, a timeout or a crash). Two frequencies tell the old schedule from the
  new one, two versions a stale write from a fresh one. Deadlock is not
  checked: a deleted host takes no step.
- `Enrollment`: two machines with one host name, two host ids (so one may be
  deleted and another registered), one token, one loss. Ids run out, so deadlock
  is not checked.
- `Accounts`: two instances, two requests, one password beside the two printed
  ones, any of which a request may choose, two e-mails, three stored passwords
  (creation, setup, change), one crash. Deadlock is not checked: no password can
  be stored after the third.
- `Settings`: two calls for the key, two requests, two hours, one password, two
  faults (a failed query, start or mail, or a restart): the second start may fail.
- `PatchCycle`: eight hosts (RPM with and without kernel headers, APT with an image
  alone, with Ubuntu's modules and metapackage, with Debian's common headers and
  with two flavours, a distribution without streams, and one whose
  package has a rule that cannot be read), and four advisories: two kernels, a
  fix per architecture, stream and source, a vulnerability without a fix,
  a malformed rule, security and not. One report with a failed query.
- `Algorithms`: all pairs of texts of up to three out of six characters (letter,
  digits, zero, dot, plus, tilde), builds whose names hold digits and dots,
  seventy attempts (the shift overflows from the 31st on), two usual machines and those that
  differ from them in a part or two, all pairs of the distributions' releases
  under mappings that are in order and mappings that are not.

### Fairness

- `HostMatch`: handlers and the sync worker keep running (weak fairness of their
  steps) and the periodic job starts a sync again and again (`SkipImport`).
  Ingestion, import, deletion and failures have none.
- `ScopeSync`: the worker, River's completer, retries and rescuer go on, the
  refresh interval elapses, a host keeps sending snapshots, and the publisher
  has published something. Triggers, timeouts, crashes have none.
- `WSHub`: goroutines run, timers fire, a read returns once its context is
  cancelled.
- `SSHPull`: requests and pulls in progress go on, River works, retries and
  rescues, and the interval elapses although the frequency may be changed
  (which starts the interval anew). Requests, manual pulls and failures have
  none.
- `Enrollment`: systemd's timer starts a sync again and again, and a request that
  is not lost ends. Enrolment and approval have none.
- `Accounts` has no liveness property and no fairness.
- `Settings`: a request that has begun goes on, the server starts, its clock runs
  and its worker works. Failures have none, and there are finitely many.
- `PatchCycle`: a match that is due runs, the agent reports, and the
  administrator does what the rows ask for. The last one is an assumption about
  the environment: `AdviceConverges` says what happens to those who follow the
  advice.

## Proofs

Each proof module shows `Init => Inv`, `Inv /\ [Next]_vars => Inv'` with one
lemma per action or group of actions, and `Spec => []Inv`; the properties follow
from `Inv`.

- `HostMatchProofs`: `MatchInv` adds to the properties that a match with an open
  transaction holds its host's row lock (`LockHeld`) and that snapshot ids are
  used once and belong to the host a match names (`SnapshotsOwned`). The lock is
  what makes `NoForeignRecords` inductive: another match of the same snapshot
  would need it. Theorems: `MatchInvariant`, `TypeCorrect`, `NoOrphans`,
  `MatchesDoNotCollide`, `CountsCover`.
- `ScopeSyncProofs`: builds that were not taken back are not above the manifest,
  and the row's build, the imported build and the run's target are ordered as long
  as they are such builds (`Ordered`, `RunOrdered`); a run past its import has
  imported what it will save, or skipped what the row names. That order is why
  skipping an import is sound, and why neither the imported build nor the row goes
  back, whatever fails between the two. Theorems: `SyncInvariant`, `TypeCorrect`,
  `FilesWhole`, `SyncedIsImported` and the action property `NeverBack`, for any
  number of withdrawals. The second part of the module is about
  `Algorithms`, see below.
- `WSHubProofs`: the broker's maps agree with `sub.Topics`, and with the hub's
  active topics except while the reader is between the two updates; a timer in
  the map that is armed is counted in `armed`; a topic whose data is behind what
  was published has an event, a timer or a callback under way. Theorems: `HubInvariant`,
  `TypeCorrect`, `PublishIsSafe`, `WakeupsKept`.
- `SSHPullProofs`: `LockInv` ties the row lock to the update in progress,
  `KnowsInv` says that what a request has read is still true while it is calm
  and where the schedule stands at its step, `ScheduleInv` that the schedule is
  right when no request is between the two changes; `RowsInv` and `VersionInv`
  do the same for pulls. The schedule alone is not inductive: whether a commit
  or a restoration makes it right depends on what the request read. Theorems:
  `PullInvariant`, `TypeCorrect`, `ScheduleAgrees`, `DeletedStaysDeleted`,
  `VersionAgrees`.
- `EnrollmentProofs`: `EnrolInv` adds to the properties what a request knows at
  each of its steps: a token in a file or in an answer was issued for a host that
  is there or was deleted (`FilesIssued`, `AnswersIssued`), a
  registration has a host once it has an answer (`EnrolChecked`), and the
  row that an ingestion checked still has that machine and approval, or was
  deleted (`SyncChecked`, `RowsChecked`). `OneMachinePerHost` alone is not
  inductive: `IngestCommit` writes the machine id of a row that was read earlier,
  and only `SyncChecked` says that the row has not got another one since.
  `OneHostPerMachine` needs that names are not shared (`TokensNamed`) and that a
  host has the name its machine registered unless it was renamed
  (`NamesRegistered`). Theorems: `EnrolInvariant`, `TypeCorrect`,
  `MachinesKeptApart`, `OnlyVouchedReport`, `RetriesLeaveOneHost`, and the action
  properties `StrandedForGood` and `DeletedStaysDeleted`: a host without a holder
  stays silent, a deleted host never comes back.
- `AccountsProofs`: `AccountsInv` adds that the setting and the administrator
  are committed together (`AdminWithSetting`), that one transaction at most holds
  the setting's insert and only that one creates an administrator (`BootsOK`), that
  every token was signed with a hash that was used (`HashesUsed`), and
  that what a request has read is still true while it is alone or holds the row
  lock (`RequestsOK`). Theorems: `AccountsInvariant`, `TypeCorrect`,
  `OneAdministrator`, `PrintedPasswordDies`, and the action properties
  `PasswordReplacedKnowingly`, `EverySessionEnds` and `SetupNeverReopens`: no
  server that is late in `TryInitialSetup` opens the setup page again.
- `SettingsProofs`: `KeysOK`, the part of `SettingsInv` about the calls for the
  key: at most one transaction holds an insert that is not committed, none while
  a key is stored, and a call that will read for the last time finds a key.
  Without the first, two commits would each store a key. From it every step maps
  to a step of `WriteOnce` or leaves value and answers alone. `ScheduleOK`, the
  other part: a calm request is the only one, and at each of its steps the job is
  right except for what it has still to change (`RequestsOK`, `OneAtATime`,
  `DownOK`). Theorems: `KeyInvariant`, `KeyWrittenOnce`, `ScheduleInvariant`,
  `SettingsInvariant`, `JobFollows`, `StoredPasswordKept`.
- `PatchCycleProofs`: `PatchInv` says that the host and the snapshot have the
  shape of the code's rows (`HostOK`, `SnapOK`), that what is published is a
  finite set of advisories (`PublishedOK`), that a row asks for a build that fixes
  something (`RowsOK`), and that after a match the rows are a result
  of `BuildDecisions` for the stored snapshot (`RowsFresh`). The rest is about
  the operators. `PreferDecision` is a strict total order on the decisions about
  one package, so the loop keeps the greatest one whatever order it meets them in
  (`OneAnswer`); a decision is only replaced by one at least as urgent, so an
  exposure that passes the filters is in the rows (`ExposuresKept`); a host that
  runs its newest kernel satisfies every fixed build that is installed, unless the
  build is compared with a package that overtakes that kernel (`RebootSettles`); the pages' labels rank actions as the matcher does
  (`PagesShowOverall`); and a reboot that would reduce the CVEs needs a row that
  waits for activation (`RebootPromised`). The groups of a page partition its
  items, and there is one item per record that asks for something, so the sum of
  the groups' sizes is the number of records; with that `PagesTellTheSame` states
  all of `PagesAgree`. The other theorem is `PatchInvariant`.

The facts about the collapse hold for any number of advisories. The library's
induction theorems cannot be used for them; instead the proofs take a least
counterexample: the strict subsets of a finite set are well founded
(`FS_StrictSubsetOrderingWellFounded`), so a set of natural numbers has a least
element and a finite set with a total order a greatest one (`MinimalSubset`,
`LeastNat`, `Greatest`). A failure of the loop at the least position is then
refuted from the position before it. The sum over the groups of a page is treated
alike: the recursive function that adds them up is first shown to exist, by
writing down its solution, and then a smallest set of groups with a wrong sum is
refuted.

### The algorithms

The theorems about the algorithms are the second part of `ScopeSyncProofs`, which
extends `Algorithms` too; they hold for every set of inputs of the stated kind.

- `RetriesBounded` (attempts are positive numbers): the wait doubles for six
  attempts, and the seventh product is above the cap. From the eighth on the
  lowest or the highest bit of ten seconds, which are 23 apart, is moved above bit
  29 and still inside the width, or none is left: one of the tests catches every
  attempt.
- `SameReports` (machines are `WellFormed`): the server picks the script of the
  family that the agent finds, the two parsers of an installed package
  are the same function, a number is its own leading number, and on a plain machine
  the parsers of updates agree line by line, and each repository that one way
  reports has its texts in the other's or in `Untold` or `MadeUp`.
- `RpmOrder` and `DebianOrder`: each comparison gives two versions a sign, the
  opposite one when they are exchanged, and is transitive, for all texts. So the
  matcher's choice of the newest kernel and of the highest fixed build does not
  depend on the order it meets them in. The argument: the recursive function exists, since each
  turn shortens the texts (`LoopExists`, `RpmStep`, `DebianStep`); the order of
  what one turn takes off is total and transitive, from the first place where two
  words differ (`BytesTransitive`, `WordsTransitive`) and from numbers by length
  (`NumeralsTransitive`); what lies between two segments that compare as equal is
  equal to both (`SegmentsBetween`, `TurnsBetween`), so a shortest counterexample
  has a shorter one.

### Assumptions

They are those the modules state, and TLC evaluates them on every run: bounds are
naturals, the sets of handlers and values are disjoint where the code keeps them
apart. `AccountsAssumption` keeps the names of printed passwords and of others
apart, not what requests choose. `CollectAssumption` says that a number begins with
itself. `AlgorithmsAssumption` says that the attempts of a job are positive, as
River counts them, and that machines are `WellFormed`: update lines have a number of words, a
section's `enabled` is absent or says yes or no, and `ID_LIKE` names
distributions of the machine's own family. Those of `PatchCycle` say of its constants

- that names, versions and fields have the types of the code's columns
  (`PartsAssumption`, `HostsAssumption`), that an APT kernel image is named by its
  ABI and flavour, installed once, and numbered by its ABI, and that RPM and APT
  kernels do not meet on a host: dpkg and the distributions see to that;
- that advisories have ids of their own and finitely many rules, fixes and CVEs
  (`AdvisoriesAssumption`), which are the database's keys and rows, and that an
  APT kernel has a name for each build that fixes something.

### Only model-checked

Liveness (`EventuallyUpToDate`, `EventuallySynced`, `CloseCompletes`,
`PulledAgain`, `DeletedJobsEnd`, `EnrolledReports`, `ReportsGoOut`,
`AdviceConverges`): fairness is out of the prover's reach.

Of `Algorithms`: `VersionOrder`, that the comparisons are the orders of keys read
off the whole texts (that they are orders is proved), and `ReadsBack`. Keys,
numerals and parsers are folds over a text of any length, and what a fold
computes needs induction over data. `ScopesApart` reads numbers and words out of
scope keys, which the run gives as tables; its condition on the mappings
(`InOrder`) is part of the property, and the run has mappings on both sides of it.

## Observations

What the models showed beside the properties; none of it is a property that holds.

- `SyncScope` skips the import when its row has the manifest's hash. After an
  import whose row update failed, a publisher that returns to the earlier build
  finds it skipped: synced, with the other build's rows. Without `TakenBack` in
  `SyncedMeansImported` TLC finds this in `scope_sync`.
- `docs/api/websocket.md` (lines 84 and 107) says that topics are pushed when their
  data changes. Nothing is published when an SSH host is onboarded (`hosts.go:945`)
  or a scope becomes pending or syncing (`advisory_sync.go:187`, `205`, `461`): a
  client sees it with the next published change. An event that meets a buffer full
  of other topics' events is dropped and not made up for.
- Two callbacks of one topic read and write without excluding each other, so a
  client may end on the older data. A timed-out pull or sync keeps its status
  "running" or "syncing", since the error handling uses the cancelled context.
- Configured scope mappings replace the default ones. `docs/guides/scope-mappings.md`
  (line 68) says that "the defaults are used as a fallback". Two configured scopes of one
  vendor and major version, say for two architectures, remove each other's
  streams when they are imported. The guide's own `myorg:rocky-9-staging` names a
  vendor that no stream has, so its import leaves withdrawn streams behind; so does
  a mapping whose version is not the major one. Ubuntu 24.10 has no scope, and is
  matched with the streams of 24.04 when another host brings them.
- After the collapse a host's counts of severities count packages, not
  advisories, and the kernel page understates what the latest kernel leaves.
- Kernel packages that overtake the kernel that is booted ask for a reboot for ever
  or too early: Ubuntu's metapackage `linux-image-generic`, whose version is above
  the images'; headers that are updated before their image or without one; Debian's
  `linux-headers-<abi>-common`, which is compared with `-amd64` by its letters
  (`matcher.go:676-682`); and the second flavour of an ABI.
- `compareVersionSegments` of the kernel page is no order for words that mix
  letters and digits or have leading zeros.
- The SSH script ends each query with `|| true`: a failing package query is
  stored as a host without packages, which needs nothing. The agent fails
  instead.
- The server's parser of `dnf check-update` cuts names at their first dot
  (`python3.11`), keeps the epoch of APT updates in the version, and takes the
  suites of disabled `.sources` blocks; the agent takes a repository section
  without `enabled` for disabled. Their lists of distributions differ (agent: ol,
  pop, raspbian; server: fedora and `ID_LIKE`).
- Of repositories the SSH pull reports less than the agent, and a stream that is
  found by its base URL or component is found for one way only: RPM base URLs are
  empty (the `FIXME` at `ssh_pull.go:903`), deb822 blocks get the address
  `deb822.local`, and files of `sources.list.d` are not read, since `-d skip`
  overrides `-r` in GNU grep. The agent falls back to D-Bus's machine id, the
  script does not; a version such as `9x` is 9 for the agent and 0 for the server.
- Two setups whose transactions overlap both succeed; the second one's credentials
  stay, and the first one's session ends (`SessionsEnd`). The setup accepts the
  printed password as the new one. A crash between the commit of the administrator
  and the print leaves a password that nobody knows and that no later start
  replaces.
- A host that was renamed does not stop its machine from registering a second one.
- A start whose report schedule fails (`periodic.go:103-112`) runs without reports
  until the settings are saved or the server starts again.

## Plan

1. An abstract specification of a scope's content that `ScopeSync` implements.
2. A proof of `ScopesApart` for every list of mappings.
3. What `Value` computes for a numeral, and from it the two parts of
   `VersionOrder` that compare numbers by value.

## Not modelled

Request decoding and response encoding, the text of mail reports, the lifecycle
catalogue (look-ups in an embedded list), the audit log (independent inserts whose
errors are logged), the dashboard, configuration and migrations, and generated
code other than the queries. Evidence tiers and reason texts of decisions, token
expiry, the sign and `(none)` of epochs in version texts, and what an import reads
from SQLite row by row are left out of the modules that are there.
