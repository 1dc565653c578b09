\* Two requests at once, a scheduled and a manual pull, one failure.
CONSTANTS
  Handlers = {h1, h2}
  Manual = {m1}
  Worker = Worker
  None = None
  MaxFreq = 2
  MaxOS = 2
  MaxRetryable = 1
  MaxFailures = 1
SPECIFICATION FairSpec
INVARIANTS ScheduleFollowsRow DeletedLeavesNothing VersionFollowsSnapshot PullInv
PROPERTIES PulledAgain DeletedJobsEnd
\* A host may be deleted for good.
CHECK_DEADLOCK FALSE
