\* An onboarding races a deletion; nothing fails.
CONSTANTS
  Handlers = {h1, h2}
  Manual = {m1}
  Worker = Worker
  None = None
  MaxFreq = 2
  MaxOS = 2
  MaxRetryable = 1
  MaxFailures = 0
SPECIFICATION Spec
INVARIANTS DeletedIsUnscheduled
\* A host may be deleted for good.
CHECK_DEADLOCK FALSE
