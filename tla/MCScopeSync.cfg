CONSTANTS
  MaxBuild = 3
  MaxWithdrawals = 1
  MaxTriggers = 1
  MaxRetryable = 1
  MaxFailures = 3
SPECIFICATION FairSpec
INVARIANTS SyncedMeansImported StoredFilesWhole
PROPERTIES AdvisoriesAdvance EventuallySynced
