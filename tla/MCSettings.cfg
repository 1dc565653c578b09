\* Two calls for the key and two requests that overlap, two faults.
CONSTANTS
  s1 = s1  u1 = u1
  Callers = {c1, c2}
  Requests = {r1, r2}
  Hours = {9, 17}
  DefaultHour = 9
  Secrets = {s1}
  Users = {u1}
  None = None
  Inputs <- MCInputs
  MaxUpdates = 2
  MaxFaults = 2
SPECIFICATION FairSpec
INVARIANTS JobFollowsSettings
PROPERTIES KeyIsWrittenOnce PasswordKept ReportsGoOut
\* Calls and requests are used up and the report may be off.
CHECK_DEADLOCK FALSE
