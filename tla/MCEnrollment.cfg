\* Two machines with one host name, one enrolment at a time, one loss.
CONSTANTS
  m1 = m1  m2 = m2
  n1 = n1  n2 = n2
  i1 = i1  i2 = i2
  None = None
  Enrolments = {e1}
  Machines = {m1, m2}
  HostIds = {h1, h2}
  RegTokens = {t1}
  Names = {n1, n2}
  MachineIds = {i1, i2}
  ReportIds = {i2}
  Hostname <- MCHostname
  MachineId <- MCMachineId
  MaxLost = 1
SPECIFICATION FairSpec
INVARIANTS OneMachinePerHost SnapshotsVouched OneHostPerMachine
PROPERTIES StrandedStaysSilent EnrolledReports
\* Ids are used up and nobody has to go on.
CHECK_DEADLOCK FALSE
