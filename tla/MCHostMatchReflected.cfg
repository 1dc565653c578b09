CONSTANTS
  h1 = h1
  i1 = i1
  i2 = i2
  s1 = s1
  s2 = s2
  a1 = a1
  a2 = a2
  b1 = b1
  b2 = b2
  b3 = b3
  None = None
  Hosts = {h1}
  Ingesters = {i1, i2}
  Syncer = Syncer
  Streams = {s1, s2}
  Advisories = {a1, a2}
  Builds = {b1, b2, b3}
  Links <- MCLinks
  MaxSnapshots = 2
  MaxImports = 2
  MaxFailures = 0
SPECIFICATION Spec
INVARIANT AdvisoriesReflected
