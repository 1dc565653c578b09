\* Two instances that start at once, two requests, one crash.
CONSTANTS
  Instances = {i1, i2}
  Requests = {r1, r2}
  Passwords = {p1}
  Emails = {boot, mail}
  BootEmail = boot
  None = None
  MaxHash = 3
  MaxCrashes = 1
SYMMETRY Symmetry
SPECIFICATION Spec
INVARIANTS OneAdmin BootstrapPasswordDies
PROPERTIES ReplacedKnowingly SessionsEnd
\* No password can be stored once MaxHash are.
CHECK_DEADLOCK FALSE
