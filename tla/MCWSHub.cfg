CONSTANTS
  Debounced = {hosts}
  Immediate = {host}
  BufferSize = 2
  Slots = {s1, s2}
  MaxChanges = 2
  MaxMessages = 2
  MaxFailures = 1
SPECIFICATION FairSpec
INVARIANTS NoSendOnClosed NoLostWakeup
CHECK_DEADLOCK FALSE
PROPERTY CloseCompletes
