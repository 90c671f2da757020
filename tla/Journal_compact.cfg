\* A full disk while compact writes.
SPECIFICATION Spec
CONSTANTS
  Turns = 1
  Instances = 1
  Logins = 1
  Crashes = 0
  Tears = 0
  CompactFaults = 1
  Expiries = 0
  ReadResults = {TRUE}
  WriteResults = {TRUE}
INVARIANT NothingLost
CHECK_DEADLOCK FALSE
