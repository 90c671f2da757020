\* start, stop, expiries, overlapping logins, a crash.
SPECIFICATION Spec
CONSTANTS
  Sessions = 2
  Messages = 1
  Starts = 2
  Stops = 1
  Logins = 3
  Errors = 1
  Expiries = 1
  Crashes = 1
INVARIANTS TypeOK OneLoop NoSkip StoredIsCurrent
CHECK_DEADLOCK FALSE
