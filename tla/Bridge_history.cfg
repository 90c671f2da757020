SPECIFICATION Spec
CONSTANTS
  Kinds = {"text", "stop", "media"}
  Outcomes = {"reply", "aborted"}
  Messages = 4
  MAX_SEND_ATTEMPTS = 2
  SendFailures = 0
  Logins = 1
  Disconnects = 0
  StartFailures = 0
  Crashes = 0
  Expiries = 0
  TuiRuns = 0
  DiskResults = {TRUE}
CHECK_DEADLOCK FALSE
INVARIANT HistoryReachesPi
