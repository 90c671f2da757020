SPECIFICATION Spec
CONSTANTS
  Kinds = {"text"}
  Outcomes = {"reply"}
  Messages = 1
  MAX_SEND_ATTEMPTS = 2
  SendFailures = 0
  Logins = 2
  Disconnects = 1
  StartFailures = 0
  Crashes = 0
  Expiries = 0
  TuiRuns = 0
  DiskResults = {TRUE}
CHECK_DEADLOCK FALSE
INVARIANT OneInFlight
