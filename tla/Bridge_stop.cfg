SPECIFICATION Spec
CONSTANTS
  Kinds = {"text", "stop"}
  Outcomes = {"reply", "aborted"}
  Messages = 3
  MAX_SEND_ATTEMPTS = 2
  SendFailures = 0
  Logins = 1
  Disconnects = 0
  StartFailures = 0
  Crashes = 0
  Expiries = 0
  TuiRuns = 0
  DiskResults = {TRUE}
CHECK_DEADLOCK FALSE
PROPERTY StopHoldsBacklog
