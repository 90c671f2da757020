SPECIFICATION Spec
CONSTANTS
  Kinds = {"text", "media", "stop"}
  Outcomes = {"reply"}
  Messages = 3
  MAX_SEND_ATTEMPTS = 1
  SendFailures = 0
  Logins = 1
  Disconnects = 0
  StartFailures = 0
  Crashes = 0
  Expiries = 0
  TuiRuns = 1
  DiskResults = {TRUE, FALSE}
CHECK_DEADLOCK FALSE
PROPERTY ImplementsPromise
