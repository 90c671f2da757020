SPECIFICATION FairSpec
CONSTANTS
  Kinds = {"text"}
  Outcomes = {"reply"}
  Messages = 2
  MAX_SEND_ATTEMPTS = 2
  SendFailures = 2
  Logins = 1
  Disconnects = 0
  StartFailures = 0
  Crashes = 0
  Expiries = 0
  TuiRuns = 0
  DiskResults = {TRUE}
CHECK_DEADLOCK FALSE
PROPERTY QueueAdvances
