SPECIFICATION Spec
CONSTANTS
  Kinds = {"text"}
  Outcomes = {"attach"}
  Messages = 2
  MAX_SEND_ATTEMPTS = 1
  SendFailures = 0
  Logins = 2
  Disconnects = 1
  StartFailures = 1
  Crashes = 0
  Expiries = 1
  TuiRuns = 0
  DiskResults = {TRUE}
CHECK_DEADLOCK FALSE
INVARIANT NotForgotten
PROPERTIES
  SettledOnlyWhenOver
  ImplementsPromise
