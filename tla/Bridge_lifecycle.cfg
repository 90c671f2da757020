SPECIFICATION Spec
CONSTANTS
  Kinds = {"text", "skill", "stop"}
  Outcomes = {"reply"}
  Messages = 3
  MAX_SEND_ATTEMPTS = 2
  SendFailures = 2
  Logins = 2
  Disconnects = 0
  StartFailures = 0
  Crashes = 1
  Expiries = 0
  TuiRuns = 0
  DiskResults = {TRUE}
CHECK_DEADLOCK FALSE
INVARIANTS
  TypeOK
  InFlightIsActive
  Durable
  TextFifo
  NotForgotten
PROPERTY ImplementsPromise
