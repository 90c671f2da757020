\* Bridge: a text and a stop, two logins, refused prompts, a crash.  Delivery: two chunks,
\* one HTTP retry.  QrLogin: two refreshed codes, two wrong pairing codes.
SPECIFICATION LiveSpec
CONSTANTS
  Kinds = {"text", "stop"}
  Outcomes = {"reply", "aborted"}
  Messages = 2
  MAX_SEND_ATTEMPTS = 3
  SendFailures = 2
  Logins = 2
  Disconnects = 0
  StartFailures = 0
  Crashes = 1
  Expiries = 0
  TuiRuns = 0
  DiskResults = {TRUE}
  Chunks = 2
  MaxRetries = 1
  UPLOAD_MAX_RETRIES = 3
  MAX_QR_REFRESH_COUNT = 3
  WrongCodes = 2
CHECK_DEADLOCK FALSE
INVARIANTS ShownInOrder ReturnMeansAll PollsThisQr RetryAfterRejection
PROPERTIES
  QueueAdvances
  AdmittedEnds
  CallEnds
  LoginEnds
