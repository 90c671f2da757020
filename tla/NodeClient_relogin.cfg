\* One expiry of the session.
SPECIFICATION Spec
CONSTANTS
  Sessions = 3
  Messages = 1
  Starts = 2
  Stops = 1
  Logins = 3
  Errors = 0
  Expiries = 1
  Crashes = 0
PROPERTY PicksUpCredentials
CHECK_DEADLOCK FALSE
