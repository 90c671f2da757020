\* Journal: two turns, torn lines, failing reads and writes, a crash, /new.
\* The other parts: the bounds README.md explains.
SPECIFICATION PartsSpec
CONSTANTS
  Turns = 2
  Instances = 2
  Logins = 1
  Crashes = 1
  Tears = 1
  CompactFaults = 1
  Expiries = 1
  ReadResults = {TRUE, FALSE}
  WriteResults = {TRUE, FALSE}
  Batches = 2
  BatchSize = 2
  Messages = 3
  TypingCalls = 2
  Relogins = 2
  limit = 5
  TextLength = 7
  Items <- FourItems
  Letters = {"a", "b"}
  FilterLength = 2
  MAX_VISIBLE = 2
  TIMEOUT_PRESETS <- TwoPresets
  CustomTimeout = 7
  Users = {1, 2}
  Toggles = 1
  Openings = 1
  Starts = 2
  Sessions = 3
  Calls = 2
  News = 2
  Faults = 1
  Timeouts = {1, 2}
  AgentStarts = 2
  Ticks = 5
INVARIANTS
  ConfirmedKept
  LossBounded
  OrderKept
  Accounted
  CanSend
  CleanIsSaved
  TicketServes
  ChunksAreText
  CutsAtBreaks
  SelectionShown
  PairedOnce
  RuntimeIsFile
  NoneLeaks
  ArmedIsConnected
  ForItsNew
  NewIsAnswered
  NoticeIsDue
PROPERTY ChangesSelected
CHECK_DEADLOCK FALSE
