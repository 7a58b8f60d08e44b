SPECIFICATION PartSpec
CONSTANTS
  NoRow = NoRow
  MaxSessions = 2
  MaxEvents = 3
  MaxTurns = 2
  MaxRetries = 2
  Ticks = 1
  Attempts = 2
  MaxFailures = 2
  MaxCalls = 2
  Trigger = 6
  Keep = 3
  Reach = 2
  Fan = 2
  Once = FALSE
  MaxMessages = 14
  MaxFails = 1
  Threads = {s, t}
  Workers = {w}
  Tasks = {a, b}
  MaxPuts = 2
  MaxFaults = 2
  Tools = {1, 2}
  Blocks = {1, 2, 3}
  OnPage = {1, 2}
  Keys = {"x", "y", "z", "answers"}
  UserKeys = {"x", "z"}
  Asks <- PageAsks
  Loads = 2
  Reinserts = TRUE
  MaxUser = 1
INVARIANTS
  SessionsAreKept
  RemindersAreSent
  HistoryIsUsable
  CheckpointsAreFound
  EditsAreKept
PROPERTIES
  StepsAreSafe
CHECK_DEADLOCK FALSE
