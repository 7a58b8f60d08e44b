SPECIFICATION PartSpec
CONSTANTS
  MaxMessages = 3
  Threshold = 2
  JitMin = 1
  Facts = {1}
  SlowSummaries = FALSE
  MaxFaults = 2
  Dids = {d1, d2, d3}
  Entities = {d1}
  Served = {d1, d2}
  Callers = {c1, c2}
  MaxCache = 2
  QueriesFail = TRUE
  MaxLapses = 2
  Requests = {1, 2}
  Keep = 1
  MaxBreaks = 3
  MaxAfter = 1
  Delegates = {}
INVARIANTS
  MemoryIsKept
  ServersAnswer
  AnswerIsStored
PROPERTIES
  BackupGrows
  KeepsHistory
  Settles
CHECK_DEADLOCK FALSE
