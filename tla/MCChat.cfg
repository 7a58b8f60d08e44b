SPECIFICATION PartSpec
CONSTANTS
  Users = {u1}
  Bot = bot
  MaxEvents = 3
  MaxFaults = 1
  Requests = {1, 2}
  Sessions = {s1, s2}
  Nobody = Nobody
  Chunks = 2
  Stops = TRUE
  MaxMoves = 2
  MaxWrites = 4
  Askers = {a1, a2}
  Life = 4
  Margin = 2
  Attempts = 2
  Delay = 1
  MaxTime = 5
  MaxRefusals = 1
  Callers = {c1, c2}
  Fields = {f, g}
  Versions = 3
  Agents = {g1, g2}
  Names = {n}
  Calls = {1, 2}
  PerPage = 1
  MaxPages = 3
  Ahead = 2
  MostRaw = 3
  Limits = {1, 2}
  MaxRoom = 4
  MaxRows = 3
  Words = {v, w}
INVARIANTS
  RoomIsHeard
  ShownIsTrue
CHECK_DEADLOCK FALSE
