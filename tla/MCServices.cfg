SPECIFICATION PartSpec
CONSTANTS
  Delivers = {d1}
  Users = {u1}
  Ops = {"pause"}
  MaxWork = 4
  MaxPosts = 4
  MaxFailures = 2
  WorkTries = 2
  DeliverTries = 2
  RequiresApproval = FALSE
  AgentFails = FALSE
  MayFail = FALSE
  Overlap = FALSE
  Stale = FALSE
  Uploads <- SomeUploads
  Named <- SomeNamed
  Sizes = {1, 2, 3}
  MaxFile = 2
  MaxTotal = 3
  EmptyAnswers = TRUE
  Callers = {c1, c2}
  Signals = {"SIGTERM"}
  EarlySignals = FALSE
  CronAtExit = FALSE
  MaxClients = 3
  Fallbacks = {f1, f2}
  MaxReconnect = 2
  MaxDelay = 2
  Restarts = FALSE
  MaxBreaks = 5
  Threads = {s1, s2}
  Msgs = {m1, m2}
  SerialThreads = TRUE
  Devices = {d1}
  Lives = {2}
  Services = {memory, sandbox}
  RenewBefore = 1
  Week = 3
  Hour = 2
  MaxTime = 5
  MaxMade = 3
  Tokens <- SomeTokens
  Documents <- SomeDocuments
  Server = "svc"
  RootIssuers = {}
  Asked <- SomeResources
  Ttl = 1
  Validations = {v1, v2}
  Serial = TRUE
  Chats = {"s"}
  Tabs = {t1}
  ToolCalls <- SomeToolCalls
  Parts = {p, q}
  Names = {"x"}
  BrowserTools = {"b"}
  MaxConns = 2
  MaxCalls = 2
  MaxCommits = 2
  Hasty = FALSE
  Alike = FALSE
  VoiceCalls = {v1, v2}
  Impatient = FALSE
  Repeats = FALSE
  Leaves = FALSE
  StatusFails = FALSE
  MaxFails = 2
  MaxReloads = 2

  
  
  
PROPERTIES
  RunsGoOn
CHECK_DEADLOCK FALSE
