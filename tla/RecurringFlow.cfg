SPECIFICATION Spec
CONSTANTS
    Delivers = {d1}
    Users = {u1}
    Ops = {"pause", "resume", "cancel"}
    MaxWork = 3
    MaxPosts = 3
    MaxFailures = 2
    WorkTries = 2
    DeliverTries = 2
    RequiresApproval = FALSE
    AgentFails = FALSE
    MayFail = FALSE
    Overlap = FALSE
    Stale = TRUE
INVARIANTS
    TypeOK
    DeliveredOnce
    NextRunIsFed
    KeyIsKept
CHECK_DEADLOCK FALSE
