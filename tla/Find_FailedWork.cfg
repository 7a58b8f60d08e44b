SPECIFICATION Spec
CONSTANTS
    Delivers = {d1}
    Users = {u1}
    Ops = {}
    MaxWork = 3
    MaxPosts = 4
    MaxFailures = 5
    WorkTries = 1
    DeliverTries = 2
    RequiresApproval = FALSE
    AgentFails = TRUE
    MayFail = FALSE
    Overlap = FALSE
    Stale = FALSE
INVARIANTS
    FailedWorkCounted
CHECK_DEADLOCK FALSE
