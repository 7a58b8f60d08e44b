SPECIFICATION FairSpec
CONSTANTS
    Delivers = {d1}
    Users = {u1}
    Ops = {"pause", "reschedule"}
    MaxWork = 2
    MaxPosts = 1
    MaxFailures = 2
    WorkTries = 1
    DeliverTries = 2
    RequiresApproval = TRUE
    AgentFails = TRUE
    MayFail = TRUE
    Overlap = FALSE
    Stale = FALSE
INVARIANTS
    NoEmptyResult
PROPERTIES
    DeliverJobsEnd
CHECK_DEADLOCK FALSE
