SPECIFICATION FairSpec
CONSTANTS
    Requests = {r1}
    Runs = {k1}
    Costs = {1, 3}
    Credits = 5
    Threshold = 2
    MaxAmount = 2
    MaxUsed = 5
    Overlap = FALSE
    MaxCrashes = 1
    MaxSlips = 1
INVARIANTS
    AmountsFit
    BilledOnce
PROPERTIES
    HeldIsClaimed
CHECK_DEADLOCK FALSE
