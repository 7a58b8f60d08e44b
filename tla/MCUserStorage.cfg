SPECIFICATION Spec
CONSTANTS
    Requests = {r1, r2}
    MaxWrites = 2
    MaxEvents = 2
    MayFail = TRUE
    MayCorrupt = TRUE
    CleanupAlone = TRUE
    LateCrash = FALSE
    MaxCrashes = 1
INVARIANTS
    NothingLost
    HandleKept
    SkippedIsStored
SYMMETRY RequestSymmetry
CHECK_DEADLOCK FALSE
