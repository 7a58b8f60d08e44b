SPECIFICATION Spec
CONSTANTS
    t1 = t1
    t2 = t2
    r1 = r1
    r2 = r2
    u1 = u1
    u2 = u2
    NoTask = NoTask
    Tasks = {t1}
    OneShot = {t1}
    Rooms = {r1}
    RoomOf <- FirstRoom
    Delivers = {d1}
    Responders = {u1}
    Expirers = {x1}
    MaxRequests = 2
    MaxRejections = 2
    MayFail = TRUE
    LockMayExpire = FALSE
    MaxCrashes = 1
INVARIANTS
    CrashSafe
CHECK_DEADLOCK FALSE
