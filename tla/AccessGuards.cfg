SPECIFICATION Spec
CONSTANTS
    Threads = {t1, t2}
    Logins = {ann}
    MaxLogins = 3
    MaxPixels = 2
    Window = 2
    FailureLimit = 2
    LockSeconds = 3
    Ttl = 2
    MaxDelay = 1
    MaxTime = 4
    MaxRequests = 5
INVARIANTS
    TypeOK
    RateHolds
    LockHolds
PROPERTIES
    LockIsEarned
    SessionLasts
CHECK_DEADLOCK FALSE
