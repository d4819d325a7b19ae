SPECIFICATION Spec
CONSTANTS
    Threads = {t1, t2}
    Names = {ann, bob}
    Emails = {mailA, mailB}
    CutEmails = {mailA}
    Quota = 2
    Cooldown = 2
    VerificationTtl = 2
    Kinds = {"register", "verify", "place", "forgive"}
    MaxTime = 3
    MaxRequests = 4
    MaxFaults = 2
SYMMETRY Symmetry
INVARIANTS
    TypeOK
    FileCurrent
    QuotaHolds
    StatusTellsTruth
    AnsweredAccountKept
    NoSharedIdentity
CHECK_DEADLOCK FALSE
