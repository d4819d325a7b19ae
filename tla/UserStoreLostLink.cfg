SPECIFICATION Spec
CONSTANTS
    Threads = {t1, t2}
    Names = {ann}
    Emails = {mailA}
    CutEmails = {cut}
    Quota = 1
    Cooldown = 2
    VerificationTtl = 2
    Kinds = {"register", "verify"}
    MaxTime = 2
    MaxRequests = 1
    MaxFaults = 1
INVARIANTS
    AnsweredHasLink
CHECK_DEADLOCK FALSE
