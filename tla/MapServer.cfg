SPECIFICATION Spec
CONSTANTS
    Width = 2
    Height = 1
    PaletteSize = 2
    MaxRun = 2
    MaxChanges = 1
    Threads = {t1, t2}
    Kinds = {"pixel", "reset", "hourly", "rollback"}
    Asked = {1}
    EarlierLife = TRUE
    LogFields = 3
    MaxEntries = 2
    MaxJobs = 2
    MaxCrashes = 1
    MaxFaults = 1
SYMMETRY Symmetry
INVARIANTS
    TypeOK
    LiveFileCurrent
    MemoryIsReal
    ListedBackupIsWhole
    SafetyBackup
    LogsShowAnswered
    LogsTellTruth
PROPERTIES
    RestartKeepsAcked
    RollbackRestores
    ListedBackupKept
    ImplementsDurableMap
CHECK_DEADLOCK FALSE
