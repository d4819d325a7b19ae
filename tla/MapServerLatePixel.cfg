SPECIFICATION Spec
CONSTANTS
    Width = 2
    Height = 1
    PaletteSize = 2
    MaxRun = 2
    MaxChanges = 1
    Threads = {t1, t2}
    Kinds = {"pixel", "reset"}
    Asked = {1}
    EarlierLife = FALSE
    LogFields = 3
    MaxEntries = 2
    MaxJobs = 2
    MaxCrashes = 0
    MaxFaults = 0
PROPERTIES
    FinalStateInBackup
CHECK_DEADLOCK FALSE
