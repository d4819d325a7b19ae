SPECIFICATION FairSpec
CONSTANTS
    Width = 2
    Height = 1
    PaletteSize = 2
    MaxRun = 2
    MaxChanges = 1
    Fetches = {f1}
    EventSources = {TRUE, FALSE}
    FirstSequence = 1
    MaxOwnPixels = 1
    MaxSequence = 3
    MaxIncidents = 1
INVARIANTS
    TypeOK
    RefreshBringsCurrent
    StreamBringsCurrent
PROPERTIES
    FollowerConverges
