\* A page with an event stream, no pixel of its own, one rollback.
SPECIFICATION FairSpec
CONSTANTS
    Width = 2
    Height = 1
    PaletteSize = 2
    MaxRun = 2
    MaxChanges = 2
    Fetches = {f1}
    EventSources = {TRUE}
    FirstSequence = 0
    MaxOwnPixels = 0
    MaxSequence = 1
    MaxIncidents = 1
PROPERTIES
    ScreenConverges
