\* Three cells in a row, two colours, runs cut at two cells: maps with two or
\* three runs, and runs that go on past the cut.  Four writes over a log of two
\* changes: the log is trimmed up to twice and a client may be behind it, at
\* its edge or ahead of it.
CONSTANTS
    Width = 3
    Height = 1
    PaletteSize = 2
    MaxRun = 2
    MaxChanges = 2
    MaxSequence = 4
    MaxSaved = 1
SPECIFICATION Spec
INVARIANTS
    TypeOK
    CacheFresh
    DiffReachesCurrent
    ReplyReachesCurrent
    LogAccountsForMap
    WholeFileRestoresImage
    TornFileIsRefused
    BrowserDecodesFullReply
