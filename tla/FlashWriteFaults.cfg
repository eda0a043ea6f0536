SPECIFICATION FairSpec
CONSTANTS
    PageSize = 2
    PagesPerEraseblock = 2
    EraseblocksPerLun = 2
    PlanesPerLun = 2
    LunsPerTarget = 1
    NTargets = 2
    OobSize = 1
    Requests <- RequestsMixed
    FileLens = {3, 8}
    MarkedSrc = {0}
    Faults = {"read", "erase", "program", "mark", "silent"}
    Blank = Blank
    Garbage = Garbage
INVARIANTS
    TypeOK
    OffsetTracksPosition
    ImageLaidOut
    LayoutContiguous
    BlankAhead
    EraseRestCovers
    OnlyTailLost
PROPERTIES
    MarkedLeftAlone
    FrontUntouched
    MarksWhatItSkips
    StoresImage
    Terminates
