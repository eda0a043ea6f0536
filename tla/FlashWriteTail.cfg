SPECIFICATION Spec
CONSTANTS
    PageSize = 2
    PagesPerEraseblock = 2
    EraseblocksPerLun = 2
    PlanesPerLun = 1
    LunsPerTarget = 1
    NTargets = 1
    OobSize = 1
    Requests <- RequestsVerified
    FileLens = {3}
    MarkedSrc = {}
    Faults = {"program"}
    Blank = Blank
    Garbage = Garbage
INVARIANTS
    ImageComplete
