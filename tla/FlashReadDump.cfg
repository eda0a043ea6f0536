SPECIFICATION FairSpec
CONSTANTS
    PageSize = 2
    PagesPerEraseblock = 2
    EraseblocksPerLun = 2
    PlanesPerLun = 2
    LunsPerTarget = 2
    NTargets = 2
    SizeMod = 64
    Reads <- ReadsMixed
    MaxTrouble = 1
    Zeroes = Zeroes
INVARIANTS
    TypeOK
    DumpPlaced
    DumpKeepsReadable
    DumpLength
    ScanComplete
PROPERTIES
    Terminates
