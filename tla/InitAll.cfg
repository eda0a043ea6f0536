SPECIFICATION EccSpec
CONSTANTS
    Table <- VendorTable
    World <- KnownWorld
    Adapters <- AllAdapters
    Junk = 255
    Faults = {"error"}
INVARIANTS
    TypeOK
    RightModel
    ReadyForCalls
    AllUnlocked
    QuadAsChosen
    BufferRead
    FlipsReported
CHECK_DEADLOCK FALSE
