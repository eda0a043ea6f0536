SPECIFICATION EccSpec
CONSTANTS
    Table <- VendorTable
    World <- ContinuousWorld
    Adapters <- AllAdapters
    Junk = 255
    Faults = {"error"}
INVARIANTS
    ContinuousReadOff
CHECK_DEADLOCK FALSE
