SPECIFICATION FairSpec
CONSTANTS
    Drvs = {"serprog", "ch347", "fx2qspi"}
    Bytes = 8
    Field = 10
    MaxTrx = 10
    MaxTransfer = 100
    MaxCalls = 3
    Faults <- AllFaults
    Eio = 5
    MapLen = 2
    OpBuf = 6
    BufSize = 3
    LenMod = 16
    ResetWrites = 2
INVARIANTS
    TypeOK
    InSync
    PageWhole
    OnlyRefusalsFail
    Released
PROPERTIES
    CallsEnd
CHECK_DEADLOCK FALSE
