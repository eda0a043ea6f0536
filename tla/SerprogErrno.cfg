SPECIFICATION Spec
CONSTANTS
    Drvs = {"serprog"}
    Bytes = 8
    Field = 10
    MaxTrx = 10
    MaxTransfer = 100
    MaxCalls = 2
    Faults <- LineFaults
    Eio = 5
    MapLen = 2
    OpBuf = 6
    BufSize = 3
    LenMod = 16
    ResetWrites = 2
INVARIANTS
    AmountRead
CHECK_DEADLOCK FALSE
