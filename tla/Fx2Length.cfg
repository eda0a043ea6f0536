SPECIFICATION Spec
CONSTANTS
    Drvs = {"fx2qspi"}
    Bytes = 8
    Field = 10
    MaxTrx = 10
    MaxTransfer = 100
    MaxCalls = 3
    Faults <- NoFaults
    Eio = 5
    MapLen = 2
    OpBuf = 6
    BufSize = 3
    LenMod = 8
    ResetWrites = 2
INVARIANTS
    PageWhole
CHECK_DEADLOCK FALSE
