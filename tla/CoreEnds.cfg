SPECIFICATION FairSpec
CONSTANTS
    NDies = 2
    Blocks = {0}
    PageIds = {0}
    NPlanes = 1
    D1 = D1
    Data <- DataSet
    FF = FF
    Garbage = Garbage
    Calls <- CallsFew
    Faults = {"slow", "lost"}
PROPERTIES
    BitsKept
    CallReturns
