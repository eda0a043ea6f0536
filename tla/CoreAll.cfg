SPECIFICATION Spec
CONSTANTS
    NDies = 2
    Blocks = {0, 1}
    PageIds = {0}
    NPlanes = 2
    D1 = D1
    Data <- DataSet
    FF = FF
    Garbage = Garbage
    Calls <- CallsMixed
    Faults = {"error", "pfail", "efail", "uncor"}
INVARIANTS
    TypeOK
    CacheCoherent
    JobMatchesCall
    CacheFilled
PROPERTIES
    BitsKept
    ImplementsPageDevice
