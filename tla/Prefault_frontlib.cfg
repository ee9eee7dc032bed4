SPECIFICATION FairSpec
CONSTANTS
    Threads = {t1, t2}
    Warps = {{t1, t2}}
    Base = 2
    NElems = 4
    ElemSize = 2
    PageSize = 4
    BlkPages = 2
INVARIANTS
    TypeOK
    TouchedOnce
    AccessTouched
    CountersExact
PROPERTIES
    EveryMissServed
