SPECIFICATION Spec
CONSTANTS
    VaSpaces = {vs0, vs1}
    NoSpace = NoSpace
    Blocks = 2
    MaxFaults = 4
    MaxBlocks = 2
    BlockThreshold = 1
    FindMayFail = TRUE
    MmMayBeGone = TRUE
INVARIANTS
    TypeOK
    GroupsPartition
    LocksReleased
    ReplayOnlyClean
