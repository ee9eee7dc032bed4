SPECIFICATION Spec
CONSTANTS
    VaSpaces = {vs0, vs1}
    NoSpace = NoSpace
    Blocks = 2
    MaxFaults = 3
    MaxBlocks = 3
    BlockThreshold = 2
    FindMayFail = FALSE
    MmMayBeGone = FALSE
INVARIANTS
    InlineUnderOwnLock
