SPECIFICATION Spec
CONSTANTS
    b1 = b1
    Workers = {w1}
    Blocks = {b1}
    NoBlock = NoBlock
    Residencies <- MCResidencies
    Modes <- MCUnsplit
    PushSize = 8
    Fills = {0}
    CopyPages = 1
    MapUnits = 1
    MaxMishaps = 0
    MaxOverdue = 0
INVARIANTS
    MappedMeansCopied
CHECK_DEADLOCK FALSE
