SPECIFICATION Spec
CONSTANTS
    b1 = b1
    Workers = {w1, w2, w3}
    Blocks = {b1, b2, b3}
    NoBlock = NoBlock
    Residencies <- MCResidencies
    Modes <- MCModes
    PushSize = 4
    Fills = {2}
    CopyPages = 1
    MapUnits = 1
    MaxMishaps = 1
    MaxOverdue = 1
SYMMETRY Symmetry
INVARIANTS
    TypeOK
    PushesEndedOnce
    MapPushFits
    PrivateInOrder
    AllWorkRuns
CHECK_DEADLOCK FALSE
