SPECIFICATION Spec
CONSTANTS
    w1 = w1
    w2 = w2
    Warps = {w1, w2}
    Pages = {1, 2}
    Accesses <- MCAccesses
    Bad <- MCBad
    MaxFaults = 3
    FetchLimits = {2}
    Configs <- MCConfigs
    Cooldown = 2
    TableSize = 4
    MaxBatches = 2
    MaxThrottled = 1
    ServiceErrors = {"more"}
    MaxAccesses = 2
    MaxDisturbances = 1
INVARIANTS
    NoInnocentCancelled
CHECK_DEADLOCK FALSE
