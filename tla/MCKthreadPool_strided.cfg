SPECIFICATION SpacedSpec
CONSTANTS
    Workers = {w1, w2}
    QueueSize = 3
    MaxWorkers = 0
    DynamicChoices = {FALSE}
    VaSpaces = {vs0}
    NoSpace = NoSpace
    ServiceStatus = {"NV_OK", "NV_ERR_GENERIC"}
    MayTimeOut = TRUE
    CounterCap = 2
    MaxDispatches = 2
SYMMETRY Symmetry
CHECK_DEADLOCK FALSE
INVARIANTS
    TypeOK
    ServicedOnce
    CompletionMeansDone
    OkMeansAllServiced
    WritesOwnSegment
    NoLockAcrossWait
PROPERTIES
    ImplementsBatchService
