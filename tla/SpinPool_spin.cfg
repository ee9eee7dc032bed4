SPECIFICATION SpinSpec
CONSTANTS
    Workers = {w1, w2}
    QueueSize = 2
    MaxWorkers = 0
    DynamicChoices = {TRUE, FALSE}
    VaSpaces = {vs0}
    NoSpace = NoSpace
    ServiceStatus = {"NV_OK"}
    MayTimeOut = FALSE
    CounterCap = 2
    MaxDispatches = 2
    Continuous = {TRUE, FALSE}
    Persistent = {TRUE, FALSE}
CHECK_DEADLOCK FALSE
INVARIANTS
    SegmentSound
PROPERTIES
    EveryCallReturns
