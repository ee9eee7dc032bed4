SPECIFICATION Spec
CONSTANTS
    NumWorkers = 3
    MaxWorkers = 0
    KthreadMaxWorkers = 4
    QueueSize = 6
    SegmentSize = 4
    DefaultSegmentSize = 16
    DynamicSegments = {FALSE, TRUE}
    TargetSegments = 2
    MinSegmentFaults = 2
    MaxSegments = 3
    MaxGroups = 4
    FaultCounts = {1, 2, 4}
    Batches <- SmallBatches
    Modes = {"off", "whole", "segmented", "pipeline", "dynamic", "group_seg", "seg_parallel"}
    PushMayFail = TRUE
    DispatchStatus = {"NV_OK", "NV_ERR_TIMEOUT"}
INVARIANTS
    TypeOK
    PushesPaired
    WorkersSeeOpenPushes
    SegmentsPartition
    SharesPartition
