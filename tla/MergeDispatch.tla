---------------------------- MODULE MergeDispatch ----------------------------
(***************************************************************************)
(* uvm_kthread_dispatch_and_wait: how the coordinator cuts a batch of block  *)
(* groups into segments, opens and closes the shared copy/map pushes of each  *)
(* segment, and which share of a dispatch every worker id gets.  What the     *)
(* pool does between dispatch_start_inner and dispatch_wait_inner is          *)
(* KthreadPool's subject; here a dispatch returns a status.                   *)
(*                                                                         *)
(* Left out: continuous workers, the early uvm_push_end of copy_map_split,    *)
(* profiling.                                                                *)
(***************************************************************************)
EXTENDS Integers, Sequences, FiniteSets

CONSTANTS
    NumWorkers,         \* pool->num_workers
    MaxWorkers,         \* uvm_parallel_fault_max_workers, 0 = no limit
    KthreadMaxWorkers,  \* UVM_KTHREAD_MAX_WORKERS: push pairs, table entries
    QueueSize,          \* pool->queue_capacity
    SegmentSize,        \* uvm_merge_segment_size, 0 = the default
    DefaultSegmentSize, \* UVM_KTHREAD_SEGMENT_SIZE
    DynamicSegments,    \* values of uvm_merge_dynamic_segment_enable
    TargetSegments,     \* uvm_merge_dynamic_segment_target_segments
    MinSegmentFaults,   \* uvm_merge_dynamic_segment_min_faults
    MaxSegments,        \* uvm_merge_group_seg_max_segments
    Batches,            \* the batches: num_faults of each of their groups
    Modes,              \* the policies the (0644) module parameters may select
    PushMayFail,        \* may uvm_push_begin return an error?
    DispatchStatus      \* what dispatch_wait_inner may return

TableModes == {"dynamic", "group_seg", "seg_parallel"}
SegmentedModes == {"segmented", "pipeline"}

ASSUME DispatchAssumption ==
    /\ NumWorkers \in Nat \ {0} /\ NumWorkers <= KthreadMaxWorkers
    /\ MaxWorkers \in Nat /\ KthreadMaxWorkers \in Nat \ {0, 1}
    /\ QueueSize \in Nat \ {0}
    /\ SegmentSize \in Nat /\ DefaultSegmentSize \in Nat \ {0}
    /\ DynamicSegments \subseteq BOOLEAN
    /\ TargetSegments \in Nat /\ MinSegmentFaults \in Nat /\ MaxSegments \in Nat
    /\ \A f \in Batches : /\ f \in Seq(Nat \ {0})
                          /\ Len(f) \in 1 .. QueueSize
    /\ Modes \subseteq {"off", "whole"} \cup SegmentedModes \cup TableModes
    /\ PushMayFail \in BOOLEAN
    /\ DispatchStatus \subseteq {"NV_OK", "NV_ERR_TIMEOUT"}

VARIABLES
    pc, status,
    groups,             \* all_groups[].num_faults (group i is groups[i + 1])
    mode,               \* the policy selected for this batch
    seg_fault_threshold,
    (* the segment loop's locals *)
    cursor, seg_start, running_faults, faults_so_far, cur_slot, cur_push_open,
    (* pool->seg_parallel / pool->dynamic *)
    segments, workers_per_seg, opened_pairs, dynamic_active, seg_parallel_active,
    (* uvm_push_begin calls not yet matched by uvm_push_end, per push *)
    copy_push, map_push,
    (* pool->merge_dispatch_active, merge_state.state, merge_state.active *)
    merge_dispatch_active, merge_state, active,
    (* the dispatch: offset of batch_groups in all_groups, base, length *)
    batch_groups, queue_base, seg_num_items,
    (* history: how often each group was dispatched in this batch *)
    handed

callVars == <<status, groups, mode, seg_fault_threshold>>
scanVars == <<cursor, seg_start, running_faults, faults_so_far>>
slotVars == <<cur_slot, cur_push_open>>
tableVars == <<segments, workers_per_seg, opened_pairs>>
flagVars == <<dynamic_active, seg_parallel_active>>
mergeVars == <<merge_dispatch_active, merge_state, active>>
dispatchVars == <<batch_groups, queue_base, seg_num_items>>
vars == <<pc, callVars, scanVars, slotVars, tableVars, flagVars, copy_push, map_push,
          mergeVars, dispatchVars, handed>>

Pairs == 0 .. KthreadMaxWorkers - 1
Least(a, b) == IF a <= b THEN a ELSE b
Greatest(a, b) == IF a >= b THEN a ELSE b
-----------------------------------------------------------------------------
(* Segment formation and worker shares: pure functions of the batch. *)

\* pool->num_workers, limited by uvm_parallel_fault_max_workers
WorkerLimit == IF MaxWorkers > 0 THEN Least(MaxWorkers, NumWorkers) ELSE NumWorkers

\* num_active of dispatch_start_inner
NumActive(n) == Least(WorkerLimit, n)

\* The sum of the first k elements of f, for every k: faults before a group, worker
\* ids before a segment
Before(f) ==
    LET sum[k \in 0 .. Len(f)] == IF k = 0 THEN 0 ELSE sum[k - 1] + f[k]
    IN  sum

TotalFaults(f) == Before(f)[Len(f)]

\* merge_effective_segment_threshold
Threshold(f, adapt) ==
    LET base == IF SegmentSize > 0 THEN SegmentSize ELSE DefaultSegmentSize
        target == Least(Greatest(1, TargetSegments), Len(f))
        adaptive == (TotalFaults(f) + target - 1) \div target
    IN  IF adapt /\ TargetSegments > 0
        THEN Greatest(Greatest(1, MinSegmentFaults), adaptive)
        ELSE base

\* max_seg of the table policies
SegmentCap(m) ==
    Least(IF m = "dynamic" THEN KthreadMaxWorkers ELSE WorkerLimit,
          Greatest(1, MaxSegments))

\* Group i of f goes to the current segment: it is closed when its faults reach the
\* threshold; the last of at most cap segments takes all that is left.
ScanBlock(f, threshold, cap, p, i) ==
    IF Len(p.segs) = cap
    THEN [p EXCEPT !.segs[cap].count = @ + 1]
    ELSE IF p.faults + f[i] >= threshold \/ i = Len(f)
    THEN [segs |-> Append(p.segs, [start |-> p.start, count |-> i - p.start]),
          faults |-> 0, start |-> i]
    ELSE [p EXCEPT !.faults = @ + f[i]]

\* Segment boundaries of the table policies
TableSegments(f, threshold, cap) ==
    LET scan[i \in 0 .. Len(f)] ==
            IF i = 0 THEN [segs |-> <<>>, faults |-> 0, start |-> 0]
            ELSE ScanBlock(f, threshold, cap, scan[i - 1], i)
    IN  scan[Len(f)].segs

\* group_seg: workers in proportion to a segment's blocks, at least one and at
\* most one per block; the last segment takes the rest.  total - assigned is an
\* NvU32: below zero it wraps to more than any block count (QueueSize).
SegmentWorkers(segs, n, k, assigned) ==
    LET share == IF k < Len(segs) THEN (segs[k].count * NumActive(n)) \div n
                 ELSE IF assigned <= NumActive(n) THEN NumActive(n) - assigned
                 ELSE QueueSize
    IN  Least(Greatest(1, share), segs[k].count)

ProportionalWorkers(segs, n) ==
    LET alloc[k \in 0 .. Len(segs)] ==
            IF k = 0 THEN [w |-> <<>>, assigned |-> 0]
            ELSE LET p == alloc[k - 1]
                     w == SegmentWorkers(segs, n, k, p.assigned)
                 IN  [w |-> Append(p.w, w), assigned |-> p.assigned + w]
    IN  alloc[Len(segs)].w

\* The worker ids before segment k's (worker_seg_id / worker_local_id)
FirstId(k) == Before(workers_per_seg)[k - 1]

\* mutant: the last index is left out
StrideShort(lo, hi, step) == {i \in lo .. hi - 2 : (i - lo) % step = 0}

\* for (i = lo; i < hi; i += step)
Stride(lo, hi, step) == {i \in lo .. hi - 1 : (i - lo) % step = 0}

\* The items, relative to batch_groups, that uvm_kthread_worker_fn services
\* under batch id id when seg_num_items items are dispatched
Share(id) ==
    IF seg_parallel_active /\ mode = "group_seg"
    THEN UNION {Stride(segments[k].start + id - FirstId(k),
                       segments[k].start + segments[k].count, workers_per_seg[k]) :
                k \in {j \in DOMAIN segments :
                          id \in FirstId(j) .. FirstId(j) + workers_per_seg[j] - 1}}
    ELSE IF seg_parallel_active
    THEN IF id < Len(segments)
         THEN segments[id + 1].start .. segments[id + 1].start + segments[id + 1].count - 1
         ELSE {}
    ELSE Stride(id, seg_num_items, NumActive(seg_num_items))

\* The ids the policy gives a share to: with group_seg total_workers_dispatched of
\* them, otherwise batch_num_active
GivenIds ==
    IF seg_parallel_active /\ mode = "group_seg"
    THEN 0 .. FirstId(Len(segments) + 1) - 1
    ELSE 0 .. NumActive(seg_num_items) - 1

\* The ids that pass the gate of uvm_kthread_worker_fn (id < batch_num_active)
Ids == 0 .. NumActive(seg_num_items) - 1

\* The workers that service item i of the dispatch
Owners(i) == {id \in Ids : i \in Share(id)}

\* Rounding up, group_seg gives out more ids than pass the gate when segments are
\* small: 2 + 1 + 1 with 3 workers for segments of 4, 1 and 1 groups.
Starved == ~(GivenIds \subseteq Ids)
-----------------------------------------------------------------------------
Init ==
    /\ pc = "idle" /\ status = "NV_OK"
    /\ groups = <<>> /\ mode = "none" /\ seg_fault_threshold = 0
    /\ cursor = 0 /\ seg_start = 0 /\ running_faults = 0 /\ faults_so_far = 0
    /\ cur_slot = 0 /\ cur_push_open = FALSE
    /\ segments = <<>> /\ workers_per_seg = <<>> /\ opened_pairs = 0
    /\ dynamic_active = FALSE /\ seg_parallel_active = FALSE
    /\ copy_push = [p \in Pairs |-> 0] /\ map_push = [p \in Pairs |-> 0]
    /\ merge_dispatch_active = FALSE /\ merge_state = 0 /\ active = 0
    /\ batch_groups = 0 /\ queue_base = 0 /\ seg_num_items = 0
    /\ handed = [g \in 0 .. QueueSize - 1 |-> 0]

n_items == Len(groups)
at_end == cursor = n_items - 1

\* num_items > 0 groups arrive; the module parameters select the policy.  The
\* table policies compute their segments here, the segment loop scans on the fly.
BeginBatch(f, m, adapt) ==
    /\ pc = "idle"
    /\ groups' = f /\ mode' = m /\ status' = "NV_OK"
    /\ seg_fault_threshold' = Threshold(f, adapt)
    /\ handed' = [g \in 0 .. QueueSize - 1 |-> 0]
    /\ cursor' = 0 /\ seg_start' = 0 /\ running_faults' = 0 /\ faults_so_far' = 0
    /\ cur_slot' = 0 /\ cur_push_open' = FALSE
    /\ segments' = IF m \in TableModes 
                   THEN TableSegments(f, seg_fault_threshold', SegmentCap(m)) ELSE <<>>
    /\ workers_per_seg' = IF m = "group_seg"
                          THEN ProportionalWorkers(segments', Len(f)) ELSE <<>>
    /\ opened_pairs' = 0
    /\ pc' = CASE m = "off" -> "start"
               [] m = "whole" -> "open_copy"
               [] m \in SegmentedModes -> "scan"
               [] m \in TableModes -> "pair_copy"
    /\ seg_num_items' = Len(f)
    /\ queue_base' = IF m \in {"off", "whole"} THEN 0 ELSE queue_base
    /\ dynamic_active' = (m # "dynamic" /\ dynamic_active)
    /\ seg_parallel_active' = (m \notin {"group_seg", "seg_parallel"} /\ seg_parallel_active)
    /\ merge_dispatch_active' = (m # "off" /\ merge_dispatch_active)
    /\ merge_state' = IF m = "off" THEN 0 ELSE merge_state
    /\ UNCHANGED <<copy_push, map_push, active, batch_groups>>

\* A segment is closed at the threshold, unless the faults that remain would not
\* make a segment of their own, and with the last group.
SegmentCloses(running, remaining) ==
    \/ at_end
    \/ running >= seg_fault_threshold /\ remaining >= seg_fault_threshold

\* Segment: [seg_start .. cursor]
FormSegment ==
    /\ batch_groups' = seg_start
    /\ queue_base' = seg_start
    /\ seg_num_items' = cursor - seg_start + 1

\* One iteration of the segment loop, up to the segment dispatch scope
ScanGroup ==
    LET running == running_faults + groups[cursor + 1]
        so_far == faults_so_far + groups[cursor + 1]
    IN  /\ pc = "scan"
        /\ running_faults' = running
        /\ faults_so_far' = so_far
        /\ IF SegmentCloses(running, TotalFaults(groups) - so_far)
           THEN /\ FormSegment
                /\ pc' = IF cur_push_open THEN "reuse" ELSE "open_copy"
                /\ UNCHANGED cursor
           ELSE cursor' = cursor + 1 /\ UNCHANGED <<pc, dispatchVars>>
        /\ UNCHANGED <<callVars, seg_start, slotVars, tableVars, flagVars, copy_push,
                       map_push, mergeVars, handed>>

\* mutant: workers are always sent to slot 0
ActivateFirst ==
    /\ active' = 0
    /\ merge_dispatch_active' = TRUE
    /\ merge_state' = 2
    /\ pc' = "start"

\* The pair of cur_slot is open: workers may attach their blocks to it
Activate ==
    /\ active' = cur_slot
    /\ merge_dispatch_active' = TRUE
    /\ merge_state' = 2
    /\ pc' = "start"

\* uvm_push_begin failed: the dispatch runs with private pushes
FallBack ==
    /\ merge_dispatch_active' = FALSE
    /\ merge_state' = 0
    /\ pc' = "start"
    /\ UNCHANGED active

Opened(push, p) == [push EXCEPT ![p] = @ + 1]
Ended(push, p) == [push EXCEPT ![p] = @ - 1]
Succeeds == IF PushMayFail THEN BOOLEAN ELSE {TRUE}

\* The pair was opened in advance while the previous segment ran
ReuseOpenPair ==
    /\ pc = "reuse"
    /\ cur_push_open' = FALSE
    /\ Activate
    /\ UNCHANGED <<callVars, scanVars, cur_slot, tableVars, flagVars, copy_push,
                   map_push, dispatchVars, handed>>

OpenCopy(ok) ==
    /\ pc = "open_copy"
    /\ IF ok
       THEN copy_push' = Opened(copy_push, cur_slot) /\ pc' = "open_map"
            /\ UNCHANGED mergeVars
       ELSE FallBack /\ UNCHANGED copy_push
    /\ UNCHANGED <<callVars, scanVars, slotVars, tableVars, flagVars, map_push,
                   dispatchVars, handed>>

OpenMap(ok) ==
    /\ pc = "open_map"
    /\ IF ok
       THEN map_push' = Opened(map_push, cur_slot) /\ Activate /\ UNCHANGED copy_push
       ELSE copy_push' = Ended(copy_push, cur_slot) /\ FallBack /\ UNCHANGED map_push
    /\ UNCHANGED <<callVars, scanVars, slotVars, tableVars, flagVars, dispatchVars,
                   handed>>
-----------------------------------------------------------------------------
(* The table policies open one pair per segment, all or none. *)

\* The pairs opened so far are ended and the batch runs as a plain dispatch.  The
\* code leaves queue_base as it is.
Unwind(copies) ==
    /\ copy_push' = [p \in Pairs |-> IF p \in copies THEN copy_push[p] - 1 ELSE copy_push[p]]
    /\ map_push' = [p \in Pairs |-> IF p < opened_pairs THEN map_push[p] - 1 ELSE map_push[p]]
    /\ dynamic_active' = IF mode = "dynamic" THEN FALSE ELSE dynamic_active
    /\ seg_parallel_active' = IF mode = "dynamic" THEN seg_parallel_active ELSE FALSE
    /\ pc' = "start"

PairCopy(ok) ==
    /\ pc = "pair_copy"
    /\ IF ok
       THEN /\ copy_push' = Opened(copy_push, opened_pairs)
            /\ pc' = "pair_map"
            /\ UNCHANGED <<map_push, flagVars>>
       ELSE Unwind(0 .. opened_pairs - 1)
    /\ UNCHANGED <<callVars, scanVars, slotVars, tableVars, mergeVars, dispatchVars,
                   handed>>

PairMap(ok) ==
    /\ pc = "pair_map"
    /\ IF ~ok
       THEN Unwind(0 .. opened_pairs)
            /\ UNCHANGED <<opened_pairs, mergeVars, dispatchVars>>
       ELSE /\ map_push' = Opened(map_push, opened_pairs)
            /\ opened_pairs' = opened_pairs + 1
            /\ UNCHANGED copy_push
            /\ IF opened_pairs + 1 < Len(segments)
               THEN pc' = "pair_copy" /\ UNCHANGED <<flagVars, mergeVars, dispatchVars>>
               ELSE /\ batch_groups' = 0 /\ queue_base' = 0
                    /\ dynamic_active' = (mode = "dynamic" \/ dynamic_active)
                    /\ seg_parallel_active' = (mode # "dynamic" \/ seg_parallel_active)
                    /\ merge_dispatch_active' = TRUE /\ merge_state' = 2
                    /\ pc' = "start"
                    /\ UNCHANGED <<active, seg_num_items>>
    /\ UNCHANGED <<callVars, scanVars, slotVars, segments, workers_per_seg, handed>>
-----------------------------------------------------------------------------
(* The dispatch, the pushes opened meanwhile, and what follows it. *)

\* dispatch_start_inner
StartDispatch ==
    /\ pc = "start"
    /\ handed' = [g \in DOMAIN handed |->
                     IF g \in batch_groups .. batch_groups + seg_num_items - 1
                     THEN handed[g] + 1 ELSE handed[g]]
    /\ pc' = IF mode = "pipeline" /\ merge_state = 2 /\ ~at_end
             THEN "pre_copy" ELSE "wait"
    /\ UNCHANGED <<callVars, scanVars, slotVars, tableVars, flagVars, copy_push,
                   map_push, mergeVars, dispatchVars>>

\* pipeline: the next segment's pair is opened in the other slot while the workers
\* run; without it the next segment opens its own in the same slot
PreOpenCopy(ok) ==
    /\ pc = "pre_copy"
    /\ IF ok THEN copy_push' = Opened(copy_push, 1 - active) /\ pc' = "pre_map"
       ELSE pc' = "wait" /\ UNCHANGED copy_push
    /\ UNCHANGED <<callVars, scanVars, slotVars, tableVars, flagVars, map_push,
                   mergeVars, dispatchVars, handed>>

\* mutant: the slots do not alternate
PreOpenMapNextSlot(ok) ==
    /\ pc = "pre_map"
    /\ pc' = "wait"
    /\ IF ok
       THEN /\ map_push' = Opened(map_push, 1 - active)
            /\ cur_push_open' = TRUE /\ cur_slot' = active + 1
            /\ UNCHANGED copy_push
       ELSE copy_push' = Ended(copy_push, 1 - active) /\ UNCHANGED <<map_push, slotVars>>
    /\ UNCHANGED <<callVars, scanVars, tableVars, flagVars, mergeVars, dispatchVars,
                   handed>>

PreOpenMap(ok) ==
    /\ pc = "pre_map"
    /\ pc' = "wait"
    /\ IF ok
       THEN /\ map_push' = Opened(map_push, 1 - active)
            /\ cur_push_open' = TRUE /\ cur_slot' = 1 - active
            /\ UNCHANGED copy_push
       ELSE copy_push' = Ended(copy_push, 1 - active) /\ UNCHANGED <<map_push, slotVars>>
    /\ UNCHANGED <<callVars, scanVars, tableVars, flagVars, mergeVars, dispatchVars,
                   handed>>

\* mutant: the next segment begins with the last group of this one
NextSegmentOverlaps(s) ==
    /\ seg_start' = cursor
    /\ running_faults' = 0
    /\ cursor' = cursor + 1
    /\ pc' = IF s # "NV_OK" \/ at_end THEN "return" ELSE "scan"
    /\ UNCHANGED faults_so_far

\* The tail of the segment loop's body: on to the next segment, or out of the loop
\* (seg_done) after an error or the last group
NextSegment(s) ==
    /\ seg_start' = cursor + 1
    /\ running_faults' = 0
    /\ cursor' = cursor + 1
    /\ pc' = IF s # "NV_OK" \/ at_end THEN "return" ELSE "scan"
    /\ UNCHANGED faults_so_far

\* dispatch_wait_inner returned.  An item without an owner keeps items_remaining
\* above zero: the wait times out.  (The dynamic loop has no shares.)
WaitDone(s) ==
    /\ pc = "wait"
    /\ s = "NV_OK" => dynamic_active \/ \A i \in 0 .. seg_num_items - 1 : Owners(i) # {}
    /\ status' = s
    /\ IF merge_state = 2 THEN pc' = "close" /\ UNCHANGED scanVars
       ELSE IF mode \in SegmentedModes THEN NextSegment(s)
       ELSE pc' = "return" /\ UNCHANGED scanVars
    /\ UNCHANGED <<groups, mode, seg_fault_threshold, slotVars, tableVars, flagVars, copy_push,
                   map_push, mergeVars, dispatchVars, handed>>

\* mutant: a pair opened in advance is forgotten when the dispatch failed
CloseSegmentLeak ==
    /\ pc = "close"
    /\ mode \in SegmentedModes
    /\ copy_push' = Ended(copy_push, active)
    /\ map_push' = Ended(map_push, active)
    /\ merge_state' = 0
    /\ NextSegment(status)
    /\ UNCHANGED <<callVars, slotVars, tableVars, flagVars, merge_dispatch_active,
                   active, dispatchVars, handed>>

\* The segment's pair is ended; after an error so is a pair opened in advance.
\* merge_dispatch_active stays set.
CloseSegment ==
    LET ended == {active} \cup (IF status # "NV_OK" /\ cur_push_open THEN {cur_slot} ELSE {})
        End(push) == [p \in Pairs |-> IF p \in ended THEN push[p] - 1 ELSE push[p]]
    IN  /\ pc = "close"
        /\ mode \in SegmentedModes
        /\ copy_push' = End(copy_push)
        /\ map_push' = End(map_push)
        /\ merge_state' = 0
        /\ cur_push_open' = (cur_push_open /\ status = "NV_OK")
        /\ NextSegment(status)
        /\ UNCHANGED <<callVars, cur_slot, tableVars, flagVars, merge_dispatch_active,
                       active, dispatchVars, handed>>

CloseWhole ==
    /\ pc = "close"
    /\ mode = "whole"
    /\ copy_push' = Ended(copy_push, 0)
    /\ map_push' = Ended(map_push, 0)
    /\ merge_state' = 0 /\ merge_dispatch_active' = FALSE
    /\ pc' = "return"
    /\ UNCHANGED <<callVars, scanVars, slotVars, tableVars, flagVars, active,
                   dispatchVars, handed>>

CloseTable ==
    LET End(push) == [p \in Pairs |-> IF p < Len(segments) THEN push[p] - 1 ELSE push[p]]
    IN  /\ pc = "close"
        /\ mode \in TableModes
        /\ copy_push' = End(copy_push)
        /\ map_push' = End(map_push)
        /\ dynamic_active' = (dynamic_active /\ mode # "dynamic")
        /\ seg_parallel_active' = (seg_parallel_active /\ mode = "dynamic")
        /\ merge_state' = 0 /\ merge_dispatch_active' = FALSE
        /\ pc' = "return"
        /\ UNCHANGED <<callVars, scanVars, slotVars, tableVars, active, dispatchVars,
                       handed>>

\* pool->batch_groups = all_groups; return status.  The call's locals go out of
\* scope and are given their initial values; the pool's fields stay.
ReturnStatus ==
    /\ pc = "return"
    /\ batch_groups' = 0
    /\ pc' = "idle"
    /\ status' = "NV_OK" /\ groups' = <<>> /\ mode' = "none" /\ seg_fault_threshold' = 0
    /\ cursor' = 0 /\ seg_start' = 0 /\ running_faults' = 0 /\ faults_so_far' = 0
    /\ cur_slot' = 0 /\ cur_push_open' = FALSE
    /\ segments' = <<>> /\ workers_per_seg' = <<>> /\ opened_pairs' = 0
    /\ seg_num_items' = 0
    /\ handed' = [g \in 0 .. QueueSize - 1 |-> 0]
    /\ UNCHANGED <<flagVars, copy_push, map_push, mergeVars, queue_base>>

Next ==
    \/ \E f \in Batches, m \in Modes, adapt \in DynamicSegments : BeginBatch(f, m, adapt)
    \/ ScanGroup \/ ReuseOpenPair
    \/ \E ok \in Succeeds : OpenCopy(ok) \/ OpenMap(ok) \/ PairCopy(ok) \/ PairMap(ok)
                            \/ PreOpenCopy(ok) \/ PreOpenMap(ok)
    \/ StartDispatch
    \/ \E s \in DispatchStatus : WaitDone(s)
    \/ CloseSegment \/ CloseWhole \/ CloseTable \/ ReturnStatus

Spec == Init /\ [][Next]_vars
-----------------------------------------------------------------------------
(* Properties. *)

\* Types of the call's locals and of the pool's merge fields
TypeOK ==
    /\ pc \in {"idle", "scan", "reuse", "open_copy", "open_map", "pair_copy",
               "pair_map", "start", "pre_copy", "pre_map", "wait", "close", "return"}
    /\ status \in {"NV_OK"} \cup DispatchStatus
    /\ groups \in Batches \cup {<<>>} /\ mode \in Modes \cup {"none"}
    /\ seg_fault_threshold \in Nat
    /\ cursor \in 0 .. QueueSize /\ seg_start \in 0 .. QueueSize
    /\ running_faults \in Nat /\ faults_so_far \in Nat
    /\ cur_slot \in {0, 1} /\ cur_push_open \in BOOLEAN
    /\ opened_pairs \in 0 .. KthreadMaxWorkers
    /\ dynamic_active \in BOOLEAN /\ seg_parallel_active \in BOOLEAN
    /\ copy_push \in [Pairs -> Int] /\ map_push \in [Pairs -> Int]
    /\ merge_dispatch_active \in BOOLEAN /\ merge_state \in {0, 2} /\ active \in {0, 1}
    /\ batch_groups \in 0 .. QueueSize /\ queue_base \in 0 .. QueueSize
    /\ seg_num_items \in 0 .. QueueSize
    /\ handed \in [0 .. QueueSize - 1 -> Nat]

Dispatching == pc \in {"start", "pre_copy", "pre_map", "wait"}

\* Every uvm_push_begin is matched by one uvm_push_end on every path, the error
\* and fallback paths included: a push is never begun while it is open nor ended
\* while it is closed, and none is open when the call returns (an open push keeps
\* its pushbuffer chunk and its channel entry).
PushesPaired ==
    \A p \in Pairs :
        /\ copy_push[p] \in {0, 1} /\ map_push[p] \in {0, 1}
        /\ pc = "idle" => copy_push[p] = 0 /\ map_push[p] = 0

\* While workers run with merge_dispatch_active and merge_state.state = OPEN, the
\* pushes they attach to are open: the pair of merge_state.active, or the pair of
\* every segment of the tables.
WorkersSeeOpenPushes ==
    Dispatching /\ merge_dispatch_active /\ merge_state = 2 =>
        \A p \in (IF mode \in TableModes THEN 0 .. Len(segments) - 1 ELSE {active}) :
            copy_push[p] = 1 /\ map_push[p] = 1

\* The segments of a batch that returns NV_OK partition it: every group was
\* dispatched exactly once, whichever policy and fallbacks were taken; and by the
\* tail handling of the segment loop no dispatched segment has fewer faults than
\* the threshold, unless it is the whole batch.
SegmentsPartition ==
    /\ pc = "return" /\ status = "NV_OK" =>
          \A g \in 0 .. n_items - 1 : handed[g] = 1
    /\ mode \in SegmentedModes /\ Dispatching =>
          \/ Before(groups)[batch_groups + seg_num_items] - Before(groups)[batch_groups]
                 >= seg_fault_threshold
          \/ seg_num_items = n_items

\* No item of a dispatch is the share of two of the workers that pass the gate, by
\* the stride, by a segment of its own or by the proportional tables; and every item
\* is the share of one, unless group_seg gave out more ids than workers.  (Dynamic
\* shares come from a cursor.)
SharesPartition ==
    Dispatching /\ ~dynamic_active =>
        \A i \in 0 .. seg_num_items - 1 :
            /\ Cardinality(Owners(i)) <= 1
            /\ Owners(i) = {} => Starved
=============================================================================
