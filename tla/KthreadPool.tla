----------------------------- MODULE KthreadPool -----------------------------
(***************************************************************************)
(* The kthread pool of uvm_gpu_replayable_faults_parallel.c: one coordinator *)
(* (the bottom half that runs uvm_kthread_dispatch_and_wait) hands the slots *)
(* queue_base .. queue_base + n - 1 of pool->queue to worker kthreads and    *)
(* waits for them.  Every shared access that another thread can observe is a *)
(* step of its own, in program order: the pool has no lock, only atomics, a  *)
(* wait queue and a completion.                                              *)
(*                                                                         *)
(* Two dispatch loops are modelled: the strided one (idx = id, id + active,  *)
(* ...) and the dynamic one (an atomic work_cursor).  Continuous workers,    *)
(* persistent spinning and the segment-parallel tables are not part of this  *)
(* module.                                                                   *)
(***************************************************************************)
EXTENDS Integers, FiniteSets

CONSTANTS
    Workers,        \* the pool's kthreads
    QueueSize,      \* pool->queue_capacity (UVM_KTHREAD_QUEUE_SIZE)
    MaxWorkers,     \* uvm_parallel_fault_max_workers, 0 = no limit
    DynamicChoices, \* values uvm_dynamic_dispatch may take for a dispatch
    VaSpaces,       \* the va_spaces of the faulting processes
    NoSpace,        \* no va_space: the block is dead, or no lock is held
    ServiceStatus,  \* what service_block_faults_kthread may return
    MayTimeOut,     \* whether the 30 s completion timeout may expire
    CounterCap,     \* bound: batch_worker_counter saturates here
    MaxDispatches   \* bound: number of dispatches explored

NumWorkers == Cardinality(Workers)
Slots == 0 .. QueueSize - 1
ItemStatus == {"NV_OK", "NV_ERR_GENERIC", "NV_WARN_MORE_PROCESSING_REQUIRED"}

ASSUME PoolAssumption ==
    /\ IsFiniteSet(Workers) /\ Workers # {}
    /\ QueueSize \in Nat \ {0}
    /\ MaxWorkers \in Nat
    /\ DynamicChoices \subseteq BOOLEAN
    /\ NoSpace \notin VaSpaces
    /\ ServiceStatus \subseteq ItemStatus
    /\ MayTimeOut \in BOOLEAN
    /\ CounterCap \in Nat /\ CounterCap >= NumWorkers
    /\ MaxDispatches \in Nat

VARIABLES
    (* uvm_kthread_pool_t *)
    batch_ready, batch_num_active, batch_num_groups, queue_base,
    batch_worker_counter, items_remaining, all_done,
    dynamic_active, work_cursor,
    worker_waitq,   \* workers queued on pool->worker_waitq
    shutting_down, should_stop, pool_freed,
    item_status,    \* queue[slot].status
    (* the coordinator *)
    cpc, seg_num_items, result, dispatches,
    (* uvm_kthread_worker_fn's locals *)
    wpc, my_batch_id, num_items, num_active, q_base, idx, dynamic, held_va_space,
    (* history: how often each slot was serviced for the current dispatch *)
    serviced

poolVars == <<batch_ready, batch_num_active, batch_num_groups, queue_base,
              batch_worker_counter, items_remaining, all_done,
              dynamic_active, work_cursor>>
stopVars == <<shutting_down, should_stop, pool_freed>>
coordVars == <<cpc, seg_num_items, result, dispatches>>
localVars == <<my_batch_id, num_items, num_active, q_base, idx, dynamic>>
vars == <<poolVars, worker_waitq, stopVars, item_status, coordVars,
          wpc, localVars, held_va_space, serviced>>

Result == ItemStatus \cup {"none", "NV_ERR_TIMEOUT", "NV_ERR_NO_MEMORY"}

CoordPC == {"idle", "set_active", "set_groups", "reset_counter",
            "set_remaining", "reinit", "set_ready", "wake", "wait",
            "clear_ready", "collect", "stopping", "freed"}
WorkerPC == {"loop", "check", "asleep", "awake", "claim",
             "read_groups", "read_active", "read_base", "gate", "next_item",
             "service", "dec", "complete", "release", "exited"}

Min2(a, b) == IF a <= b THEN a ELSE b

\* mutant: num_active not limited to the pool's workers
NumActiveUnlimited(n) == IF MaxWorkers > 0 THEN Min2(MaxWorkers, n) ELSE n

\* num_active as dispatch_start_inner computes it for n items
NumActive(n) ==
    LET limit == IF MaxWorkers > 0 THEN Min2(MaxWorkers, NumWorkers) ELSE NumWorkers
    IN  Min2(limit, n)

\* atomic_add_return(1, &batch_worker_counter).  Ids of CounterCap and more all
\* fail the id < num_active test, so the counter saturates there.
Bump(c) == IF c < CounterCap THEN c + 1 ELSE c
-----------------------------------------------------------------------------
Init ==
    /\ batch_ready = FALSE
    /\ batch_num_active = 0
    /\ batch_num_groups = 0
    /\ queue_base = 0
    /\ batch_worker_counter = 0
    /\ items_remaining = 0
    /\ all_done = FALSE
    /\ dynamic_active = FALSE
    /\ work_cursor = 0
    /\ worker_waitq = {}
    /\ shutting_down = FALSE
    /\ should_stop = {}
    /\ pool_freed = FALSE
    /\ item_status = [s \in Slots |-> "NV_OK"]
    /\ cpc = "idle"
    /\ seg_num_items = 0
    /\ result = "none"
    /\ dispatches = 0
    /\ wpc = [w \in Workers |-> "loop"]
    /\ my_batch_id = [w \in Workers |-> 0]
    /\ num_items = [w \in Workers |-> 0]
    /\ num_active = [w \in Workers |-> 0]
    /\ q_base = [w \in Workers |-> 0]
    /\ idx = [w \in Workers |-> 0]
    /\ dynamic = [w \in Workers |-> FALSE]
    /\ held_va_space = [w \in Workers |-> NoSpace]
    /\ serviced = [s \in Slots |-> 0]
-----------------------------------------------------------------------------
(* The coordinator. *)

workerVars == <<wpc, localVars, held_va_space>>

\* A step of dispatch_start_inner or dispatch_wait_inner that only accesses the
\* pool's fields
CoordStep(from, to) ==
    /\ cpc = from
    /\ cpc' = to
    /\ UNCHANGED <<worker_waitq, stopVars, item_status, seg_num_items, result,
                   dispatches, workerVars, serviced>>

\* uvm_kthread_dispatch_and_wait sets up batch_groups, queue_base and, for
\* dynamic dispatch, the cursor, before it calls dispatch_and_wait_inner.
PrepareDispatch(base, n, dyn) ==
    /\ cpc = "idle"
    /\ dispatches < MaxDispatches
    /\ base + n <= QueueSize
    /\ dyn => base = 0
    /\ cpc' = "set_active"
    /\ queue_base' = base
    /\ seg_num_items' = n
    /\ dynamic_active' = dyn
    /\ work_cursor' = IF dyn THEN 0 ELSE work_cursor
    /\ result' = "none"
    /\ dispatches' = dispatches + 1
    /\ serviced' = [s \in Slots |-> 0]
    /\ UNCHANGED <<batch_ready, batch_num_active, batch_num_groups,
                   batch_worker_counter, items_remaining, all_done,
                   worker_waitq, stopVars, item_status, workerVars>>

\* dispatch_start_inner, one store at a time
SetActive ==
    /\ CoordStep("set_active", "set_groups")
    /\ batch_num_active' = NumActive(seg_num_items)
    /\ UNCHANGED <<batch_ready, batch_num_groups, queue_base,
                   batch_worker_counter, items_remaining, all_done,
                   dynamic_active, work_cursor>>

SetGroups ==
    /\ CoordStep("set_groups", "reset_counter")
    /\ batch_num_groups' = seg_num_items
    /\ UNCHANGED <<batch_ready, batch_num_active, queue_base,
                   batch_worker_counter, items_remaining, all_done,
                   dynamic_active, work_cursor>>

ResetCounter ==
    /\ CoordStep("reset_counter", "set_remaining")
    /\ batch_worker_counter' = 0
    /\ UNCHANGED <<batch_ready, batch_num_active, batch_num_groups, queue_base,
                   items_remaining, all_done, dynamic_active, work_cursor>>

SetRemaining ==
    /\ CoordStep("set_remaining", "reinit")
    /\ items_remaining' = seg_num_items
    /\ UNCHANGED <<batch_ready, batch_num_active, batch_num_groups, queue_base,
                   batch_worker_counter, all_done, dynamic_active, work_cursor>>

\* mutant: reinit_completion forgotten
NoReinitCompletion ==
    /\ CoordStep("reinit", "set_ready")
    /\ UNCHANGED poolVars

ReinitCompletion ==
    /\ CoordStep("reinit", "set_ready")
    /\ all_done' = FALSE
    /\ UNCHANGED <<batch_ready, batch_num_active, batch_num_groups, queue_base,
                   batch_worker_counter, items_remaining, dynamic_active,
                   work_cursor>>

SetReady ==
    /\ CoordStep("set_ready", "wake")
    /\ batch_ready' = TRUE
    /\ UNCHANGED <<batch_num_active, batch_num_groups, queue_base,
                   batch_worker_counter, items_remaining, all_done,
                   dynamic_active, work_cursor>>

\* wake_up_nr: takes up to batch_num_active exclusive waiters off the queue
WakeWorkers ==
    /\ cpc = "wake"
    /\ \E woken \in SUBSET worker_waitq :
          /\ Cardinality(woken) = Min2(batch_num_active, Cardinality(worker_waitq))
          /\ worker_waitq' = worker_waitq \ woken
    /\ cpc' = "wait"
    /\ UNCHANGED <<poolVars, stopVars, item_status, seg_num_items, result,
                   dispatches, workerVars, serviced>>

\* dispatch_wait_inner: wait_for_completion_timeout consumes the completion ...
CompletionSeen ==
    /\ CoordStep("wait", "clear_ready")
    /\ all_done
    /\ all_done' = FALSE
    /\ UNCHANGED <<batch_ready, batch_num_active, batch_num_groups, queue_base,
                   batch_worker_counter, items_remaining, dynamic_active,
                   work_cursor>>

\* mutant: the timeout is not reported to the caller
TimeoutIgnored ==
    /\ cpc = "wait"
    /\ MayTimeOut
    /\ ~all_done
    /\ batch_ready' = FALSE
    /\ dynamic_active' = FALSE
    /\ result' = "NV_OK"
    /\ cpc' = "idle"
    /\ UNCHANGED <<batch_num_active, batch_num_groups, queue_base,
                   batch_worker_counter, items_remaining, all_done, work_cursor,
                   worker_waitq, stopVars, item_status, seg_num_items, dispatches,
                   workerVars, serviced>>

\* ... or 30 s pass: the batch is abandoned with its workers still running.
\* The caller then clears dynamic.active.
WaitTimedOut ==
    /\ cpc = "wait"
    /\ MayTimeOut
    /\ ~all_done
    /\ batch_ready' = FALSE
    /\ dynamic_active' = FALSE
    /\ result' = "NV_ERR_TIMEOUT"
    /\ cpc' = "idle"
    /\ UNCHANGED <<batch_num_active, batch_num_groups, queue_base,
                   batch_worker_counter, items_remaining, all_done, work_cursor,
                   worker_waitq, stopVars, item_status, seg_num_items, dispatches,
                   workerVars, serviced>>

ClearReady ==
    /\ CoordStep("clear_ready", "collect")
    /\ batch_ready' = FALSE
    /\ UNCHANGED <<batch_num_active, batch_num_groups, queue_base,
                   batch_worker_counter, items_remaining, all_done,
                   dynamic_active, work_cursor>>

DispatchSlots == queue_base .. queue_base + seg_num_items - 1

\* mutant: the last item's status overwrites the earlier ones
LastStatus(unmerged) ==
    LET last == queue_base + seg_num_items - 1
    IN  IF last \in unmerged THEN "NV_ERR_NO_MEMORY" ELSE item_status[last]

\* The first error among the dispatched items, in queue order: the item's own
\* status, or the failure to merge its tracker into out_tracker
CombinedStatus(unmerged) ==
    LET bad == {s \in DispatchSlots : item_status[s] # "NV_OK" \/ s \in unmerged}
        first == CHOOSE s \in bad : \A t \in bad : s <= t
    IN  IF bad = {} THEN "NV_OK"
        ELSE IF item_status[first] # "NV_OK" THEN item_status[first]
        ELSE "NV_ERR_NO_MEMORY"

CollectItems(unmerged) ==
    /\ cpc = "collect"
    /\ result' = CombinedStatus(unmerged)
    /\ dynamic_active' = FALSE
    /\ cpc' = "idle"
    /\ UNCHANGED <<batch_ready, batch_num_active, batch_num_groups, queue_base,
                   batch_worker_counter, items_remaining, all_done, work_cursor,
                   worker_waitq, stopVars, item_status, seg_num_items, dispatches,
                   workerVars, serviced>>

\* uvm_kthread_pool_destroy: shutting_down, then wake_up_all ...
BeginDestroy ==
    /\ cpc = "idle"
    /\ shutting_down' = TRUE
    /\ worker_waitq' = {}
    /\ cpc' = "stopping"
    /\ UNCHANGED <<poolVars, should_stop, pool_freed, item_status, seg_num_items,
                   result, dispatches, workerVars, serviced>>

\* ... kthread_stop one thread after the other: it wakes the thread and waits
\* for it to exit before the next one is asked ...
KthreadStop(w) ==
    /\ cpc = "stopping"
    /\ w \notin should_stop
    /\ \A v \in should_stop : wpc[v] = "exited"
    /\ should_stop' = should_stop \cup {w}
    /\ worker_waitq' = worker_waitq \ {w}
    /\ UNCHANGED <<poolVars, shutting_down, pool_freed, item_status, coordVars,
                   workerVars, serviced>>

\* ... and the pool is freed once the last kthread_stop returned.
FreePool ==
    /\ cpc = "stopping"
    /\ should_stop = Workers
    /\ \A v \in should_stop : wpc[v] = "exited"
    /\ pool_freed' = TRUE
    /\ cpc' = "freed"
    /\ UNCHANGED <<poolVars, worker_waitq, shutting_down, should_stop, item_status,
                   seg_num_items, result, dispatches, workerVars, serviced>>
-----------------------------------------------------------------------------
(* The workers: uvm_kthread_worker_fn. *)

sharedVars == <<poolVars, stopVars, coordVars, serviced>>

\* while (!kthread_should_stop()), and wait_event_interruptible_exclusive, which
\* queues the worker before it tests the condition
EnterWait(w) ==
    /\ wpc[w] = "loop"
    /\ IF w \in should_stop
       THEN /\ wpc' = [wpc EXCEPT ![w] = "exited"]
            /\ UNCHANGED worker_waitq
       ELSE /\ wpc' = [wpc EXCEPT ![w] = "check"]
            /\ worker_waitq' = worker_waitq \cup {w}
    /\ UNCHANGED <<sharedVars, item_status, localVars, held_va_space>>

TestCondition(w) ==
    /\ wpc[w] = "check"
    /\ IF batch_ready \/ shutting_down \/ w \in should_stop
       THEN /\ worker_waitq' = worker_waitq \ {w}
            /\ wpc' = [wpc EXCEPT ![w] = "awake"]
       ELSE /\ wpc' = [wpc EXCEPT ![w] = "asleep"]
            /\ UNCHANGED worker_waitq
    /\ UNCHANGED <<sharedVars, item_status, localVars, held_va_space>>

\* schedule() returns once a waker has taken the worker off the queue; the worker
\* queues itself again and repeats the test
WakeUp(w) ==
    /\ wpc[w] = "asleep"
    /\ w \notin worker_waitq
    /\ worker_waitq' = worker_waitq \cup {w}
    /\ wpc' = [wpc EXCEPT ![w] = "check"]
    /\ UNCHANGED <<sharedVars, item_status, localVars, held_va_space>>

LeaveWait(w) ==
    /\ wpc[w] = "awake"
    /\ wpc' = [wpc EXCEPT ![w] = IF shutting_down \/ w \in should_stop
                                 THEN "exited" ELSE "claim"]
    /\ UNCHANGED <<sharedVars, worker_waitq, item_status, localVars, held_va_space>>

\* mutant: the id is read, not taken, from batch_worker_counter
ReadId(w) ==
    /\ wpc[w] = "claim"
    /\ my_batch_id' = [my_batch_id EXCEPT ![w] = batch_worker_counter]
    /\ wpc' = [wpc EXCEPT ![w] = "read_groups"]
    /\ UNCHANGED <<sharedVars, worker_waitq, item_status, num_items, num_active,
                   q_base, idx, dynamic, held_va_space>>

ClaimId(w) ==
    /\ wpc[w] = "claim"
    /\ my_batch_id' = [my_batch_id EXCEPT ![w] = batch_worker_counter]
    /\ batch_worker_counter' = Bump(batch_worker_counter)
    /\ wpc' = [wpc EXCEPT ![w] = "read_groups"]
    /\ UNCHANGED <<batch_ready, batch_num_active, batch_num_groups, queue_base,
                   items_remaining, all_done, dynamic_active, work_cursor,
                   worker_waitq, stopVars, item_status, coordVars, num_items,
                   num_active, q_base, idx, dynamic, held_va_space, serviced>>

ReadGroups(w) ==
    /\ wpc[w] = "read_groups"
    /\ num_items' = [num_items EXCEPT ![w] = batch_num_groups]
    /\ wpc' = [wpc EXCEPT ![w] = "read_active"]
    /\ UNCHANGED <<sharedVars, worker_waitq, item_status, my_batch_id, num_active,
                   q_base, idx, dynamic, held_va_space>>

ReadActive(w) ==
    /\ wpc[w] = "read_active"
    /\ num_active' = [num_active EXCEPT ![w] = batch_num_active]
    /\ wpc' = [wpc EXCEPT ![w] = "read_base"]
    /\ UNCHANGED <<sharedVars, worker_waitq, item_status, my_batch_id, num_items,
                   q_base, idx, dynamic, held_va_space>>

ReadBase(w) ==
    /\ wpc[w] = "read_base"
    /\ q_base' = [q_base EXCEPT ![w] = queue_base]
    /\ wpc' = [wpc EXCEPT ![w] = "gate"]
    /\ UNCHANGED <<sharedVars, worker_waitq, item_status, my_batch_id, num_items,
                   num_active, idx, dynamic, held_va_space>>

\* An id of num_active or more has no share.  The others enter the dynamic loop,
\* which takes its first index off the cursor, or the strided one.
Gate(w) ==
    /\ wpc[w] = "gate"
    /\ IF my_batch_id[w] >= num_active[w] \/ num_items[w] = 0
       THEN /\ wpc' = [wpc EXCEPT ![w] = "release"]
            /\ UNCHANGED <<dynamic, idx, work_cursor>>
       ELSE /\ wpc' = [wpc EXCEPT ![w] = "next_item"]
            /\ dynamic' = [dynamic EXCEPT ![w] = dynamic_active]
            /\ idx' = [idx EXCEPT ![w] = IF dynamic_active THEN work_cursor
                                         ELSE my_batch_id[w]]
            /\ work_cursor' = IF dynamic_active THEN work_cursor + 1 ELSE work_cursor
    /\ UNCHANGED <<batch_ready, batch_num_active, batch_num_groups, queue_base,
                   batch_worker_counter, items_remaining, all_done, dynamic_active,
                   worker_waitq, stopVars, item_status, coordVars, my_batch_id,
                   num_items, num_active, q_base, held_va_space, serviced>>

\* mutant: queue_base forgotten
SlotWithoutBase(w) == idx[w]

Slot(w) == q_base[w] + idx[w]

\* The loop test and the head of the loop body: the item is initialised and the
\* va_space read lock is switched to the va_space of the item's block, any of
\* them.  A dead block (no va_space) drops the lock and is answered
\* MORE_PROCESSING_REQUIRED.
NextItem(w, space) ==
    /\ wpc[w] = "next_item"
    /\ idx[w] < num_items[w]
    /\ held_va_space' = [held_va_space EXCEPT ![w] = space]
    /\ IF space = NoSpace
       THEN /\ item_status' = [item_status EXCEPT ![Slot(w)] =
                                   "NV_WARN_MORE_PROCESSING_REQUIRED"]
            /\ serviced' = [serviced EXCEPT ![Slot(w)] = @ + 1]
            /\ wpc' = [wpc EXCEPT ![w] = "dec"]
       ELSE /\ item_status' = [item_status EXCEPT ![Slot(w)] = "NV_OK"]
            /\ wpc' = [wpc EXCEPT ![w] = "service"]
            /\ UNCHANGED serviced
    /\ UNCHANGED <<poolVars, worker_waitq, stopVars, coordVars, localVars>>

ItemsExhausted(w) ==
    /\ wpc[w] = "next_item"
    /\ idx[w] >= num_items[w]
    /\ wpc' = [wpc EXCEPT ![w] = "release"]
    /\ UNCHANGED <<sharedVars, worker_waitq, item_status, localVars, held_va_space>>

\* item->status = service_block_faults_kthread(item, wctx)
ServiceItem(w, s) ==
    /\ wpc[w] = "service"
    /\ item_status' = [item_status EXCEPT ![Slot(w)] = s]
    /\ serviced' = [serviced EXCEPT ![Slot(w)] = @ + 1]
    /\ wpc' = [wpc EXCEPT ![w] = "dec"]
    /\ UNCHANGED <<poolVars, worker_waitq, stopVars, coordVars, localVars,
                   held_va_space>>

\* The loop increment: the next strided index, or the next value of the cursor
Advance(w) ==
    /\ idx' = [idx EXCEPT ![w] = IF dynamic[w] THEN work_cursor
                                 ELSE idx[w] + num_active[w]]
    /\ work_cursor' = IF dynamic[w] THEN work_cursor + 1 ELSE work_cursor

\* atomic_dec_and_test(&items_remaining)
DecRemaining(w) ==
    /\ wpc[w] = "dec"
    /\ items_remaining' = items_remaining - 1
    /\ IF items_remaining = 1
       THEN wpc' = [wpc EXCEPT ![w] = "complete"] /\ UNCHANGED <<idx, work_cursor>>
       ELSE wpc' = [wpc EXCEPT ![w] = "next_item"] /\ Advance(w)
    /\ UNCHANGED <<batch_ready, batch_num_active, batch_num_groups, queue_base,
                   batch_worker_counter, all_done, dynamic_active, worker_waitq,
                   stopVars, item_status, coordVars, my_batch_id, num_items,
                   num_active, q_base, dynamic, held_va_space, serviced>>

\* complete(&pool->all_done)
Complete(w) ==
    /\ wpc[w] = "complete"
    /\ all_done' = TRUE
    /\ wpc' = [wpc EXCEPT ![w] = "next_item"]
    /\ Advance(w)
    /\ UNCHANGED <<batch_ready, batch_num_active, batch_num_groups, queue_base,
                   batch_worker_counter, items_remaining, dynamic_active,
                   worker_waitq, stopVars, item_status, coordVars, my_batch_id,
                   num_items, num_active, q_base, dynamic, held_va_space, serviced>>

\* mutant: the va_space lock is kept
KeepLock(w) ==
    /\ wpc[w] = "release"
    /\ my_batch_id' = [my_batch_id EXCEPT ![w] = 0]
    /\ num_items' = [num_items EXCEPT ![w] = 0]
    /\ num_active' = [num_active EXCEPT ![w] = 0]
    /\ q_base' = [q_base EXCEPT ![w] = 0]
    /\ idx' = [idx EXCEPT ![w] = 0]
    /\ dynamic' = [dynamic EXCEPT ![w] = FALSE]
    /\ wpc' = [wpc EXCEPT ![w] = "loop"]
    /\ UNCHANGED <<sharedVars, worker_waitq, item_status, held_va_space>>

\* segment_done / batch_done: drop the va_space lock and go round again.  The
\* locals of the loop body go out of scope and are given their initial values.
ReleaseLock(w) ==
    /\ wpc[w] = "release"
    /\ held_va_space' = [held_va_space EXCEPT ![w] = NoSpace]
    /\ my_batch_id' = [my_batch_id EXCEPT ![w] = 0]
    /\ num_items' = [num_items EXCEPT ![w] = 0]
    /\ num_active' = [num_active EXCEPT ![w] = 0]
    /\ q_base' = [q_base EXCEPT ![w] = 0]
    /\ idx' = [idx EXCEPT ![w] = 0]
    /\ dynamic' = [dynamic EXCEPT ![w] = FALSE]
    /\ wpc' = [wpc EXCEPT ![w] = "loop"]
    /\ UNCHANGED <<sharedVars, worker_waitq, item_status>>
-----------------------------------------------------------------------------
DispatchStart ==
    SetActive \/ SetGroups \/ ResetCounter \/ SetRemaining \/ ReinitCompletion
    \/ SetReady \/ WakeWorkers

DispatchWait ==
    CompletionSeen \/ ClearReady
    \/ \E unmerged \in SUBSET DispatchSlots : CollectItems(unmerged)

Destroy == (\E w \in Workers : KthreadStop(w)) \/ FreePool

Coordinator ==
    \/ \E base \in Slots, n \in 1 .. QueueSize, dyn \in DynamicChoices :
          PrepareDispatch(base, n, dyn)
    \/ DispatchStart
    \/ DispatchWait
    \/ WaitTimedOut
    \/ BeginDestroy
    \/ Destroy

Worker(w) ==
    \/ EnterWait(w) \/ TestCondition(w) \/ WakeUp(w)
    \/ LeaveWait(w) \/ ClaimId(w) \/ ReadGroups(w) \/ ReadActive(w)
    \/ ReadBase(w) \/ Gate(w) \/ ItemsExhausted(w)
    \/ \E space \in VaSpaces \cup {NoSpace} : NextItem(w, space)
    \/ \E s \in ServiceStatus : ServiceItem(w, s)
    \/ DecRemaining(w) \/ Complete(w) \/ ReleaseLock(w)

Next == Coordinator \/ \E w \in Workers : Worker(w)

Spec == Init /\ [][Next]_vars

(***************************************************************************)
(* The timing assumption under which the pool works: no worker is past its   *)
(* wait when the coordinator begins a dispatch.  Nothing in the code         *)
(* enforces it.                                                              *)
(***************************************************************************)
Outside == {"loop", "check", "asleep", "exited"}
Quiescent == \A w \in Workers : wpc[w] \in Outside
Spaced == (cpc = "idle" /\ cpc' = "set_active") => Quiescent

SpacedNext == Next /\ Spaced
SpacedSpec == Init /\ [][SpacedNext]_vars
-----------------------------------------------------------------------------
(* Properties. *)

\* Types of the pool's fields, the coordinator's and the workers' locals
\* (uvm_kthread_pool_t and the locals of uvm_kthread_worker_fn).
TypeOK ==
    /\ batch_ready \in BOOLEAN /\ all_done \in BOOLEAN
    /\ batch_num_active \in 0 .. NumWorkers
    /\ batch_num_groups \in 0 .. QueueSize
    /\ queue_base \in Slots
    /\ batch_worker_counter \in 0 .. CounterCap
    /\ items_remaining \in Int
    /\ dynamic_active \in BOOLEAN /\ work_cursor \in Nat
    /\ worker_waitq \subseteq Workers
    /\ shutting_down \in BOOLEAN /\ pool_freed \in BOOLEAN
    /\ should_stop \subseteq Workers
    /\ item_status \in [Slots -> ItemStatus]
    /\ cpc \in CoordPC
    /\ seg_num_items \in 0 .. QueueSize
    /\ result \in Result
    /\ dispatches \in 0 .. MaxDispatches
    /\ wpc \in [Workers -> WorkerPC]
    /\ my_batch_id \in [Workers -> 0 .. CounterCap]
    /\ num_items \in [Workers -> 0 .. QueueSize]
    /\ num_active \in [Workers -> 0 .. NumWorkers]
    /\ q_base \in [Workers -> Slots]
    /\ idx \in [Workers -> Nat]
    /\ dynamic \in [Workers -> BOOLEAN]
    /\ held_va_space \in [Workers -> VaSpaces \cup {NoSpace}]
    /\ serviced \in [Slots -> Nat]

\* No work item is serviced by two workers for one dispatch: the ids taken from
\* batch_worker_counter (or the indices from work_cursor) are never shared.
ServicedOnce == \A s \in Slots : serviced[s] <= 1

\* complete(&pool->all_done) "signals the coordinator to proceed" only when all
\* items are done: once dispatch_wait_inner is past its wait, every dispatched
\* item was serviced and no worker is inside an item any more, so the loop over
\* queue[queue_base + i] reads final values.
CompletionMeansDone ==
    cpc \in {"clear_ready", "collect"} =>
        /\ \A s \in DispatchSlots : serviced[s] >= 1
        /\ \A w \in Workers : wpc[w] \notin {"service", "dec"}

\* A dispatch that returned NV_OK serviced each of its items exactly once and
\* successfully; no error of an item is lost on the way to the caller.
OkMeansAllServiced ==
    cpc = "idle" /\ result = "NV_OK" =>
        \A s \in DispatchSlots : serviced[s] = 1 /\ item_status[s] = "NV_OK"

\* A worker writes only slots of the segment that is being dispatched, also
\* while it runs on after the coordinator gave up.
WritesOwnSegment ==
    \A w \in Workers : wpc[w] \in {"service", "dec", "complete"} => Slot(w) \in DispatchSlots

\* A worker that waits for a batch, or has exited, holds no va_space read lock
\* (a writer of that va_space would otherwise wait for the next fault batch).
NoLockAcrossWait ==
    \A w \in Workers : wpc[w] \in Outside => held_va_space[w] = NoSpace

\* The refinement mapping: what BatchService sees of the pool
phaseBar == IF cpc \in {"idle", "stopping", "freed"} THEN "idle" ELSE "open"
pendingBar == {s \in DispatchSlots : serviced[s] = 0}
failedBar == {s \in DispatchSlots : serviced[s] > 0 /\ item_status[s] # "NV_OK"}

Abstract == INSTANCE BatchService WITH
    phase <- phaseBar, pending <- pendingBar, failed <- failedBar, result <- result

\* uvm_kthread_dispatch_and_wait, with its workers, counters and wakeups, does what
\* BatchService promises its caller: items are serviced at most once, a status is
\* returned only when none is left, and NV_OK only when none failed.
ImplementsBatchService == Abstract!Spec
=============================================================================
