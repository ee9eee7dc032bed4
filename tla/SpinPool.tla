------------------------------ MODULE SpinPool ------------------------------
(***************************************************************************)
(* Continuous and persistent workers of the kthread pool.                  *)
(*                                                                         *)
(* With uvm_merge_continuous_workers the workers stay awake between the    *)
(* segments of a batch and spin on seg_generation; with                    *)
(* uvm_persistent_spin_workers they spin between batches, on               *)
(* persistent.batch_gen, instead of going back to their wait queue.  The   *)
(* module adds the generations and the spin loops to KthreadPool, whose    *)
(* steps between the claim of an id and the end of a segment it takes over *)
(* unchanged, and lets plain, dynamic and continuous batches follow each   *)
(* other.  The 30 s timeout and dead blocks are left to that module.       *)
(***************************************************************************)
EXTENDS KthreadPool

CONSTANTS
    Continuous,   \* values of uvm_merge_continuous_workers a batch may see
    Persistent    \* values of uvm_persistent_spin_workers

ASSUME SpinAssumption == Continuous \subseteq BOOLEAN /\ Persistent \subseteq BOOLEAN

VARIABLES
    (* pool->continuous and pool->persistent *)
    cont_active, seg_generation, seg_finished, batch_gen, pbatch_gen,
    persistent,     \* uvm_persistent_spin_workers
    (* the segment loop of uvm_kthread_dispatch_and_wait *)
    stage, continuous, is_first_seg,
    (* the workers *)
    continuous_mode, last_gen, my_batch_gen, last_pgen

genVars   == <<cont_active, seg_generation, seg_finished, batch_gen, pbatch_gen,
               persistent>>
loopVars  == <<stage, continuous, is_first_seg>>
spinLocal == <<continuous_mode, last_gen, my_batch_gen, last_pgen>>
spinVars  == <<genVars, loopVars, spinLocal>>
allVars   == <<vars, spinVars>>

Stopping(w) == shutting_down \/ w \in should_stop

SpinInit ==
    /\ Init
    /\ cont_active = FALSE /\ seg_generation = 0 /\ seg_finished = FALSE
    /\ batch_gen = 0 /\ pbatch_gen = 0
    /\ persistent \in Persistent
    /\ stage = "out" /\ continuous = FALSE /\ is_first_seg = TRUE
    /\ continuous_mode = [w \in Workers |-> FALSE]
    /\ last_gen = [w \in Workers |-> 0]
    /\ my_batch_gen = [w \in Workers |-> 0]
    /\ last_pgen = [w \in Workers |-> 0]
-----------------------------------------------------------------------------
(* The coordinator. *)

\* A step of the segment loop outside a dispatch.
LoopStep(from, to) ==
    /\ cpc = "idle" /\ stage = from
    /\ stage' = to
    /\ UNCHANGED <<vars, persistent, pbatch_gen, spinLocal>>

BeginBatch(c) ==
    /\ dispatches < MaxDispatches
    /\ LoopStep("out", IF c THEN "open_gen" ELSE "segments")
    /\ continuous' = c
    /\ is_first_seg' = TRUE
    /\ cont_active' = c
    /\ UNCHANGED <<seg_generation, seg_finished, batch_gen>>

\* atomic_inc(&continuous.batch_gen), then seg_finished = 0
OpenGen ==
    /\ LoopStep("open_gen", "open_finished")
    /\ batch_gen' = batch_gen + 1
    /\ UNCHANGED <<cont_active, seg_generation, seg_finished, continuous, is_first_seg>>

OpenFinished ==
    /\ LoopStep("open_finished", "segments")
    /\ seg_finished' = FALSE
    /\ UNCHANGED <<cont_active, seg_generation, batch_gen, continuous, is_first_seg>>

\* A dynamic batch is one dispatch of all n items over the cursor.
DynamicBatch(n) ==
    /\ TRUE \in DynamicChoices
    /\ stage = "out"
    /\ stage' = "dynamic"
    /\ PrepareDispatch(0, n, TRUE)
    /\ continuous' = FALSE
    /\ is_first_seg' = TRUE
    /\ UNCHANGED <<genVars, spinLocal>>

EndDynamic ==
    /\ LoopStep("dynamic", "out")
    /\ UNCHANGED <<cont_active, seg_generation, seg_finished, batch_gen, continuous,
                   is_first_seg>>

\* The next segment of the batch, from where the last one ended.
Segment(n) ==
    /\ stage = "segments"
    /\ is_first_seg \/ result = "NV_OK"
    /\ PrepareDispatch(IF is_first_seg THEN 0 ELSE queue_base + seg_num_items, n, FALSE)
    /\ UNCHANGED spinVars

\* A push could not be begun: the rest of the batch is dispatched plainly.
PushFails ==
    /\ continuous
    /\ is_first_seg \/ result = "NV_OK"
    /\ LoopStep("segments", IF is_first_seg THEN "segments" ELSE "finish")
    /\ continuous' = FALSE
    /\ cont_active' = (cont_active /\ ~is_first_seg)
    /\ UNCHANGED <<seg_generation, seg_finished, batch_gen, is_first_seg>>

EndBatch ==
    /\ ~is_first_seg
    /\ LoopStep("segments", IF cont_active THEN "finish" ELSE "out")
    /\ UNCHANGED <<cont_active, seg_generation, seg_finished, batch_gen, continuous,
                   is_first_seg>>

\* dispatch_continuous_finish
FinishSet ==
    /\ LoopStep("finish", "finish_gen")
    /\ seg_finished' = TRUE
    /\ UNCHANGED <<cont_active, seg_generation, batch_gen, continuous, is_first_seg>>

FinishGen ==
    /\ LoopStep("finish_gen", "finish_active")
    /\ seg_generation' = seg_generation + 1
    /\ UNCHANGED <<cont_active, seg_finished, batch_gen, continuous, is_first_seg>>

FinishActive ==
    /\ LoopStep("finish_active", "finish_ready")
    /\ cont_active' = FALSE
    /\ UNCHANGED <<seg_generation, seg_finished, batch_gen, continuous, is_first_seg>>

\* After a failed push the loop goes on, otherwise the batch is over.
FinishReady ==
    /\ cpc = "idle" /\ stage = "finish_ready"
    /\ batch_ready' = FALSE
    /\ stage' = IF continuous \/ result # "NV_OK" THEN "out" ELSE "segments"
    /\ UNCHANGED <<batch_num_active, batch_num_groups, queue_base,
                   batch_worker_counter, items_remaining, all_done,
                   dynamic_active, work_cursor, worker_waitq, stopVars, item_status,
                   coordVars, workerVars, serviced, genVars, continuous,
                   is_first_seg, spinLocal>>

\* The stores that all dispatches share.
SetUp ==
    /\ SetActive \/ SetGroups \/ ResetCounter \/ SetRemaining \/ ReinitCompletion
    /\ UNCHANGED spinVars

FurtherSegment == continuous /\ ~is_first_seg

\* dispatch_start_inner goes on with batch_ready ...
Publish ==
    /\ ~FurtherSegment
    /\ SetReady
    /\ UNCHANGED spinVars

\* Mutant of Wakes: one worker too few is woken.
WakesOneFewer == (IF continuous THEN NumActive(NumWorkers) ELSE batch_num_active) - 1

\* ... then increments persistent.batch_gen and wakes num_active workers, or all
\* of them for a continuous batch.
Wakes == IF continuous THEN NumActive(NumWorkers) ELSE batch_num_active

Wake ==
    /\ cpc = "wake"
    /\ \E woken \in SUBSET worker_waitq :
          /\ Cardinality(woken) = Min2(Wakes, Cardinality(worker_waitq))
          /\ worker_waitq' = worker_waitq \ woken
    /\ pbatch_gen' = IF persistent THEN pbatch_gen + 1 ELSE pbatch_gen
    /\ cpc' = "wait"
    /\ is_first_seg' = FALSE
    /\ UNCHANGED <<poolVars, stopVars, item_status, seg_num_items, result,
                   dispatches, workerVars, serviced, cont_active, seg_generation,
                   seg_finished, batch_gen, persistent, stage, continuous,
                   spinLocal>>

\* dispatch_continuous_next: only the generation.
NextGeneration ==
    /\ FurtherSegment
    /\ CoordStep("set_ready", "wait")
    /\ seg_generation' = seg_generation + 1
    /\ UNCHANGED <<poolVars, cont_active, seg_finished, batch_gen, pbatch_gen,
                   persistent, loopVars, spinLocal>>

\* batch_ready stays set between the segments of a continuous batch.
AfterWait ==
    /\ IF cont_active THEN CoordStep("clear_ready", "collect") /\ UNCHANGED poolVars
                      ELSE ClearReady
    /\ UNCHANGED spinVars

Wait ==
    /\ CompletionSeen \/ CollectItems({})
    /\ UNCHANGED spinVars

Stop ==
    /\ stage = "out"
    /\ BeginDestroy \/ Destroy
    /\ UNCHANGED spinVars
-----------------------------------------------------------------------------
(* The workers. *)

\* A step of the worker's own control.
WorkerStep(w, from, to) ==
    /\ wpc[w] = from
    /\ wpc' = [wpc EXCEPT ![w] = to]
    /\ UNCHANGED <<sharedVars, worker_waitq, item_status, localVars, held_va_space,
                   genVars, loopVars>>

\* What the pool's module says of a worker.
AsBefore(w) ==
    /\ \/ EnterWait(w) \/ TestCondition(w) \/ WakeUp(w)
       \/ ClaimId(w) \/ ReadGroups(w) \/ ReadActive(w) \/ ReadBase(w) \/ Gate(w)
       \/ \E space \in VaSpaces : NextItem(w, space)
       \/ \E s \in ServiceStatus : ServiceItem(w, s)
       \/ ItemsExhausted(w) \/ DecRemaining(w) \/ Complete(w)
    /\ UNCHANGED spinVars

Awake(w) ==
    /\ WorkerStep(w, "awake", IF Stopping(w) THEN "exited" ELSE "top")
    /\ UNCHANGED spinLocal

\* new_batch_from_spin: three reads
ReadMode(w) ==
    /\ WorkerStep(w, "top", "read_gen")
    /\ continuous_mode' = [continuous_mode EXCEPT ![w] = cont_active]
    /\ UNCHANGED <<last_gen, my_batch_gen, last_pgen>>

ReadGeneration(w) ==
    /\ WorkerStep(w, "read_gen", "read_batch")
    /\ last_gen' = [last_gen EXCEPT ![w] = seg_generation]
    /\ UNCHANGED <<continuous_mode, my_batch_gen, last_pgen>>

ReadBatch(w) ==
    /\ WorkerStep(w, "read_batch", "claim")
    /\ my_batch_gen' = [my_batch_gen EXCEPT ![w] =
                            IF continuous_mode[w] THEN batch_gen ELSE 0]
    /\ UNCHANGED <<continuous_mode, last_gen, last_pgen>>

\* segment_done: the va_space lock is dropped; the locals of the segment end.
SegmentDone(w) ==
    /\ wpc[w] = "release"
    /\ wpc' = [wpc EXCEPT ![w] = IF continuous_mode[w] THEN "spin" ELSE "batch_done"]
    /\ held_va_space' = [held_va_space EXCEPT ![w] = NoSpace]
    /\ my_batch_id' = [my_batch_id EXCEPT ![w] = 0]
    /\ num_items' = [num_items EXCEPT ![w] = 0]
    /\ num_active' = [num_active EXCEPT ![w] = 0]
    /\ q_base' = [q_base EXCEPT ![w] = 0]
    /\ idx' = [idx EXCEPT ![w] = 0]
    /\ dynamic' = [dynamic EXCEPT ![w] = FALSE]
    /\ UNCHANGED <<sharedVars, worker_waitq, item_status, spinVars>>

\* The spin on seg_generation, seen when one of its three reads ends it.
SpinEnds(w) ==
    /\ \/ seg_generation # last_gen[w] /\ WorkerStep(w, "spin", "reread")
       \/ /\ seg_finished \/ batch_gen # my_batch_gen[w]
          /\ WorkerStep(w, "spin", "batch_done")
    /\ UNCHANGED spinLocal

Reread(w) ==
    /\ WorkerStep(w, "reread", "test_finished")
    /\ last_gen' = [last_gen EXCEPT ![w] = seg_generation]
    /\ UNCHANGED <<continuous_mode, my_batch_gen, last_pgen>>

TestFinished(w) ==
    /\ WorkerStep(w, "test_finished", IF seg_finished THEN "batch_done" ELSE "test_batch")
    /\ UNCHANGED spinLocal

\* Mutant of TestBatch: the worker trusts seg_finished alone.
TestBatchSkipped(w) ==
    /\ WorkerStep(w, "test_batch", "claim")
    /\ UNCHANGED spinLocal

TestBatch(w) ==
    /\ WorkerStep(w, "test_batch",
                  IF batch_gen # my_batch_gen[w] THEN "batch_done" ELSE "claim")
    /\ UNCHANGED spinLocal

BatchDone(w) ==
    /\ WorkerStep(w, "batch_done",
                  IF persistent /\ ~Stopping(w) THEN "persist" ELSE "loop")
    /\ continuous_mode' = [continuous_mode EXCEPT ![w] = FALSE]
    /\ last_gen' = [last_gen EXCEPT ![w] = 0]
    /\ my_batch_gen' = [my_batch_gen EXCEPT ![w] = 0]
    /\ UNCHANGED last_pgen

ReadPersistent(w) ==
    /\ WorkerStep(w, "persist", "pspin")
    /\ last_pgen' = [last_pgen EXCEPT ![w] = pbatch_gen]
    /\ UNCHANGED <<continuous_mode, last_gen, my_batch_gen>>

\* The spin on persistent.batch_gen ends with a batch or with the pool.
PersistentEnds(w) ==
    /\ pbatch_gen # last_pgen[w] \/ Stopping(w)
    /\ WorkerStep(w, "pspin", IF Stopping(w) THEN "loop" ELSE "top")
    /\ last_pgen' = [last_pgen EXCEPT ![w] = 0]
    /\ UNCHANGED <<continuous_mode, last_gen, my_batch_gen>>
-----------------------------------------------------------------------------
Dispatch == SetUp \/ Publish \/ Wake \/ NextGeneration \/ Wait \/ AfterWait

Loop ==
    \/ OpenGen \/ OpenFinished \/ PushFails \/ EndBatch \/ EndDynamic
    \/ FinishSet \/ FinishGen \/ FinishActive \/ FinishReady
    \/ \E n \in 1 .. QueueSize : Segment(n)

SpinWorker(w) ==
    \/ AsBefore(w) \/ Awake(w) \/ ReadMode(w) \/ ReadGeneration(w) \/ ReadBatch(w)
    \/ SegmentDone(w) \/ SpinEnds(w) \/ Reread(w) \/ TestFinished(w) \/ TestBatch(w)
    \/ BatchDone(w) \/ ReadPersistent(w) \/ PersistentEnds(w)

SpinNext ==
    \/ \E c \in Continuous : BeginBatch(c)
    \/ \E n \in 1 .. QueueSize : DynamicBatch(n)
    \/ Loop \/ Dispatch \/ Stop
    \/ \E w \in Workers : SpinWorker(w)

(***************************************************************************)
(* The timing assumption.  A plain dispatch, or a batch, begins when no    *)
(* worker is between its wait and the end of its segment; a worker may     *)
(* still be in the spin of an earlier batch, unless workers are            *)
(* persistent: one that has not come to its spin on persistent.batch_gen   *)
(* misses the dispatch.  A further segment of a continuous batch begins    *)
(* when every worker spins in that batch or was not woken.  Nothing in the *)
(* code enforces it (after a failed push the coordinator sleeps for 100    *)
(* us).                                                                    *)
(***************************************************************************)
StaleSpinner(w) ==
    \/ wpc[w] = "batch_done"
    \/ wpc[w] \in {"spin", "reread", "test_finished"}
          /\ (seg_finished \/ batch_gen # my_batch_gen[w])
    \/ wpc[w] = "test_batch" /\ batch_gen # my_batch_gen[w]

Parked(w) ==
    \/ wpc[w] \in Outside
    \/ wpc[w] = "pspin" /\ last_pgen[w] = pbatch_gen
    \/ ~persistent /\ StaleSpinner(w)

Ready(w) ==
    \/ wpc[w] = "spin" /\ last_gen[w] = seg_generation /\ my_batch_gen[w] = batch_gen
    \/ wpc[w] = "asleep" /\ w \in worker_waitq

SpinSpaced ==
    /\ stage = "out" /\ stage' # "out" => \A w \in Workers : Parked(w)
    /\ stage = "segments" /\ cpc = "idle" /\ cpc' = "set_active" =>
          \A w \in Workers : IF FurtherSegment THEN Ready(w)
                             ELSE continuous \/ Parked(w)

SpinSpec ==
    /\ SpinInit
    /\ [][SpinNext /\ SpinSpaced]_allVars
    /\ WF_allVars((Loop \/ Dispatch) /\ SpinSpaced)
    /\ WF_allVars(Destroy /\ UNCHANGED spinVars)
    /\ \A w \in Workers : WF_allVars(SpinWorker(w))
-----------------------------------------------------------------------------
\* Plain, dynamic, continuous and persistent workers service every item of a
\* dispatch once, and when dispatch_wait_inner is past its wait all of them are
\* serviced and no worker is inside one: no spinner joins a segment with the
\* generation, the id, the cursor or the counters of another.  Only behind a
\* dynamic dispatch, once it returned, may an item be serviced again: a worker that
\* comes to its gate after dynamic.active was cleared takes the strided loop.
SegmentSound ==
    /\ \A s \in Slots :
          serviced[s] <= 1 \/ (cpc \in {"idle", "stopping", "freed"} /\ work_cursor > 0)
    /\ cpc \in {"clear_ready", "collect"} =>
          /\ \A s \in DispatchSlots : serviced[s] = 1
          /\ \A w \in Workers : wpc[w] \notin {"service", "dec"}

\* Every batch and every uvm_kthread_pool_destroy returns: all ids below
\* batch_num_active get claimed although only that many waiters are woken, and no
\* worker sleeps or spins through a generation, the end of its batch or
\* shutting_down, with kthread_stop asking one thread after the other.
EveryCallReturns ==
    (cpc \notin {"idle", "freed"} \/ stage # "out")
        ~> (cpc \in {"idle", "freed"} /\ stage = "out")
=============================================================================
