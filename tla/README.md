# FaultMesh: a TLA+ model of parallel GPU page-fault handling

FaultMesh speeds up demand paging of unified memory with two libraries.
**BackLib** (`src/backLib`) is NVIDIA's open kernel driver, changed so that the
bottom half of a replayable GPU fault services the VA blocks of a batch on a
pool of kernel threads and lets them share GPU pushes. **FrontLib**
(`src/frontLib`) is a CUDA header: kernels look up a page-status table before
an access, so that one thread per 4 KiB page takes the fault.

This directory holds TLA+ models of the code these libraries add, the TLC
configurations that check them and TLAPS proofs. Short names for the sources:

| name | file |
|------|------|
| P | `src/backLib/kernel-open/nvidia-uvm/uvm_gpu_replayable_faults_parallel.c` |
| H | `…/uvm_gpu_replayable_faults_parallel.h` |
| R | `…/uvm_gpu_replayable_faults.c` |
| V | `…/uvm_va_block.c` |
| F | `src/frontLib/frontend_prefault_common.cuh` |

`PROJECT.json` maps every definition to its lines, and lists the hazards, the
runs, one mutant per property, the findings and the theorems.

## Inventory

| component | state | operations | what is hard | what makes it correct |
|---|---|---|---|---|
| kthread pool (P 706-1454, 1683-1805) | `batch_*` fields, `items_remaining`, `all_done`, `worker_waitq`, `queue[]`; per worker the locals of `uvm_kthread_worker_fn` | create, dispatch start, wait, collect, time out, destroy; wait, claim an id, service items | no lock: plain fields, atomics, exclusive wakeups; late workers; a 30 s timeout with the workers still running | each item serviced once; completion only when all are done; errors survive; no wakeup lost; no lock kept asleep |
| merge dispatch (P 640-671, 1869-2970) | segment tables, shared copy/map pushes, `merge_state`, `queue_base`, `batch_groups` | seven policies: off, whole batch, segmented, pipelined, dynamic, group-segment, segment-parallel | boundaries and rounding, push begins that fail half-way, state left by another policy | segments partition the batch; begin/end of pushes are paired; no item has two workers, and none goes without one unless too many ids were given out |
| fault batch (R 3765-4190) | groups, current block, va_space lock, `mmap_lock`, mm reference | group the sorted faults, service inline or dispatch, replay | several va_spaces in a batch, fatal, unmapped and unregistered faults, capacity | no fault lost or given to two groups; locks released; replay only of a clean batch |
| FrontLib table (F) | `page_status`, block counters, `published`, `all_resident`; per thread `last_page`, `last_blk`, `checks` | init, reset, view, load/store, elect, CAS, touch, publish, spin | hundreds of threads on one table, unaligned arrays, partial blocks, cached hints | one touch per page, no access before it, counters exact |
| block service (P 1463-1676) | page masks of one block | `service_block_faults_kthread` | dead blocks, retries | abstracted to a status and the faults it visits |
| shared pushes (V 4238-4630, 8843-9034, 12819-12914; P 989-1038, 2018-2066) | the segment's copy and map push, their locks, `copy_done_counter`, `copy_pushed_end`, block trackers | choose, test, lock, append, fall back, track, count, end early, close | several workers on a push with an unlocked test before the lock; retries after counting; a timeout with workers still appending; trackers of an open push | each push ended once and nothing appended behind the end, short of a timeout; PTEs after copies; replay after both |
| continuous / persistent workers (P 913-918, 1388-1451, 1815-1867, 2497-2753) | `continuous.active`, `seg_generation`, `seg_finished`, `batch_gen`, `persistent.batch_gen` | first/next segment, finish, the two spin loops | late spinners, a push that fails in mid-batch | no worker in a segment of another generation; no lost signal |
| main loop, fetch, preprocess, flush, replay, cancel (R 609-1038, 1781-2303, 3430-3640, 4198-4590, 4788-4853, 5178-5457) | `cached_get`, `cached_put`, the batch context, `num_replays`, `fatal_va_space` | one pass of `uvm_gpu_service_replayable_faults` | a GPU that faults, drops, wraps and publishes out of order meanwhile; four replay policies; mappings that change during a cancel | no stalled warp forgotten; ring positions and valid bits consistent; cancel only of invalid accesses; the pass ends |
| fetch predictor (R 1277-1660, 1908-1916, 1954-1992) | the table of the previous batch's pages, a memo, the adaptive gate | lookup, build, gate | stale predictions | what is skipped is still replayed |
| pool attach (`uvm_gpu_isr.c` 331) | one global pool | init / deinit per GPU | two coordinators | not modelled yet |
| async pipeline (P 328-638) | deferred items | flush | – | unreachable: it refuses items with `hmm_migratable` (P 349), and every item sets it |
| profile ioctl (P 3042-4002), scripts, applications, vendored driver | – | – | – | I/O, measurement, users of the libraries, third-party code |

How they interact: the GPU writes fault entries and the interrupt schedules the
main loop (**FaultLoop**), which calls `service_fault_batch_parallel`
(**FaultBatch**), which calls `uvm_kthread_dispatch_and_wait`
(**MergeDispatch**), which runs one dispatch per segment on the pool
(**KthreadPool**, **SpinPool** for the spinning modes), whose workers write the
segment's pushes (**SharedPush**). Each level sees the one below only through a status:
`BatchService` states what that status means, KthreadPool is shown to implement
it, and `DispatchReturns` of FaultBatch assumes just that; FaultLoop's
`ServiceBlock` and `ServiceFails` are the outcomes of a batch. FrontLib runs on the
GPU and meets BackLib only through the page faults it takes.

## Modules

* `BatchService` – the abstract contract of a dispatch: items are serviced at
  most once, a status is returned when none is left, `NV_OK` only when none
  failed; a call that gave up returns `NV_ERR_TIMEOUT` and its items may still
  be serviced behind the caller's back.
* `KthreadPool` – the pool. Every access to shared fields is a step of its own,
  in program order: seven stores in `dispatch_start_inner`, then the wait and
  the collection; in the worker, joining the wait queue, testing the condition,
  sleeping, claiming an id, each of the three copies (929-931), the gate, each
  item, the decrement, the completion. `wake_up_nr` takes any `num_active`
  waiters off the queue. The strided and the dynamic loop are modelled; the
  `batch_worker_counter` saturates at `CounterCap` (ids from `num_active` on
  behave alike). `serviced` is a history variable.
* `MCKthreadPool` – worker symmetry for TLC.
* `MergeDispatch` – `uvm_kthread_dispatch_and_wait` with the seven policies.
  Segment boundaries, thresholds, worker allocation and shares are operators
  (recursive functions over one step of the code's loop each: `ScanBlock`,
  `SegmentWorkers`); opening and closing of pushes are actions. `Share(id)`
  is the set of items that the loops at P 1058-1239 give a worker id, `GivenIds` the
  ids that the policy counts on, `Ids` those that pass the gate at P 935. The policy
  may change with every batch, as the parameters' 0644 mode allows.
  `MCMergeDispatch` enumerates the batches.
* `SpinPool` – extends `KthreadPool` with the generations and the spin loops. The
  steps of a worker between claim and end of segment, and the stores of
  `dispatch_start_inner`, are those of `KthreadPool`; each read of a generation,
  each store of `dispatch_continuous_finish` is a step. Plain and dynamic batches
  are among its batches, so that liveness of all kinds of dispatch is asked here.
  The timeout and dead blocks are left to `KthreadPool`.
* `SharedPush`, `MCSharedPush` – one segment: workers take blocks, service the
  residencies of a block (an item: what one round copies and maps), choose the
  shared or a private push, append, track, count down `copy_done_counter`;
  a round may fail or be repeated. `used` counts units of the push, `work` what
  was submitted with a push, `late` what was appended behind its end, `acquired`
  what a push waits for. A critical section under a push lock is one step; the
  unlocked test before it is another. The coordinator leaves its wait when every
  block is finished (`DispatchDone`) or after 30 seconds (`TimeOut`, with up to
  `MaxOverdue` blocks unfinished) and closes both pushes either way, while workers
  that run on still append and count. The workers are those that joined the
  dispatch: they took its pushes before it ended and keep them. The GPU executes an
  ended push once everything it acquired was executed.
* `FaultLoop`, `MCFaultLoop` – the bottom half as one process with a program
  counter, against the GPU: warps access, fault (and stall), entries become
  valid in any order, a replay restarts all stalled warps, pages are evicted,
  channels destroyed, invalid addresses mapped. `why` names the flush's caller,
  `mode` is `"all"` in the re-fetch of a cancel. A warp stands for a channel with
  its own va_space. Blocks are serviced one entry at a time; the parallel path
  differs in how a batch is serviced (FaultBatch), not in what follows.
  `innocent`, `pushFailed` and `globalError` are history variables.
* `FaultBatch` – `service_fault_batch_parallel`, one action per branch of the
  grouping loop, then inline service or dispatch, then the replay.
* `Prefault` – the FrontLib table; a step is one atomic operation or load.
* `KthreadPoolTypes`, `KthreadPoolProofs`, `SpinPoolProofs`,
  `MergeDispatchProofs`, `SharedPushProofs`, `FaultBatchProofs`, `FaultLoopProofs`,
  `PrefaultProofs` – theorems and proofs.

Definitions whose comment calls them a mutant are not part of a
specification: each is a plausible slip in the definition that follows it, and
TLC finds the property of the same run violated when it takes that
definition's place.

## Assumptions

* **Memory order.** Stores and loads take effect in program order. The pool's
  code has an `smp_wmb` after `batch_ready` and none before it, so on x86 this
  is what happens, on weaker machines it is an assumption. FrontLib's volatile
  loads and atomics, with the `__threadfence` before publication, are taken as
  sequentially consistent.
* **Spacing.** `SpacedSpec` adds that no worker is past its wait when a
  dispatch begins. Nothing in the code enforces it: a worker that lost the race for
  an id, or finished its last item, has a few instructions to run before it is
  back at its wait, and the coordinator has its own work (closing and opening
  pushes, the next batch) before it dispatches again, but no handshake orders
  the two. Properties that need it are
  checked and proved under `SpacedSpec`; `Spec` is the code as it is, and run
  `overlap` shows what happens there. Timeouts stay possible under spacing, the
  workers running on afterwards included.
  `SpinSpaced` is the same for spinning workers: a batch or a plain dispatch begins
  when no worker is between its wait and the end of its segment (a worker may
  still stand in the spin loop of an earlier batch, unless workers are
  persistent: one that has not reached its spin on `persistent.batch_gen` would
  miss the dispatch), and a further continuous segment begins when every worker
  spins in this batch or was never woken. The sleep of 100 us after a failed push
  (P 2546) is the code's own reliance on it. Without `SpinSpaced` TLC finds
  `SegmentSound` violated, as `CompletionMeansDone` is in run `overlap`. "In this
  batch" matters, and the proof of `SegmentSound` showed it: a worker that was woken
  so late that it read `seg_generation` after the end of its batch can stand in the
  spin of that batch when the next one is between two segments. It then sees the new
  `batch_gen`, goes back to its wait, finds `batch_ready` still up and claims an id
  while the next segment is set up; with 3 slots and 3 dispatches TLC finds an item
  serviced twice.
* **The GPU of FaultLoop.** A replay restarts every stalled warp; when
  `uvm_tracker_wait` on the replay returns, restarted warps have completed or
  faulted again (`ReplayDone`, the driver relies on it at R 3461-3471); a full
  buffer drops the entry and keeps the warp stalled. The replays pushed are of type
  START, which `uvm_hal_types.h:463-468` says completes when all replays are in
  flight; that the restarted warps have faulted again or gone on by then is what
  START_ACK_ALL means, and an assumption here. Only `EveryAccessEnds` depends on it.
* **The GPU of SharedPush.** Pushes are ordered by acquired trackers only;
  different channels give no other order.
* **Fairness.** `SpinSpec`: a coordinator that began a batch, a dispatch or a
  destroy runs on, and so does every worker that is not asleep, spinning ones
  included (kernel threads are scheduled, spinners call `cond_resched`). No fault
  batch has to arrive. `FairSpec` of Prefault: a
  thread of a running kernel makes progress, lanes of one warp independently
  (sm_70 and later); nothing has to be launched. `FairSpec` of FaultLoop: the
  bottom half runs on its own kernel thread; `Schedule` is weakly fair because
  the interrupt stays pending while GET and PUT differ; the GPU executes replays,
  retries and publication. No access has to be made, nothing else has to happen.
* **Module parameters** keep their value during a call; in MergeDispatch they may
  change between batches, as their 0644 mode allows.

## Runs

| run | instance | checks | result |
|---|---|---|---|
| `strided` | 2 workers, 3 slots, 2 strided dispatches, errors, dead blocks, timeouts, destroy, `SpacedSpec` | `TypeOK`, `ServicedOnce`, `CompletionMeansDone`, `OkMeansAllServiced`, `WritesOwnSegment`, `NoLockAcrossWait`, refinement `ImplementsBatchService` | passes, 0.8 M states |
| `spin` | 2 workers, 2 slots, 2 dispatches, plain and dynamic, continuous and persistent on and off, failing pushes, destroy, `SpinSpec` | `SegmentSound`, `EveryCallReturns` | passes, 1.1 M states |
| `policies` | 3 workers, batches of 1-6 groups of 1, 2 or 4 faults, threshold 4, a policy per batch, failing pushes, timeouts | `TypeOK`, `PushesPaired`, `WorkersSeeOpenPushes`, `SegmentsPartition`, `SharesPartition` | passes, 0.2 M states |
| `segment` | 3 workers, 3 blocks, one with two residencies, half-full pushes of 4 units, one retry or one timeout with one block unfinished, failures, four modes | `TypeOK`, `PushesEndedOnce`, `MapPushFits`, `PrivateInOrder`, `AllWorkRuns` | passes, 2.7 M states |
| `grouping` | up to 4 faults, 2 va_spaces, 2 blocks each, capacity 2, inline below 2 groups | `TypeOK`, `GroupsPartition`, `LocksReleased`, `ReplayOnlyClean` | passes, 1.9 M states |
| `bottomhalf` | 2 warps, 2 pages, one access invalid, buffer of 3 slots, 2 accesses, 1 disturbance, failing batches with an error or the warning of a dead block, 6 parameter settings, `FairSpec` | `TypeOK`, `NoFaultDroppedUnfiltered`, `ServicedReplayed`, `ValidOnlyPending`, `PreciseCancelsInvalid`, `BottomHalfReturns`, `EveryAccessEnds` | passes, 0.5 M states |
| `frontlib` | 2 threads, 1 warp, 3 pages in 2 blocks, unaligned array, `FairSpec` | `TypeOK`, `TouchedOnce`, `AccessTouched`, `CountersExact`, `EveryMissServed` | passes, 32 K states |
| `overlap` | `strided` without spacing and timeouts | `CompletionMeansDone` | violated |
| `inline` | 3 faults, inline up to 2 groups | `InlineUnderOwnLock` | violated |
| `skipdrop` | `bottomhalf` with the parameters of `perf_ours.sh`, no disturbance | `NoFaultDropped` | violated |
| `more` | `bottomhalf` with the warning of a dead block as the only failure | `NoInnocentCancelled` | violated |
| `untracked` | 1 worker, 1 block, shared copy push without copy/map split | `MappedMeansCopied` | violated |

Why the bounds are enough. Two workers and three slots make strides uneven (one
worker has two items, or none), two dispatches at different bases show state
carried over; a second dispatch is needed for stale completions, a third repeats
the second. Six groups and a threshold of four give one to three segments,
tails to absorb, both slots of the pipeline and its reuse; three workers are the
fewest for which the proportional allocation rounds up to more ids than workers. Capacity two with four
faults reaches the drop. Three pages over two blocks give a full and a partial
block, an unaligned first and a partial last page. Three workers on a half-full
push are the fewest that pass the unlocked test together and then no longer fit;
two residencies are the fewest that make a block count too early. One overdue block
is enough for a worker to append behind the coordinator's close and to end the copy
push a second time (both states are reached); the theorems allow any number. A buffer of
three slots holds two entries, so that two warps fill it and wrap it; a second
access lets an entry meet the previous batch's table; two batches per service make
both limits of the loop bite. One disturbance at a time: each kind is met in every
state, two of them together are not.

Deadlock checking is off where the system may stop: a pool that was destroyed or
has used up its dispatches, a segment that is closed and executed, a GPU that has
made its accesses. It stays on in `policies`, `grouping`, `inline` and `frontlib`:
there a coordinator or a kernel always has a next step.

## Findings

Five runs show a disagreement between the code and what the repository says of
it. Each is a counterexample of TLC on the model.

1. `overlap` (P 928). A worker woken late claims an id while the coordinator
   already sets up the next dispatch; it copies parameters of two dispatches and
   its decrement completes the new one early.
   `parallel_fault_architecture.md` says the completion comes when all items are
   done.
2. `inline` (R 3899-3936). Groups of a va_space whose lock was already dropped
   are serviced inline under another va_space's lock and snapshot, although the
   comment at R 3898 says the lock is held.
3. `skipdrop` (R 1908-1916, 5275, 5453). The stale-fault filter consumes the last
   pending entry, the batch is empty, an earlier batch has already counted a
   replay, so none is pushed: the warp of the skipped entry stays stalled with GET
   equal to PUT. The comment at R 5451 says that the final replay is there to avoid
   dropped faults; R 211 calls a missed prediction "always correctness-safe", which
   is true of a miss and not of this hit. `ServicedReplayed`, which holds with the
   filter too, shows that such a warp waits for a page it was not given: its
   address is that of another va_space, or its page was evicted.
4. `untracked` (V 4610). In dynamic dispatch the shared copy push is added to the
   block's tracker before it is ended, with the tracking value 0; the map push
   does not wait for the copies. The group-segment path avoids this and says why
   (P 1105-1110); dynamic dispatch shares the push. `PrivateInOrder` shows that
   the order is kept where copies go through private pushes.
5. `more` (R 5341). A worker that finds its block dead or raced returns
   `NV_WARN_MORE_PROCESSING_REQUIRED` (P 1486-1535); the batch passes the warning on
   (R 4246) and the main loop, which takes every status but `NV_OK` for a global
   error, cancels the whole batch: warps are killed for valid accesses. The comment at
   R 5342-5344 speaks of "global errors such as OOM or ECC". `PreciseCancelsInvalid`
   shows that the cancel of a whole batch is the only one that can do this.

Known limits, seen on instances of the same modules and kept as hazards:

* A dynamic dispatch (P 941): a worker that tests `dynamic.active` after the call
  returned and cleared it services the finished batch again in the strided loop.
  `SegmentSound` says that this happens only behind a call that returned.
* Group-segment with three or more workers (P 2149-2160): the proportional
  allocation rounds every segment up to one worker, so more ids may be assigned than
  `batch_num_active` (three workers for segments of 4, 1 and 1 groups get 2 + 1 + 1
  ids), and ids from `batch_num_active` on do not pass the gate at P 935: their
  items are serviced by nobody and the dispatch times out. `SharesPartition` speaks
  of the ids that pass the gate and says that an item has no owner in this case
  only (`Starved`); run `policies` reaches it. With two workers the allocation is
  exact.
* A dispatch that timed out (P 1729-1735, 2038-2062): the coordinator reads
  `copy_pushed_end` and closes both pushes while workers still append. Work they
  append later is in no push (`late`), and with copy/map split the last of them may
  end the copy push that the coordinator has ended. `PushesEndedOnce` and
  `AllWorkRuns` say that only a timeout leads there (for the append also the next
  item). A worker that enters the dynamic loop after `dynamic.active` was cleared is
  not in SharedPush.
* A block that is retried after it counted (V 12884) appends to a copy push that
  may have been ended; `AllWorkRuns` says that nothing else but a timeout leads to
  work behind an end, and that all other work runs.
* A change of policy between batches: the fallback of the table policies keeps the
  `queue_base` of the last segment of the earlier batch (P 2005-2016), so that the
  results go to slots the caller does not read. MergeDispatch has no queue slots; no
  property speaks of this.
* Without `SpinSpaced`, a persistent worker that reads `persistent.batch_gen`
  (P 1432) after the next dispatch incremented it misses that dispatch, and a worker
  that reads `continuous.active` before the first push of the batch fails spins on
  a generation nobody increments.
* Groups beyond the capacity (R 3869) are dropped without a status; `GroupsPartition`
  speaks of batches below it.

## Proofs

All theorems hold for every value of the constants that the named assumptions
(`PoolAssumption`, `SpinAssumption`, `DispatchAssumption`, `SharedPushAssumption`, `BatchAssumption`,
`LoopAssumption`, `ArrayAssumption`) allow: any finite set of workers, any queue, any
number of dispatches, any batch, segment parameters, push size and number of retries,
any array, page size, block size and set of threads. Each inductive invariant was
checked by TLC on the instance of the module's run before it was proved. Each proof
module begins with the parts of its invariant, then has one lemma per part with one step
per action, then the theorems.

* `KthreadPoolTypes`, from `Spec` (no timing assumption): `TypeCorrect`,
  `LocksDropped`.
* `KthreadPoolProofs`, from `SpacedSpec` with `DynamicChoices = {FALSE}`:
  `EveryItemOnce`, `CompletionSound`, `OkSound`, `SegmentRespected`. None of them
  is inductive. The invariant is `Core`, in three parts, and `CoordInv` (while a
  dispatch is set up every worker is in its wait). `Core` is shared with the spinning
  workers: it is inductive for every step in which no worker has or takes an id while a
  segment is set up (`SetupInv`).
  `Basic` – where the coordinator and each worker stand and that a worker's
  copies are those of the current dispatch, that ids below `num_active` are
  claimed by at most one worker and that a worker's index is of its stride;
  `Fresh` – a slot whose stride nobody has claimed, or that lies ahead in a
  claimed stride, is not yet serviced, which gives `ServicedOnce`;
  `Counted` – while a dispatch is open `items_remaining` is the cardinality of
  `Outstanding`, the slots not yet decremented, so that the step to zero is the
  last one and `all_done` means that the set is empty.
  In the same module, `PoolImplementsBatchService`: every step of the spaced
  strided pool is a step of `BatchService` or leaves its variables unchanged
  under `phaseBar`, `pendingBar`, `failedBar`. It needs `IInv` and that a worker
  runs on after the return only if the result is a timeout (`LateInv`).
* `SpinPoolProofs`, from `SpinSpec` without dynamic batches: `SpinSound`
  (`SegmentSound`). Every step of
  SpinPool is a step that `Core` covers (`SpinSplits`); what has to be shown is
  `SetupInv`, from the generations. `SpinInv` says: until the first segment of a batch
  is published, and while a plain segment is set up, every worker is parked, and a
  parked worker only moves towards its wait; once `batch_gen` is incremented no spinner
  has seen it, so that `seg_finished` may be cleared; while a further segment is set up
  every worker spins on the current generation of the current batch or sleeps, and
  `batch_ready` is up only from the first segment of a continuous batch to its end.
* `MergeDispatchProofs`, from `Spec` of MergeDispatch: `DispatchTypes`,
  `PushesArePaired`, `WorkersAttachToOpenPushes`, `SegmentsArePartition`,
  `SharesArePartition`, for any sequence of policies. The invariant:
  `Tables` – the segments of the table policies lie end to end and cover the batch,
  within the cap; `Control` – where the call can be under which policy and with which
  flags, e.g. that `dynamic.active` and `seg_parallel.active` are up only while the
  merge state is open; `Position` – the sums of the segment loop are prefix sums of
  the batch, and what remains behind a segment that was cut is at least a
  threshold, which is why the tail is never too small; `Handed` – exactly the
  groups before the current segment were dispatched; `Paired` – for each point of
  the call, exactly which pushes are open. `Tables` needs what the scan and the
  allocation compute. Both, and the prefix sums, are recursive functions on an
  interval; `IntervalInduction` (the least element outside a set has its
  predecessor in it) and `RecursionExists` (the recursion has a solution, so that the
  CHOOSE behind the definition is one) are proved first and give `BeforeSums`,
  `TableSegmentsCover` and `ProportionalWorkersType` by an invariant of the loop.
  The shares rest on uniqueness of division (`StrideOwner`: item i belongs to
  id i % n) and on each group lying in exactly one segment (`SegmentOf`).
* `SharedPushProofs`, from `Spec` of SharedPush: `SharedPushTypes`,
  `MapPushHasRoom`, `EveryPushEndsOnce`, `PrivatePushesInOrder`,
  `SegmentWorkRuns`. `Shape` – types, and a block is in the hands of one worker;
  `Progress` – what is copied and mapped when a worker is where it is; `Closed` –
  how often each push was ended and by whom; `Tracked` – what was submitted
  privately is in a tracker, and a push that acquired a tracker waits for it;
  `Submitted` – what was copied or mapped is in the work of some push or in `late`;
  `Waiting` – every nonempty set of ended pushes has a member that waits for none of
  the others; `FirstPass` – until a dispatch times out or a block is serviced again
  after it counted, `copy_done_counter` is at least the number of blocks that may
  still append, so that it reaches zero after the last append. `Waiting` is what
  makes all work run: a push acquires only ended pushes (an open one has the tracking
  value 0, which nothing waits for) and nothing more once it is ended itself, so
  among ended pushes that were not executed one always can be. It needs no assumption
  on timeouts or retries.
* `FaultBatchProofs`, from `Spec` of FaultBatch: `BatchTypes`, `LocksGivenBack`,
  `GroupingIsPartition`, `ReplaysAreClean`. `Locks` – the locks held are those of
  the current va_space; `Current` and `Ranges` – the faults counted for the current
  and the finished groups are consecutive in their block, except behind a fatal
  fault; `Covered` – a fault that the loop has passed lies in a group, in the current
  block, or was refused; `Clean` – a fatal fault or a failed group is remembered
  until the replay.
* `FaultLoopProofs`, from `Spec` of FaultLoop: `Types`; `ValidBits`
  (`ValidOnlyPending`), from `RingOK`: the cached PUT lies between the driver's
  position and the PUT register, on a ring of any size, so that advancing either
  end, clearing a bit and wrapping keep the arc; `PendingExact`, the
  interrupt handler's tests are exact; `ServicedIsReplayed` and
  `NothingDropped`. At rest nothing shows why a replay came, so the invariant
  speaks of all other states: `ReplayOwed` lists the places from which the bottom
  half cannot return without a replay; `ServicedOwed` – a warp stalled on a page
  it has is owed one or one is on its way; `StallOwed` – so is every stalled warp,
  or the buffer still holds an entry, where the filter is off.
  `CancelsInvalidOnly` (`PreciseCancelsInvalid`), for every set of service errors:
  its invariant `KillsInvalid` says that what the precise cancel is about to kill is
  invalid and cannot be mapped while the locks are held.
* `PrefaultProofs`: arithmetic of the table – every element is on a counted
  page, every counted page has an address to touch, initial counts do not wrap;
  then, from `Spec`: `TableTypes`, `OneTouchPerPage`,
  `AccessAfterTouch`, `CountersAgree`. The invariant `PInv` says that between CAS
  and publication a page has exactly one owner, that a page is touched iff its
  owner is past the touch or it is READY, that a block counter is the number of
  its published pages plus the initial offset (a cardinality argument over the
  threads between the status and the counter store), and that a hint or a full
  counter implies that all pages of the block are READY.

Only model-checked: liveness (`EveryMissServed`, `BottomHalfReturns`,
`EveryAccessEnds`, `EveryCallReturns`), which the proof system does not do; the dynamic
dispatch loop, whose batches are part of run `spin`. The assumption `MapUnits > 0` of SharedPush says
that a PTE write takes room in the push.

## Plan

1. Prove next: the dynamic dispatch loop of KthreadPool, with the part of `work_cursor`
   that is handed out in place of the strides of `Fresh`.
2. Model next: a second coordinator on the pool (two GPUs); the mm snapshot that
   workers use; the page masks of the block service.

## Not modelled

The repository is almost entirely NVIDIA's driver (1.67 million lines with
generated and binary data); the models cover the files in which FaultMesh is
implemented, and there the code that decides control: most of P's pool and
dispatch code, the fault loop of R, the changed functions of V and all of F. The rest
of these files is profiling, the ioctl, module parameters, and driver code that
FaultMesh left as it was.

In FaultLoop: predictor modes 0, 1 and 3 and the fetch boost, the uTLB cancel of
Pascal (R 4690-5090), parse failures and confidential computing, faults that are
fatal by their type, HMM and ATS retries, access types of a fault, and the
throttling of prefetch faults. In SharedPush: HMM blocks, copies by the CPU, several
segments at a time (they share no push).

Profiling and timing code, the profile ioctl and the unreachable asynchronous
pipeline have no effect on the state above. The contents of pushes, page masks,
thrashing and prefetch hints belong to NVIDIA's driver. `write_status` of FrontLib
is allocated, cleared and passed to views, which never read or write it. Prefetch helpers and the warm-up
kernel are host I/O.
