--------------------------- MODULE SpinPoolProofs ---------------------------
(***************************************************************************)
(* Continuous and persistent workers service every item of a segment once,  *)
(* and a segment is over only when all its items are, for any number of     *)
(* workers, items, segments and batches, under the timing assumption of     *)
(* SpinSpec.                                                                *)
(*                                                                         *)
(* What a worker does from the claim of its id to the end of a segment is   *)
(* the part that KthreadPoolProofs proves correct (Core), as long as no     *)
(* worker has an id, or takes one, while the next segment is set up.  Here  *)
(* the generations have to ensure that: SpinInv says where the workers are  *)
(* while a batch is opened and while a segment of it is set up.             *)
(***************************************************************************)
EXTENDS SpinPool, KthreadPoolProofs

USE DEF vars, poolVars, stopVars, coordVars, localVars, workerVars, sharedVars
USE DEF genVars, loopVars, spinLocal, spinVars, allVars

\* Stages of the segment loop: opening a continuous batch, and ending it
Opening == {"open_gen", "open_finished"}
Finishing == {"finish", "finish_gen", "finish_active", "finish_ready"}
Spinning == {"spin", "reread", "test_finished", "test_batch"}

SpinTypes ==
    /\ cont_active \in BOOLEAN /\ seg_finished \in BOOLEAN /\ persistent \in BOOLEAN
    /\ continuous \in BOOLEAN /\ is_first_seg \in BOOLEAN
    /\ seg_generation \in Nat /\ batch_gen \in Nat /\ pbatch_gen \in Nat
    /\ stage \in {"out", "segments"} \cup Opening \cup Finishing
    /\ continuous_mode \in [Workers -> BOOLEAN]
    /\ last_gen \in [Workers -> Nat]
    /\ my_batch_gen \in [Workers -> Nat]
    /\ last_pgen \in [Workers -> Nat]

\* The generation a worker has seen is not one of the future.
SeenInv == \A w \in Workers : my_batch_gen[w] <= batch_gen

\* Where the segment loop is when a dispatch runs, and what the flags say of it
StageInv ==
    /\ cpc \notin {"idle", "stopping", "freed"} => stage = "segments"
    /\ cpc \in {"stopping", "freed"} => stage = "out"
    /\ cpc \notin {"stopping", "freed"} => ~shutting_down /\ should_stop = {}
    /\ cpc \in {"wait", "clear_ready", "collect"} => ~is_first_seg
    /\ stage = "segments" => cont_active = continuous /\ (continuous => ~seg_finished)
    /\ stage \in Opening => continuous /\ cont_active /\ is_first_seg
    /\ stage \in Finishing => ~is_first_seg
    /\ stage = "finish_ready" => ~cont_active

\* batch_ready is up from the first segment of a continuous batch to its end, and
\* during the dispatch of any other segment.
ReadyInv ==
    batch_ready => \/ cpc \in {"wake", "wait", "clear_ready"}
                   \/ stage = "segments" /\ FurtherSegment
                   \/ stage \in Finishing

\* Until the first segment of a batch is published, and while a plain segment is set up,
\* every worker waits or is about to leave the spin of an earlier batch.
ParkedInv ==
    \/ stage \in Opening
    \/ stage = "segments" /\ is_first_seg /\ cpc = "idle"
    \/ cpc \in Setup /\ ~FurtherSegment
    => \A w \in Workers : Parked(w)

\* No spinner has seen the batch that is being opened.
OpenedInv ==
    stage = "open_finished" =>
        \A w \in Workers : wpc[w] \in Spinning => my_batch_gen[w] # batch_gen

\* While a further segment is set up every worker spins on its generation or sleeps.
SpinReadyInv == cpc \in Setup /\ FurtherSegment => \A w \in Workers : Ready(w)

\* The set-up begins with no item serviced.
FreshSetup == cpc \in Setup => \A s \in Slots : serviced[s] = 0

SpinInv ==
    /\ SpinTypes /\ SeenInv /\ StageInv /\ ReadyInv /\ ParkedInv /\ OpenedInv
    /\ SpinReadyInv /\ FreshSetup
-----------------------------------------------------------------------------
(* The steps are those KthreadPoolProofs speaks of. *)

\* A step of a worker's own control only moves the worker.
LEMMA ControlAside ==
    ASSUME PoolTypes, NEW w \in Workers, NEW from, NEW to \in AllPC \ Owning,
           from \notin Owning, WorkerStep(w, from, to)
    PROVE  Aside
  <1>1. Moves(w)
    BY DEF WorkerStep, Moves
  <1> QED BY <1>1 DEF WorkerStep, Aside, PoolTypes

\* Every step is shared with the sleeping pool or is a step aside.
LEMMA SpinSplits ==
    ASSUME PoolTypes, SpinTypes, DynamicChoices \subseteq {FALSE}, [SpinNext]_allVars
    PROVE  PoolAct \/ Aside
  <1> USE DEF Opening, Finishing
  <1>1. ASSUME NEW c \in Continuous, BeginBatch(c) PROVE Aside
    BY <1>1 DEF BeginBatch, LoopStep, Aside, PoolTypes
  <1>2. CASE \/ OpenGen \/ OpenFinished \/ PushFails \/ EndBatch \/ EndDynamic
             \/ FinishSet \/ FinishGen \/ FinishActive
    BY <1>2 DEF OpenGen, OpenFinished, PushFails, EndBatch, EndDynamic, FinishSet, FinishGen, FinishActive,
         LoopStep, Aside, PoolTypes
  <1>3. CASE FinishReady
    BY <1>3 DEF FinishReady, Aside, PoolTypes
  <1>4. ASSUME NEW n \in 1 .. QueueSize, Segment(n) PROVE PoolAct
    <2> DEFINE base == IF is_first_seg THEN 0 ELSE queue_base + seg_num_items
    <2>1. PrepareDispatch(base, n, FALSE)
      BY <1>4 DEF Segment
    <2>2. base \in Slots
      <3>1. base + n <= QueueSize
        BY <2>1 DEF PrepareDispatch
      <3> QED BY <3>1, PoolAssumption DEF PoolTypes, Slots
    <2> HIDE DEF base
    <2> QED BY <2>1, <2>2 DEF PoolAct
  <1>5. CASE SetUp \/ Publish
    BY <1>5 DEF SetUp, Publish, PoolAct
  <1>6. CASE Wake
    BY <1>6 DEF Wake, Aside, PoolTypes
  <1>7. CASE NextGeneration
    BY <1>7 DEF NextGeneration, CoordStep, Aside, PoolTypes
  <1>8. CASE Wait
    <2>1. {} \in SUBSET DispatchSlots
      OBVIOUS
    <2> QED BY <1>8, <2>1 DEF Wait, PoolAct
  <1>9. CASE AfterWait
    BY <1>9 DEF AfterWait, CoordStep, Aside, PoolAct, PoolTypes
  <1>10. CASE Stop
    BY <1>10 DEF Stop, PoolAct
  <1>11. ASSUME NEW w \in Workers, AsBefore(w) PROVE PoolAct
    <2>1. PoolWorker(w)
      BY <1>11 DEF AsBefore, PoolWorker
    <2> QED BY <2>1 DEF PoolAct
  <1>12. ASSUME NEW w \in Workers, SegmentDone(w) PROVE Aside
    <2>1. Moves(w)
      <3>1. \E pc \in {"spin", "batch_done"} : wpc' = [wpc EXCEPT ![w] = pc]
        BY <1>12 DEF SegmentDone
      <3>2. {"spin", "batch_done"} \subseteq AllPC \ Owning /\ "release" \notin Owning
        BY DEF Owning, Looping, AllPC
      <3> QED BY <1>12, <3>1, <3>2 DEF SegmentDone, Moves
    <2> QED BY <1>12, <2>1 DEF SegmentDone, Aside, PoolTypes
  <1>13. ASSUME NEW w \in Workers,
                \/ Awake(w) \/ ReadMode(w) \/ ReadGeneration(w) \/ ReadBatch(w)
                \/ SpinEnds(w) \/ Reread(w) \/ TestFinished(w) \/ TestBatch(w)
                \/ BatchDone(w) \/ ReadPersistent(w) \/ PersistentEnds(w)
         PROVE  Aside
    <2>1. \E from \in AllPC \ Owning, to \in AllPC \ Owning : WorkerStep(w, from, to)
      <3> USE DEF AllPC, WorkerPC, Owning, Looping
      <3>1. CASE Awake(w) \/ ReadMode(w) \/ ReadGeneration(w) \/ ReadBatch(w)
        BY <3>1 DEF Awake, ReadMode, ReadGeneration, ReadBatch
      <3>2. CASE SpinEnds(w) \/ Reread(w) \/ TestFinished(w) \/ TestBatch(w)
        BY <3>2 DEF SpinEnds, Reread, TestFinished, TestBatch
      <3>3. CASE BatchDone(w) \/ ReadPersistent(w) \/ PersistentEnds(w)
        BY <3>3 DEF BatchDone, ReadPersistent, PersistentEnds
      <3> QED BY <1>13, <3>1, <3>2, <3>3
    <2> QED BY <2>1, ControlAside
  <1>14. CASE UNCHANGED allVars
    BY <1>14 DEF Aside, PoolTypes
  <1> QED BY <1>1, <1>2, <1>3, <1>4, <1>5, <1>6, <1>7, <1>8, <1>9, <1>10, <1>11, <1>12, <1>13, <1>14
          DEF SpinNext, Loop, Dispatch, SpinWorker, DynamicBatch

\* The spinning modes are strided.
LEMMA SpinStrided ==
    ASSUME [SpinNext]_allVars, DynamicChoices \subseteq {FALSE}, dynamic_active = FALSE
    PROVE  dynamic_active' = FALSE
  <1>1. ASSUME NEW c \in Continuous, BeginBatch(c) PROVE dynamic_active' = FALSE
    BY <1>1 DEF BeginBatch, LoopStep
  <1>2. CASE Loop
    BY <1>2 DEF Loop, OpenGen, OpenFinished, PushFails, EndBatch, EndDynamic, FinishSet, FinishGen,
         FinishActive, FinishReady, LoopStep, Segment, PrepareDispatch
  <1>3. CASE Dispatch
    BY <1>3 DEF Dispatch, SetUp, Publish, Wake, NextGeneration, Wait, AfterWait, SetActive, SetGroups,
         ResetCounter, SetRemaining, ReinitCompletion, SetReady, CompletionSeen, CollectItems, ClearReady,
         CoordStep
  <1>4. CASE Stop
    BY <1>4 DEF Stop, BeginDestroy, Destroy, KthreadStop, FreePool
  <1>5. ASSUME NEW w \in Workers, SpinWorker(w) PROVE dynamic_active' = FALSE
    <2>1. CASE AsBefore(w)
      BY <2>1 DEF AsBefore, EnterWait, TestCondition, WakeUp, ClaimId, ReadGroups, ReadActive, ReadBase,
           Gate, NextItem, ServiceItem, ItemsExhausted, DecRemaining, Complete
    <2>2. CASE ~AsBefore(w)
      BY <1>5, <2>2 DEF SpinWorker, Awake, ReadMode, ReadGeneration, ReadBatch, SegmentDone, SpinEnds,
           Reread, TestFinished, TestBatch, BatchDone, ReadPersistent, PersistentEnds, WorkerStep
    <2> QED BY <2>1, <2>2
  <1>6. CASE UNCHANGED allVars
    BY <1>6
  <1> QED BY <1>1, <1>2, <1>3, <1>4, <1>5, <1>6 DEF SpinNext, DynamicBatch
-----------------------------------------------------------------------------
(* What the steps do to the workers. *)

\* A worker's step changes nothing of the coordinator, the generations or another worker.
LEMMA SpinWorkerFrame ==
    ASSUME PoolTypes, SpinTypes, NEW w \in Workers, SpinWorker(w)
    PROVE  /\ UNCHANGED <<genVars, loopVars, cpc, batch_ready, stopVars>>
           /\ \A v \in Workers \ {w} :
                 /\ wpc'[v] = wpc[v] /\ my_batch_gen'[v] = my_batch_gen[v]
                 /\ last_gen'[v] = last_gen[v] /\ last_pgen'[v] = last_pgen[v]
                 /\ v \in worker_waitq' <=> v \in worker_waitq
  <1> USE DEF PoolTypes, SpinTypes
  <1>1. CASE AsBefore(w)
    <2>1. UNCHANGED spinVars
      BY <1>1 DEF AsBefore
    <2>2. CASE EnterWait(w) \/ TestCondition(w) \/ WakeUp(w) \/ ClaimId(w) \/ ReadGroups(w)
      BY <2>1, <2>2 DEF EnterWait, TestCondition, WakeUp, ClaimId, ReadGroups
    <2>3. CASE ReadActive(w) \/ ReadBase(w) \/ Gate(w) \/ ItemsExhausted(w)
      BY <2>1, <2>3 DEF ReadActive, ReadBase, Gate, ItemsExhausted
    <2>4. ASSUME NEW space \in VaSpaces, NextItem(w, space)
          PROVE  /\ UNCHANGED <<cpc, batch_ready, stopVars, worker_waitq>>
                 /\ \A v \in Workers \ {w} : wpc'[v] = wpc[v]
      BY <2>4 DEF NextItem
    <2>5. ASSUME NEW s \in ServiceStatus, ServiceItem(w, s)
          PROVE  /\ UNCHANGED <<cpc, batch_ready, stopVars, worker_waitq>>
                 /\ \A v \in Workers \ {w} : wpc'[v] = wpc[v]
      BY <2>5 DEF ServiceItem
    <2>6. CASE DecRemaining(w) \/ Complete(w)
      BY <2>1, <2>6 DEF DecRemaining, Complete
    <2> QED BY <1>1, <2>1, <2>2, <2>3, <2>4, <2>5, <2>6 DEF AsBefore
  <1>2. CASE Awake(w) \/ ReadMode(w) \/ ReadGeneration(w) \/ ReadBatch(w)
    BY <1>2 DEF Awake, ReadMode, ReadGeneration, ReadBatch, WorkerStep
  <1>3. CASE SpinEnds(w) \/ Reread(w) \/ TestFinished(w) \/ TestBatch(w)
    BY <1>3 DEF SpinEnds, Reread, TestFinished, TestBatch, WorkerStep
  <1>4. CASE BatchDone(w) \/ ReadPersistent(w) \/ PersistentEnds(w)
    BY <1>4 DEF BatchDone, ReadPersistent, PersistentEnds, WorkerStep
  <1>5. CASE SegmentDone(w)
    BY <1>5 DEF SegmentDone
  <1> QED BY <1>1, <1>2, <1>3, <1>4, <1>5 DEF SpinWorker

\* No worker sees a generation before it exists.
LEMMA SpinWorkerTypes ==
    ASSUME PoolTypes, SpinTypes, SeenInv, NEW w \in Workers, SpinWorker(w)
    PROVE  SpinTypes' /\ SeenInv'
  <1> USE DEF SpinTypes, SeenInv
  <1>1. CASE UNCHANGED spinVars
    BY <1>1
  <1>2. CASE ReadMode(w)
    <2>1. continuous_mode' \in [Workers -> BOOLEAN]
      BY <1>2 DEF ReadMode
    <2> QED BY <1>2, <2>1 DEF ReadMode, WorkerStep
  <1>3. CASE ReadGeneration(w) \/ Reread(w) \/ ReadPersistent(w) \/ PersistentEnds(w)
    BY <1>3 DEF ReadGeneration, Reread, ReadPersistent, PersistentEnds, WorkerStep
  <1>4. CASE ReadBatch(w)
    <2>1. my_batch_gen'[w] \in {0, batch_gen} /\ \A v \in Workers \ {w} : my_batch_gen'[v] = my_batch_gen[v]
      BY <1>4 DEF ReadBatch
    <2>2. my_batch_gen' \in [Workers -> Nat]
      BY <1>4 DEF ReadBatch
    <2> QED BY <1>4, <2>1, <2>2 DEF ReadBatch, WorkerStep
  <1>5. CASE BatchDone(w)
    <2>1. continuous_mode' \in [Workers -> BOOLEAN]
      BY <1>5 DEF BatchDone
    <2> QED BY <1>5, <2>1 DEF BatchDone, WorkerStep
  <1> QED BY <1>1, <1>2, <1>3, <1>4, <1>5
          DEF SpinWorker, AsBefore, SegmentDone, Awake, SpinEnds, TestFinished, TestBatch, WorkerStep

\* A parked worker stays parked as long as nothing is published: a stale spinner leaves
\* its batch and does not enter another one.
LEMMA ParkedStep ==
    ASSUME PoolTypes, SpinTypes, NEW w \in Workers, SpinWorker(w), Parked(w),
           ~batch_ready, ~Stopping(w)
    PROVE  /\ Parked(w)' /\ serviced' = serviced
           /\ wpc'[w] \in Spinning => wpc[w] \in Spinning /\ my_batch_gen'[w] = my_batch_gen[w]
  <1> USE DEF PoolTypes, SpinTypes, Parked, StaleSpinner, Outside, Spinning, Stopping
  <1>1. CASE wpc[w] \in Outside
    <2>1. EnterWait(w) \/ TestCondition(w) \/ WakeUp(w)
      BY <1>1 DEF SpinWorker, AsBefore, ClaimId, ReadGroups, ReadActive, ReadBase, Gate, NextItem,
           ServiceItem, ItemsExhausted, DecRemaining, Complete, Awake, ReadMode, ReadGeneration, ReadBatch,
           SegmentDone, SpinEnds, Reread, TestFinished, TestBatch, BatchDone, ReadPersistent,
           PersistentEnds, WorkerStep
    <2>2. wpc'[w] \in {"check", "asleep"} /\ serviced' = serviced
      BY <2>1 DEF EnterWait, TestCondition, WakeUp
    <2> QED BY <2>2
  <1>2. CASE wpc[w] \notin Outside
    <2>1. wpc[w] \in Spinning \cup {"batch_done", "pspin"}
      BY <1>2
    <2>2. ~AsBefore(w)
      BY <2>1 DEF AsBefore, EnterWait, TestCondition, WakeUp, ClaimId, ReadGroups, ReadActive, ReadBase,
           Gate, NextItem, ServiceItem, ItemsExhausted, DecRemaining, Complete
    <2>3. SpinEnds(w) \/ Reread(w) \/ TestFinished(w) \/ TestBatch(w) \/ BatchDone(w) \/ PersistentEnds(w)
      BY <2>1, <2>2 DEF SpinWorker, Awake, ReadMode, ReadGeneration, ReadBatch, SegmentDone,
           ReadPersistent, WorkerStep
    <2>4. CASE SpinEnds(w)
      BY <2>4 DEF SpinEnds, WorkerStep
    <2>5. CASE Reread(w) \/ TestFinished(w)
      BY <2>5 DEF Reread, TestFinished, WorkerStep
    <2>6. CASE TestBatch(w)
      BY <2>6 DEF TestBatch, WorkerStep
    <2>7. CASE BatchDone(w) \/ PersistentEnds(w)
      BY <2>7 DEF BatchDone, PersistentEnds, WorkerStep
    <2> QED BY <2>3, <2>4, <2>5, <2>6, <2>7
  <1> QED BY <1>1, <1>2

\* A worker that is ready for the next segment of a batch waits for its generation.
LEMMA ReadyStep ==
    ASSUME PoolTypes, SpinTypes, NEW w \in Workers, SpinWorker(w), Ready(w), ~seg_finished
    PROVE  FALSE
  <1>1. CASE wpc[w] = "asleep" /\ w \in worker_waitq
    BY <1>1 DEF SpinWorker, AsBefore, EnterWait, TestCondition, WakeUp, ClaimId, ReadGroups, ReadActive,
         ReadBase, Gate, NextItem, ServiceItem, ItemsExhausted, DecRemaining, Complete, Awake, ReadMode,
         ReadGeneration, ReadBatch, SegmentDone, SpinEnds, Reread, TestFinished, TestBatch, BatchDone,
         ReadPersistent, PersistentEnds, WorkerStep
  <1>2. CASE wpc[w] = "spin" /\ last_gen[w] = seg_generation /\ my_batch_gen[w] = batch_gen
    BY <1>2 DEF SpinWorker, AsBefore, EnterWait, TestCondition, WakeUp, ClaimId, ReadGroups, ReadActive,
         ReadBase, Gate, NextItem, ServiceItem, ItemsExhausted, DecRemaining, Complete, Awake, ReadMode,
         ReadGeneration, ReadBatch, SegmentDone, SpinEnds, Reread, TestFinished, TestBatch, BatchDone,
         ReadPersistent, PersistentEnds, WorkerStep
  <1> QED BY <1>1, <1>2 DEF Ready

\* While a segment is set up no worker has an id or takes one.
LEMMA SpinSetup == SpinInv => SetupInv
  <1> SUFFICES ASSUME SpinInv, cpc \in Setup, NEW w \in Workers
               PROVE  wpc[w] \notin {"claim"} \cup Owning
    BY DEF SpinInv, FreshSetup, SetupInv
  <1>1. Parked(w) \/ Ready(w)
    BY DEF SpinInv, ParkedInv, SpinReadyInv
  <1> QED BY <1>1 DEF Parked, StaleSpinner, Ready, Outside, Owning, Looping
-----------------------------------------------------------------------------
(* SpinInv is inductive. *)

\* A step of a worker keeps SpinInv.
LEMMA SpinInvWorker ==
    ASSUME PoolTypes, SpinInv, NEW w \in Workers, SpinWorker(w)
    PROVE  SpinInv'
  <1> USE DEF SpinInv
  <1>1. SpinTypes' /\ SeenInv'
    BY SpinWorkerTypes
  <1>F. /\ UNCHANGED <<genVars, loopVars, cpc, batch_ready, stopVars>>
        /\ \A v \in Workers \ {w} :
              /\ wpc'[v] = wpc[v] /\ my_batch_gen'[v] = my_batch_gen[v]
              /\ last_gen'[v] = last_gen[v] /\ last_pgen'[v] = last_pgen[v]
              /\ v \in worker_waitq' <=> v \in worker_waitq
    BY SpinWorkerFrame
  <1>2. StageInv' /\ ReadyInv'
    BY <1>F DEF StageInv, ReadyInv, FurtherSegment
  <1> DEFINE Quiet == \/ stage \in Opening
                      \/ stage = "segments" /\ is_first_seg /\ cpc = "idle"
                      \/ cpc \in Setup /\ ~FurtherSegment
  <1>3. ASSUME Quiet
        PROVE  /\ \A v \in Workers : Parked(v)'
               /\ serviced' = serviced
               /\ wpc'[w] \in Spinning => wpc[w] \in Spinning /\ my_batch_gen'[w] = my_batch_gen[w]
    <2>1. \A v \in Workers : Parked(v)
      BY <1>3 DEF ParkedInv
    <2>2. ~batch_ready /\ ~Stopping(w)
      BY <1>3 DEF ReadyInv, StageInv, Setup, Opening, Finishing, FurtherSegment, Stopping
    <2>3. \A v \in Workers \ {w} : Parked(v)'
      BY <1>F, <2>1 DEF Parked, StaleSpinner
    <2> QED BY <2>1, <2>2, <2>3, ParkedStep
  <1>4. ~(cpc \in Setup /\ FurtherSegment)
    <2> SUFFICES ASSUME cpc \in Setup, FurtherSegment PROVE FALSE
      OBVIOUS
    <2>1. Ready(w) /\ ~seg_finished
      BY DEF SpinReadyInv, StageInv, Setup, FurtherSegment
    <2> QED BY <2>1, ReadyStep
  <1>5. ParkedInv'
    BY <1>F, <1>3 DEF ParkedInv, FurtherSegment
  <1>6. OpenedInv'
    BY <1>F, <1>3 DEF OpenedInv, Opening
  <1>7. SpinReadyInv'
    BY <1>F, <1>4 DEF SpinReadyInv, FurtherSegment
  <1>8. FreshSetup'
    BY <1>F, <1>3, <1>4 DEF FreshSetup
  <1> QED BY <1>1, <1>2, <1>5, <1>6, <1>7, <1>8

\* A step of the coordinator inside a dispatch keeps SpinInv.
LEMMA SpinInvDispatch ==
    ASSUME PoolTypes, SpinInv, Dispatch
    PROVE  SpinInv'
  <1> USE DEF SpinInv, Setup, Opening, Finishing, FurtherSegment
  <1>1. CASE SetUp
    <2>1. /\ cpc \in Setup /\ cpc' \in Setup
          /\ UNCHANGED <<spinVars, workerVars, serviced, stopVars, batch_ready, worker_waitq>>
      BY <1>1 DEF SetUp, SetActive, SetGroups, ResetCounter, SetRemaining, ReinitCompletion, CoordStep
    <2> QED BY <2>1 DEF SpinTypes, SeenInv, StageInv, ReadyInv, ParkedInv, OpenedInv, SpinReadyInv,
               FreshSetup, Parked, StaleSpinner, Ready
  <1>2. CASE Publish
    BY <1>2 DEF Publish, SetReady, CoordStep, SpinTypes, SeenInv, StageInv, ReadyInv, ParkedInv, OpenedInv,
         SpinReadyInv, FreshSetup
  <1>3. CASE Wake
    <2>1. SpinTypes'
      <3>1. pbatch_gen' \in Nat
        BY <1>3 DEF Wake, SpinTypes
      <3>2. is_first_seg' \in BOOLEAN
        BY <1>3 DEF Wake
      <3> QED BY <1>3, <3>1, <3>2 DEF Wake, SpinTypes
    <2> QED BY <1>3, <2>1 DEF Wake, SeenInv, StageInv, ReadyInv, ParkedInv, OpenedInv, SpinReadyInv, FreshSetup
  <1>4. CASE NextGeneration
    <2>1. SpinTypes'
      BY <1>4 DEF NextGeneration, SpinTypes
    <2> QED BY <1>4, <2>1 DEF NextGeneration, CoordStep, SeenInv, StageInv, ReadyInv, ParkedInv, OpenedInv,
               SpinReadyInv, FreshSetup
  <1>5. CASE Wait
    BY <1>5 DEF Wait, CompletionSeen, CollectItems, CoordStep, SpinTypes, SeenInv, StageInv, ReadyInv,
         ParkedInv, OpenedInv, SpinReadyInv, FreshSetup
  <1>6. CASE AfterWait
    BY <1>6 DEF AfterWait, ClearReady, CoordStep, SpinTypes, SeenInv, StageInv, ReadyInv,
         ParkedInv, OpenedInv, SpinReadyInv, FreshSetup
  <1> QED BY <1>1, <1>2, <1>3, <1>4, <1>5, <1>6 DEF Dispatch

\* A step of the segment loop keeps SpinInv, given the timing assumption.
LEMMA SpinInvLoop ==
    ASSUME PoolTypes, SpinInv, SpinSpaced, Loop \/ \E c \in Continuous : BeginBatch(c)
    PROVE  SpinInv'
  <1> USE DEF SpinInv, Setup, Opening, Finishing, FurtherSegment
  <1>1. ASSUME NEW c \in Continuous, BeginBatch(c) PROVE SpinInv'
    <2>1. c \in BOOLEAN
      BY SpinAssumption
    <2>2. SpinTypes' /\ SeenInv'
      BY <1>1, <2>1 DEF BeginBatch, LoopStep, SpinTypes, SeenInv
    <2>3. stage = "out" /\ stage' # "out" /\ cpc = "idle" /\ cpc' = "idle"
      BY <1>1 DEF BeginBatch, LoopStep
    <2>4. \A w \in Workers : Parked(w)
      BY <2>3 DEF SpinSpaced
    <2>5. \A w \in Workers : Parked(w)'
      BY <1>1, <2>4 DEF BeginBatch, LoopStep, Parked, StaleSpinner
    <2>6. StageInv' /\ ReadyInv'
      BY <1>1, <2>1 DEF BeginBatch, LoopStep, StageInv, ReadyInv
    <2> QED BY <1>1, <2>2, <2>3, <2>5, <2>6
            DEF BeginBatch, LoopStep, ParkedInv, OpenedInv, SpinReadyInv, FreshSetup
  <1>2. CASE OpenGen
    <2>1. SpinTypes'
      BY <1>2 DEF OpenGen, LoopStep, SpinTypes
    <2>2. \A w \in Workers : my_batch_gen[w] <= batch_gen' /\ my_batch_gen[w] # batch_gen'
      BY <1>2 DEF OpenGen, SpinTypes, SeenInv
    <2>3. \A w \in Workers : Parked(w)'
      BY <1>2, <2>2 DEF OpenGen, LoopStep, ParkedInv, Parked, StaleSpinner
    <2> QED BY <1>2, <2>1, <2>2, <2>3 DEF OpenGen, LoopStep, SeenInv, StageInv, ReadyInv, ParkedInv, OpenedInv,
               SpinReadyInv, FreshSetup
  <1>3. CASE OpenFinished
    <2>1. SpinTypes'
      BY <1>3 DEF OpenFinished, LoopStep, SpinTypes
    <2>2. \A w \in Workers : Parked(w)'
      BY <1>3 DEF OpenFinished, LoopStep, ParkedInv, OpenedInv, Parked, StaleSpinner, Spinning
    <2> QED BY <1>3, <2>1, <2>2 DEF OpenFinished, LoopStep, SeenInv, StageInv, ReadyInv, ParkedInv, OpenedInv,
               SpinReadyInv, FreshSetup
  <1>4. CASE PushFails
    <2>1. SpinTypes'
      BY <1>4 DEF PushFails, LoopStep, SpinTypes
    <2>2. ParkedInv'
      BY <1>4 DEF PushFails, LoopStep, ParkedInv, Parked, StaleSpinner
    <2> QED BY <1>4, <2>1, <2>2 DEF PushFails, LoopStep, SeenInv, StageInv, ReadyInv, OpenedInv,
               SpinReadyInv, FreshSetup
  <1>5. CASE EndBatch \/ FinishSet \/ FinishGen \/ FinishActive
    <2>1. SpinTypes' /\ SeenInv'
      <3>1. CASE EndBatch \/ FinishSet \/ FinishActive
        BY <3>1 DEF EndBatch, FinishSet, FinishActive, LoopStep, SpinTypes, SeenInv
      <3>2. CASE FinishGen
        BY <3>2 DEF FinishGen, LoopStep, SpinTypes, SeenInv
      <3> QED BY <1>5, <3>1, <3>2
    <2> QED BY <1>5, <2>1 DEF EndBatch, FinishSet, FinishGen, FinishActive, LoopStep, StageInv, ReadyInv,
               ParkedInv, OpenedInv, SpinReadyInv, FreshSetup, SpinTypes
  <1>6. CASE FinishReady
    <2>1. SpinTypes' /\ SeenInv'
      BY <1>6 DEF FinishReady, SpinTypes, SeenInv
    <2> QED BY <1>6, <2>1 DEF FinishReady, StageInv, ReadyInv, ParkedInv, OpenedInv, SpinReadyInv, FreshSetup,
               SpinTypes
  <1>7. ASSUME NEW n \in 1 .. QueueSize, Segment(n) PROVE SpinInv'
    <2>1. /\ cpc = "idle" /\ cpc' = "set_active" /\ stage = "segments" /\ stage' = "segments"
          /\ UNCHANGED <<spinVars, workerVars, worker_waitq, stopVars, batch_ready>>
          /\ serviced' = [s \in Slots |-> 0]
      BY <1>7 DEF Segment, PrepareDispatch
    <2>2. \A w \in Workers : IF FurtherSegment THEN Ready(w) ELSE Parked(w)
      BY <2>1 DEF SpinSpaced, ParkedInv
    <2>3. ParkedInv' /\ SpinReadyInv'
      BY <2>1, <2>2 DEF ParkedInv, SpinReadyInv, Parked, StaleSpinner, Ready
    <2> QED BY <2>1, <2>3 DEF SpinTypes, SeenInv, StageInv, ReadyInv, OpenedInv, FreshSetup
  <1>8. ~EndDynamic
    BY DEF EndDynamic, LoopStep, SpinTypes
  <1> QED BY <1>1, <1>2, <1>3, <1>4, <1>5, <1>6, <1>7, <1>8 DEF Loop

\* Every step keeps SpinInv, given the timing assumption.
LEMMA SpinInvStep ==
    ASSUME PoolTypes, SpinInv, DynamicChoices \subseteq {FALSE}, [SpinNext /\ SpinSpaced]_allVars
    PROVE  SpinInv'
  <1>1. CASE Stop
    BY <1>1 DEF SpinInv, Stop, BeginDestroy, Destroy, KthreadStop, FreePool, SpinTypes, SeenInv, StageInv,
         ReadyInv, ParkedInv, OpenedInv, SpinReadyInv, FreshSetup, Setup, Opening, Finishing, FurtherSegment
  <1>2. CASE UNCHANGED allVars
    BY <1>2 DEF SpinInv, SpinTypes, SeenInv, StageInv, ReadyInv, ParkedInv, OpenedInv, SpinReadyInv,
         FreshSetup, FurtherSegment, Parked, StaleSpinner, Ready
  <1> QED BY <1>1, <1>2, SpinInvWorker, SpinInvDispatch, SpinInvLoop DEF SpinNext, DynamicBatch

\* Initially no batch is open and every worker waits.
LEMMA SpinInvInit == SpinInit => SpinInv /\ Core
  <1> SUFFICES ASSUME SpinInit PROVE SpinInv /\ Core
    OBVIOUS
  <1>1. Core
    BY CoreInit DEF SpinInit
  <1>2. persistent \in BOOLEAN
    BY SpinAssumption DEF SpinInit
  <1>3. continuous_mode \in [Workers -> BOOLEAN]
    BY DEF SpinInit
  <1>4. SpinTypes
    BY <1>2, <1>3 DEF SpinInit, SpinTypes
  <1>5. SeenInv /\ StageInv /\ ReadyInv /\ ParkedInv /\ OpenedInv /\ SpinReadyInv /\ FreshSetup
    BY DEF SpinInit, Init, SeenInv, StageInv, ReadyInv, ParkedInv, OpenedInv, SpinReadyInv, FreshSetup,
         Setup, Opening, Finishing
  <1> QED BY <1>1, <1>4, <1>5 DEF SpinInv

\* In the continuous and persistent modes no item of a segment is serviced twice, and
\* dispatch_wait_inner returns only when all are serviced and no worker is at one:
\* seg_generation, seg_finished and batch_gen keep every spinner out of the set-up of
\* a segment and out of a batch it has not seen.  (Strided dispatches: the cursor of
\* the dynamic ones is left to the run.)
THEOREM SpinSound ==
    ASSUME DynamicChoices \subseteq {FALSE}
    PROVE  SpinSpec => []SegmentSound
  <1>1. SpinInv /\ Core /\ [SpinNext /\ SpinSpaced]_allVars => SpinInv' /\ Core'
    <2> SUFFICES ASSUME SpinInv, Core, [SpinNext /\ SpinSpaced]_allVars PROVE SpinInv' /\ Core'
      OBVIOUS
    <2>1. PoolTypes /\ SpinTypes /\ dynamic_active = FALSE /\ [SpinNext]_allVars
      BY DEF SpinInv, Core, Basic, StridedOnly
    <2>2. SpinInv'
      BY <2>1, SpinInvStep
    <2>3. SetupInv'
      BY <2>2, SpinSetup, PTL
    <2>4. CoreNext
      BY <2>1, <2>3, SpinSplits, SpinStrided DEF CoreNext
    <2> QED BY <2>2, <2>4, CoreStep
  <1>2. Core => SegmentSound
    <2> SUFFICES ASSUME Core PROVE SegmentSound
      OBVIOUS
    <2>1. ServicedOnce /\ CompletionMeansDone
      BY CoreImplies
    <2>2. DispatchSlots \subseteq Slots /\ serviced \in [Slots -> Nat]
      BY SegmentSlots DEF Core, Basic, PoolTypes
    <2> QED BY <2>1, <2>2 DEF SegmentSound, ServicedOnce, CompletionMeansDone
  <1>3. SpinSpec => SpinInit /\ [][SpinNext /\ SpinSpaced]_allVars
    BY PTL DEF SpinSpec
  <1> QED BY <1>1, <1>2, <1>3, SpinInvInit, PTL
=============================================================================
