-------------------------- MODULE KthreadPoolTypes --------------------------
(***************************************************************************)
(* Proofs about the kthread pool as the code stands (Spec): its types, and  *)
(* the va_space locks.  Nothing here assumes that dispatches are spaced     *)
(* out.                                                                     *)
(*                                                                         *)
(* The steps are split into those that the sleeping workers of KthreadPool  *)
(* share with the spinning ones of SpinPool (PoolAct) and those in which a  *)
(* worker only comes to a segment or leaves it (Aside): what is proved of   *)
(* both kinds holds of both modules.                                        *)
(***************************************************************************)
EXTENDS KthreadPool, TLAPS, FiniteSetTheorems, WellFoundedInduction

USE DEF vars, poolVars, stopVars, coordVars, localVars, workerVars, sharedVars

\* Control points: the stores of dispatch_start_inner; the item loop; a worker that has
\* taken an id and may still service items
Setup == {"set_active", "set_groups", "reset_counter", "set_remaining", "reinit",
          "set_ready"}
Looping == {"next_item", "service", "dec", "complete"}
Owning == {"read_groups", "read_active", "read_base", "gate"} \cup Looping

\* The control points of the workers of both modules
AllPC == WorkerPC \cup {"top", "read_gen", "read_batch", "spin", "reread", "test_finished",
                        "test_batch", "batch_done", "persist", "pspin"}

\* The types of TypeOK, with the control points of both modules
PoolTypes ==
    /\ batch_ready \in BOOLEAN /\ all_done \in BOOLEAN
    /\ batch_num_active \in 0 .. NumWorkers
    /\ batch_num_groups \in 0 .. QueueSize
    /\ queue_base \in Slots
    /\ batch_worker_counter \in 0 .. CounterCap
    /\ items_remaining \in Int
    /\ dynamic_active \in BOOLEAN /\ work_cursor \in Nat
    /\ worker_waitq \subseteq Workers
    /\ shutting_down \in BOOLEAN /\ pool_freed \in BOOLEAN
    /\ should_stop \subseteq Workers
    /\ item_status \in [Slots -> ItemStatus]
    /\ cpc \in CoordPC
    /\ seg_num_items \in 0 .. QueueSize
    /\ result \in Result
    /\ dispatches \in 0 .. MaxDispatches
    /\ wpc \in [Workers -> AllPC]
    /\ my_batch_id \in [Workers -> 0 .. CounterCap]
    /\ num_items \in [Workers -> 0 .. QueueSize]
    /\ num_active \in [Workers -> 0 .. NumWorkers]
    /\ q_base \in [Workers -> Slots]
    /\ idx \in [Workers -> Nat]
    /\ dynamic \in [Workers -> BOOLEAN]
    /\ held_va_space \in [Workers -> VaSpaces \cup {NoSpace}]
    /\ serviced \in [Slots -> Nat]

\* The steps of worker w that SpinPool takes over
PoolWorker(w) ==
    \/ EnterWait(w) \/ TestCondition(w) \/ WakeUp(w)
    \/ ClaimId(w) \/ ReadGroups(w) \/ ReadActive(w) \/ ReadBase(w) \/ Gate(w)
    \/ ItemsExhausted(w)
    \/ \E space \in VaSpaces \cup {NoSpace} : NextItem(w, space)
    \/ \E s \in ServiceStatus : ServiceItem(w, s)
    \/ DecRemaining(w) \/ Complete(w)

\* The steps the two modules share
PoolAct ==
    \/ \E base \in Slots, n \in 1 .. QueueSize, dyn \in BOOLEAN : PrepareDispatch(base, n, dyn)
    \/ SetActive \/ SetGroups \/ ResetCounter \/ SetRemaining \/ ReinitCompletion \/ SetReady
    \/ CompletionSeen \/ ClearReady \/ WaitTimedOut
    \/ \E unmerged \in SUBSET DispatchSlots : CollectItems(unmerged)
    \/ BeginDestroy \/ Destroy
    \/ \E w \in Workers : PoolWorker(w)

\* A worker moves outside the segments, or ends one and loses its locals.
Moves(w) ==
    /\ wpc[w] \notin Owning
    /\ \E pc \in AllPC \ Owning : wpc' = [wpc EXCEPT ![w] = pc]
    /\ \/ UNCHANGED <<localVars, held_va_space>>
       \/ /\ held_va_space' = [held_va_space EXCEPT ![w] = NoSpace]
          /\ my_batch_id' = [my_batch_id EXCEPT ![w] = 0]
          /\ num_items' = [num_items EXCEPT ![w] = 0]
          /\ num_active' = [num_active EXCEPT ![w] = 0]
          /\ q_base' = [q_base EXCEPT ![w] = 0]
          /\ idx' = [idx EXCEPT ![w] = 0]
          /\ dynamic' = [dynamic EXCEPT ![w] = FALSE]

\* A step that touches no item and no parameter of a dispatch
Aside ==
    /\ UNCHANGED <<batch_num_active, batch_num_groups, queue_base, batch_worker_counter,
                   items_remaining, all_done, dynamic_active, work_cursor, stopVars,
                   item_status, seg_num_items, result, dispatches, serviced>>
    /\ batch_ready' \in BOOLEAN /\ worker_waitq' \subseteq Workers
    /\ \/ cpc' = cpc
       \/ cpc \in {"set_ready", "wake"} /\ cpc' = "wait"
       \/ cpc = "clear_ready" /\ cpc' = "collect"
    /\ UNCHANGED workerVars \/ \E w \in Workers : Moves(w)

\* The pool has at least one worker.
LEMMA NumWorkersNat == NumWorkers \in Nat \ {0}
  BY PoolAssumption, FS_CardinalityType, FS_EmptySet DEF NumWorkers

\* dispatch_start_inner never activates more workers than it has, or than items.
LEMMA NumActiveType ==
    ASSUME NEW n \in Nat
    PROVE  NumActive(n) \in 0 .. NumWorkers /\ NumActive(n) <= n
  BY PoolAssumption, NumWorkersNat DEF NumActive, Min2

\* A non-empty set of slots has a smallest one.
LEMMA IntervalMin ==
    ASSUME NEW n \in Nat, NEW S \in SUBSET (0 .. n - 1), S # {}
    PROVE  \E m \in S : \A t \in S : m <= t
  <1> DEFINE R == OpToRel(<, Nat)
  <1>1. S \subseteq Nat
    OBVIOUS
  <1>2. \E x \in S : \A y \in S : ~ (<<y, x>> \in R)
    <2> HIDE DEF R
    <2> QED BY <1>1, NatLessThanWellFounded, WFMin DEF R
  <1>3. \A x, y \in S : <<y, x>> \notin R => x <= y
    BY <1>1 DEF OpToRel
  <1> QED BY <1>2, <1>3

\* The status loop of dispatch_wait_inner returns a status of an item or of a merge.
LEMMA CombinedStatusType ==
    ASSUME PoolTypes, queue_base + seg_num_items <= QueueSize, NEW unmerged \in SUBSET DispatchSlots
    PROVE  CombinedStatus(unmerged) \in ItemStatus \cup {"NV_ERR_NO_MEMORY"}
  <1> DEFINE bad == {s \in DispatchSlots : item_status[s] # "NV_OK" \/ s \in unmerged}
             first == CHOOSE s \in bad : \A t \in bad : s <= t
  <1>1. CASE bad = {}
    BY <1>1 DEF CombinedStatus, ItemStatus
  <1>2. CASE bad # {}
    <2>1. bad \subseteq Slots
      BY PoolAssumption DEF DispatchSlots, Slots, PoolTypes
    <2>2. PICK m \in bad : \A t \in bad : m <= t
      BY <1>2, <2>1, IntervalMin, PoolAssumption DEF Slots
    <2>3. first \in bad
      <3> HIDE DEF bad
      <3> QED BY <2>2
    <2>4. item_status[first] \in ItemStatus
      BY <2>1, <2>3 DEF PoolTypes
    <2>5. CombinedStatus(unmerged) = IF item_status[first] # "NV_OK" THEN item_status[first] ELSE "NV_ERR_NO_MEMORY"
      BY <1>2 DEF CombinedStatus
    <2> HIDE DEF first
    <2> QED BY <2>4, <2>5
  <1> QED BY <1>1, <1>2

\* Counting one more service of a slot, even one outside the queue, keeps the type.
LEMMA IncrementType ==
    ASSUME NEW f \in [Slots -> Nat], NEW x
    PROVE  [f EXCEPT ![x] = @ + 1] \in [Slots -> Nat]
  <1> DEFINE g == [f EXCEPT ![x] = @ + 1]
  <1>1. g = [s \in Slots |-> IF s = x THEN f[s] + 1 ELSE f[s]]
    OBVIOUS
  <1>2. \A s \in Slots : f[s] \in Nat /\ f[s] + 1 \in Nat
    OBVIOUS
  <1> HIDE DEF g
  <1> QED BY <1>1, <1>2

\* The state uvm_kthread_pool_create leaves behind is well typed.
LEMMA TypeInit == Init => TypeOK
  <1> SUFFICES ASSUME Init PROVE TypeOK
    OBVIOUS
  <1> USE PoolAssumption, NumWorkersNat DEF Init
  <1>1. item_status \in [Slots -> ItemStatus]
    BY DEF ItemStatus
  <1>2. wpc \in [Workers -> WorkerPC]
    BY DEF WorkerPC
  <1>3. dynamic \in [Workers -> BOOLEAN]
    OBVIOUS
  <1>4. cpc \in CoordPC /\ result \in Result
    BY DEF CoordPC, Result
  <1>5. queue_base \in Slots /\ q_base \in [Workers -> Slots]
    BY DEF Slots
  <1>6. num_items \in [Workers -> 0 .. QueueSize] /\ num_active \in [Workers -> 0 .. NumWorkers]
        /\ idx \in [Workers -> Nat] /\ my_batch_id \in [Workers -> 0 .. CounterCap]
    OBVIOUS
  <1>7. held_va_space \in [Workers -> VaSpaces \cup {NoSpace}] /\ serviced \in [Slots -> Nat]
    OBVIOUS
  <1>8. batch_ready \in BOOLEAN /\ all_done \in BOOLEAN /\ dynamic_active \in BOOLEAN
        /\ shutting_down \in BOOLEAN /\ pool_freed \in BOOLEAN
    OBVIOUS
  <1>9. batch_num_active \in 0 .. NumWorkers /\ batch_num_groups \in 0 .. QueueSize
        /\ batch_worker_counter \in 0 .. CounterCap /\ items_remaining \in Int
        /\ work_cursor \in Nat /\ seg_num_items \in 0 .. QueueSize
        /\ dispatches \in 0 .. MaxDispatches
    OBVIOUS
  <1>10. worker_waitq \subseteq Workers /\ should_stop \subseteq Workers
    OBVIOUS
  <1> QED
    BY <1>1, <1>2, <1>3, <1>4, <1>5, <1>6, <1>7, <1>8, <1>9, <1>10, Zenon DEF TypeOK

\* The dispatched segment lies inside pool->queue.
SegInQueue == queue_base + seg_num_items <= QueueSize

\* Every step keeps the types and the segment inside the queue.
LEMMA PoolTypesStep ==
    PoolTypes /\ SegInQueue /\ (PoolAct \/ Aside) => PoolTypes' /\ SegInQueue'
  <1> SUFFICES ASSUME PoolTypes, SegInQueue, PoolAct \/ Aside PROVE PoolTypes' /\ SegInQueue'
    OBVIOUS
  <1> USE PoolAssumption, NumWorkersNat DEF PoolTypes, SegInQueue, CoordPC, WorkerPC, AllPC
  <1>1. ASSUME NEW base \in Slots, NEW n \in 1 .. QueueSize, NEW dyn \in BOOLEAN,
               PrepareDispatch(base, n, dyn)
        PROVE PoolTypes' /\ SegInQueue'
    <2>1. serviced' \in [Slots -> Nat]
      BY <1>1 DEF PrepareDispatch
    <2>3. work_cursor' \in Nat /\ dynamic_active' \in BOOLEAN
      BY <1>1 DEF PrepareDispatch
    <2>4. SegInQueue' /\ queue_base' \in Slots /\ seg_num_items' \in 0 .. QueueSize
      BY <1>1 DEF PrepareDispatch, Slots
    <2>5. result' \in Result /\ dispatches' \in 0 .. MaxDispatches
      BY <1>1 DEF PrepareDispatch, Result
    <2> QED BY <1>1, <2>1, <2>3, <2>4, <2>5 DEF PrepareDispatch
  <1>2. CASE SetActive
    BY <1>2, NumActiveType DEF SetActive, CoordStep
  <1>3. CASE SetGroups \/ ResetCounter \/ SetRemaining \/ ReinitCompletion \/ SetReady
    <2>1. CASE SetGroups \/ ResetCounter \/ SetRemaining
      BY <2>1 DEF SetGroups, ResetCounter, SetRemaining, CoordStep
    <2>2. CASE ReinitCompletion \/ SetReady
      BY <2>2 DEF ReinitCompletion, SetReady, CoordStep
    <2> QED BY <1>3, <2>1, <2>2
  <1>5. CASE CompletionSeen \/ ClearReady \/ WaitTimedOut
    BY <1>5 DEF CompletionSeen, ClearReady, WaitTimedOut, CoordStep, Result
  <1>6. ASSUME NEW unmerged \in SUBSET DispatchSlots, CollectItems(unmerged)
        PROVE PoolTypes' /\ SegInQueue'
    BY <1>6, CombinedStatusType DEF CollectItems, Result
  <1>7. CASE BeginDestroy \/ FreePool
    BY <1>7 DEF BeginDestroy, FreePool
  <1>8. ASSUME NEW w \in Workers, KthreadStop(w) PROVE PoolTypes' /\ SegInQueue'
    BY <1>8 DEF KthreadStop
  <1>9. ASSUME NEW w \in Workers, EnterWait(w) \/ TestCondition(w) \/ WakeUp(w)
        PROVE PoolTypes' /\ SegInQueue'
    BY <1>9 DEF EnterWait, TestCondition, WakeUp
  <1>10. ASSUME NEW w \in Workers, ClaimId(w) \/ ReadGroups(w) \/ ReadActive(w) \/ ReadBase(w)
        PROVE PoolTypes' /\ SegInQueue'
    BY <1>10 DEF ClaimId, ReadGroups, ReadActive, ReadBase, Bump
  <1>11. ASSUME NEW w \in Workers, Gate(w) PROVE PoolTypes' /\ SegInQueue'
    BY <1>11 DEF Gate
  <1>12. ASSUME NEW w \in Workers, NEW space \in VaSpaces \cup {NoSpace}, NextItem(w, space)
         PROVE PoolTypes' /\ SegInQueue'
    <2>1. serviced' \in [Slots -> Nat]
      BY <1>12, IncrementType DEF NextItem
    <2>2. item_status' \in [Slots -> ItemStatus]
      BY <1>12 DEF NextItem, ItemStatus
    <2>3. wpc' \in [Workers -> AllPC]
      BY <1>12 DEF NextItem
    <2>4. held_va_space' \in [Workers -> VaSpaces \cup {NoSpace}]
      BY <1>12 DEF NextItem
    <2> QED BY <1>12, <2>1, <2>2, <2>3, <2>4 DEF NextItem
  <1>13. ASSUME NEW w \in Workers, NEW s \in ServiceStatus, ServiceItem(w, s)
         PROVE PoolTypes' /\ SegInQueue'
    <2>1. serviced' \in [Slots -> Nat]
      BY <1>13, IncrementType DEF ServiceItem
    <2>2. item_status' \in [Slots -> ItemStatus]
      <3>1. s \in ItemStatus
        OBVIOUS
      <3> QED BY <1>13, <3>1 DEF ServiceItem
    <2>3. wpc' \in [Workers -> AllPC]
      BY <1>13 DEF ServiceItem
    <2> QED BY <1>13, <2>1, <2>2, <2>3 DEF ServiceItem
  <1>14. ASSUME NEW w \in Workers, DecRemaining(w) \/ Complete(w) PROVE PoolTypes' /\ SegInQueue'
    <2>1. idx' \in [Workers -> Nat] /\ work_cursor' \in Nat
      BY <1>14 DEF DecRemaining, Complete, Advance
    <2>2. CASE DecRemaining(w)
      BY <2>1, <2>2 DEF DecRemaining
    <2>3. CASE Complete(w)
      BY <2>1, <2>3 DEF Complete
    <2> QED BY <1>14, <2>2, <2>3
  <1>15. ASSUME NEW w \in Workers, ItemsExhausted(w) PROVE PoolTypes' /\ SegInQueue'
    BY <1>15 DEF ItemsExhausted
  <1>16. CASE Aside
    <2>1. 0 \in Slots
      BY DEF Slots
    <2>3. ASSUME NEW w \in Workers, Moves(w)
          PROVE  /\ wpc' \in [Workers -> AllPC]
                 /\ my_batch_id' \in [Workers -> 0 .. CounterCap]
                 /\ num_items' \in [Workers -> 0 .. QueueSize]
                 /\ num_active' \in [Workers -> 0 .. NumWorkers]
                 /\ q_base' \in [Workers -> Slots]
                 /\ idx' \in [Workers -> Nat]
                 /\ dynamic' \in [Workers -> BOOLEAN]
                 /\ held_va_space' \in [Workers -> VaSpaces \cup {NoSpace}]
      <3>1. wpc' \in [Workers -> AllPC]
        BY <2>3 DEF Moves
      <3>2. dynamic' \in [Workers -> BOOLEAN]
        BY <2>3 DEF Moves
      <3>3. held_va_space' \in [Workers -> VaSpaces \cup {NoSpace}] /\ idx' \in [Workers -> Nat]
        BY <2>3 DEF Moves
      <3>4. /\ my_batch_id' \in [Workers -> 0 .. CounterCap]
            /\ num_items' \in [Workers -> 0 .. QueueSize]
        BY <2>3 DEF Moves
      <3>5. num_active' \in [Workers -> 0 .. NumWorkers] /\ q_base' \in [Workers -> Slots]
        BY <2>1, <2>3 DEF Moves
      <3> QED BY <3>1, <3>2, <3>3, <3>4, <3>5
    <2> QED BY <1>16, <2>3 DEF Aside
  <1> QED
    BY <1>1, <1>2, <1>3, <1>5, <1>6, <1>7, <1>8, <1>9, <1>10, <1>11, <1>12, <1>13,
       <1>14, <1>15, <1>16
       DEF PoolAct, PoolWorker, Destroy

\* A step of KthreadPool is one of the two kinds ...
LEMMA NextSplits ==
    ASSUME TypeOK, [Next]_vars
    PROVE  PoolAct \/ Aside
  <1>1. CASE WakeWorkers
    BY <1>1 DEF WakeWorkers, Aside, TypeOK
  <1>2. ASSUME NEW w \in Workers, LeaveWait(w) \/ ReleaseLock(w) PROVE Aside
    <2>1. Moves(w)
      BY <1>2 DEF LeaveWait, ReleaseLock, Moves, Owning, Looping, AllPC, WorkerPC
    <2> QED BY <1>2, <2>1 DEF LeaveWait, ReleaseLock, Aside, TypeOK
  <1>3. CASE UNCHANGED vars
    BY <1>3 DEF Aside, TypeOK
  <1>4. ASSUME NEW base \in Slots, NEW n \in 1 .. QueueSize, NEW dyn \in DynamicChoices,
               PrepareDispatch(base, n, dyn)
        PROVE  PoolAct
    <2>1. dyn \in BOOLEAN
      BY PoolAssumption
    <2> QED BY <1>4, <2>1 DEF PoolAct
  <1>5. ASSUME NEW w \in Workers, Worker(w) PROVE PoolAct \/ Aside
    BY <1>2, <1>5 DEF Worker, PoolAct, PoolWorker
  <1> QED BY <1>1, <1>3, <1>4, <1>5
          DEF Next, Coordinator, DispatchStart, DispatchWait, PoolAct

\* ... and keeps the workers at the control points of uvm_kthread_worker_fn.
LEMMA ControlStep ==
    ASSUME wpc \in [Workers -> WorkerPC], [Next]_vars
    PROVE  wpc' \in [Workers -> WorkerPC]
  <1>1. UNCHANGED wpc => wpc' \in [Workers -> WorkerPC]
    OBVIOUS
  <1>2. ASSUME NEW w \in Workers, NEW pc \in WorkerPC, wpc' = [wpc EXCEPT ![w] = pc]
        PROVE  wpc' \in [Workers -> WorkerPC]
    BY <1>2
  <1>3. ASSUME NEW w \in Workers, Worker(w) PROVE \E pc \in WorkerPC : wpc' = [wpc EXCEPT ![w] = pc]
    BY <1>3 DEF Worker, WorkerPC, EnterWait, TestCondition, WakeUp, LeaveWait, ClaimId, ReadGroups,
         ReadActive, ReadBase, Gate, NextItem, ItemsExhausted, ServiceItem, DecRemaining, Complete,
         ReleaseLock
  <1>4. CASE Coordinator
    BY <1>4 DEF Coordinator, DispatchStart, DispatchWait, Destroy, PrepareDispatch, SetActive, SetGroups,
         ResetCounter, SetRemaining, ReinitCompletion, SetReady, WakeWorkers, CompletionSeen, ClearReady,
         CollectItems, WaitTimedOut, BeginDestroy, KthreadStop, FreePool, CoordStep
  <1> QED BY <1>1, <1>2, <1>3, <1>4 DEF Next

\* TypeOK is PoolTypes with the control points of uvm_kthread_worker_fn.
LEMMA TypeSplits == TypeOK <=> PoolTypes /\ wpc \in [Workers -> WorkerPC]
  <1>1. wpc \in [Workers -> WorkerPC] => wpc \in [Workers -> AllPC]
    BY DEF AllPC
  <1> QED BY <1>1, Zenon DEF TypeOK, PoolTypes

\* Every step of the coordinator and of a worker keeps the types.
LEMMA TypeStep == TypeOK /\ SegInQueue /\ [Next]_vars => TypeOK' /\ SegInQueue'
  <1> SUFFICES ASSUME TypeOK, SegInQueue, [Next]_vars PROVE TypeOK' /\ SegInQueue'
    OBVIOUS
  <1>1. PoolTypes /\ wpc \in [Workers -> WorkerPC]
    BY TypeSplits
  <1>2. PoolTypes' /\ SegInQueue' /\ wpc' \in [Workers -> WorkerPC]
    BY <1>1, NextSplits, PoolTypesStep, ControlStep
  <1> QED BY <1>2, Zenon DEF TypeOK, PoolTypes

\* The fields of the pool and the locals of uvm_kthread_worker_fn keep their types and
\* ranges, also when dispatches overlap.
THEOREM TypeCorrect == Spec => []TypeOK
  <1>1. Init => TypeOK /\ SegInQueue
    BY TypeInit, PoolAssumption DEF Init, SegInQueue
  <1> QED BY <1>1, TypeStep, PTL DEF Spec
-----------------------------------------------------------------------------
(* What holds of the code as it stands, overlapping dispatches included. *)

\* A worker takes a va_space lock only inside the item loop.
LockFree == Outside \cup {"awake", "claim", "read_groups", "read_active", "read_base", "gate"}
LockInv == \A w \in Workers : wpc[w] \in LockFree => held_va_space[w] = NoSpace

\* No step takes a lock outside the item loop.
LEMMA LockStep == TypeOK /\ LockInv /\ [Next]_vars => LockInv'
  <1> SUFFICES ASSUME TypeOK, LockInv, [Next]_vars PROVE LockInv'
    OBVIOUS
  <1> USE DEF TypeOK, LockInv, LockFree, Outside
  <1>1. ASSUME UNCHANGED workerVars
        PROVE  LockInv'
    BY <1>1
  <1>2. ASSUME NEW base \in Slots, NEW n \in 1 .. QueueSize, NEW dyn \in DynamicChoices,
               PrepareDispatch(base, n, dyn)
        PROVE  LockInv'
    BY <1>1, <1>2 DEF PrepareDispatch
  <1>3. CASE DispatchStart
    BY <1>1, <1>3 DEF DispatchStart, SetActive, SetGroups, ResetCounter, SetRemaining, ReinitCompletion,
         SetReady, WakeWorkers, CoordStep
  <1>4. CASE DispatchWait \/ WaitTimedOut \/ BeginDestroy
    BY <1>1, <1>4 DEF DispatchWait, CompletionSeen, ClearReady, CollectItems, WaitTimedOut, BeginDestroy,
         CoordStep
  <1>5. CASE Destroy
    BY <1>1, <1>5 DEF Destroy, KthreadStop, FreePool
  <1>6. ASSUME NEW w \in Workers, Worker(w)
        PROVE  LockInv'
    <2>1. \A v \in Workers : v # w => wpc'[v] = wpc[v] /\ held_va_space'[v] = held_va_space[v]
      BY <1>6 DEF Worker, EnterWait, TestCondition, WakeUp, LeaveWait, ClaimId, ReadGroups, ReadActive,
           ReadBase, Gate, NextItem, ItemsExhausted, ServiceItem, DecRemaining, Complete, Advance, ReleaseLock
    <2>2. wpc'[w] \in LockFree => held_va_space'[w] = NoSpace
      BY <1>6 DEF Worker, EnterWait, TestCondition, WakeUp, LeaveWait, ClaimId, ReadGroups, ReadActive,
           ReadBase, Gate, NextItem, ItemsExhausted, ServiceItem, DecRemaining, Complete, Advance, ReleaseLock
    <2> QED BY <2>1, <2>2
  <1>7. CASE UNCHANGED vars
    BY <1>1, <1>7
  <1> QED BY <1>2, <1>3, <1>4, <1>5, <1>6, <1>7 DEF Next, Coordinator

\* No worker waits for a batch, or exits, holding a va_space read lock.
THEOREM LocksDropped == Spec => []NoLockAcrossWait
  <1>1. Init => TypeOK /\ SegInQueue /\ LockInv
    BY TypeInit, PoolAssumption DEF Init, SegInQueue, LockInv
  <1>2. TypeOK /\ SegInQueue /\ LockInv /\ [Next]_vars
          => TypeOK' /\ SegInQueue' /\ LockInv'
    BY TypeStep, LockStep
  <1>3. LockInv => NoLockAcrossWait
    BY DEF LockInv, LockFree, NoLockAcrossWait
  <1> QED BY <1>1, <1>2, <1>3, PTL DEF Spec
=============================================================================
