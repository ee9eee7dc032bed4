------------------------- MODULE KthreadPoolProofs -------------------------
(***************************************************************************)
(* The strided dispatch services every item exactly once and completes only *)
(* when all of them are done, for any number of workers and items, provided *)
(* no worker is past its wait when a dispatch begins (SpacedSpec).          *)
(*                                                                         *)
(* The inductive invariant Core has three layers, each inductive relative   *)
(* to the ones before it:                                                   *)
(*   Basic    the parameters a worker copied are those of the dispatch, and *)
(*            the ids below NumWorkers are handed out once;                 *)
(*   Fresh    the part of a worker's stride that lies ahead of it, and the  *)
(*            strides nobody claimed yet, are not serviced;                 *)
(*   Counted  items_remaining counts the items that are not serviced or not *)
(*            accounted for yet, and whoever saw it reach 0 was right.      *)
(* Core relies on one thing only: while the coordinator sets a segment up,  *)
(* no worker has an id or takes one (SetupInv).  How that comes about is    *)
(* proved of the sleeping workers here, of the spinning ones in             *)
(* SpinPoolProofs.                                                          *)
(*                                                                         *)
(* The last part shows that the pool implements BatchService.               *)
(***************************************************************************)
EXTENDS KthreadPoolTypes

USE DEF vars, poolVars, stopVars, coordVars, localVars, workerVars, sharedVars

\* Multiples of n are n apart.
LEMMA ProductGap ==
    ASSUME NEW x \in Int, NEW y \in Int, NEW n \in Nat, x < y
    PROVE  n * x + n <= n * y
  <1> DEFINE d == y - x - 1
  <1>1. d \in Nat /\ y = x + 1 + d
    OBVIOUS
  <1>2. n * d >= 0
    <2> HIDE DEF d
    <2> QED BY <1>1
  <1>3. n * y = n * x + n + n * d
    <2> HIDE DEF d
    <2> QED BY <1>1
  <1> HIDE DEF d
  <1> QED BY <1>1, <1>2, <1>3

\* Facts about %, the stride arithmetic of the worker loop
LEMMA ModRange ==
    ASSUME NEW i \in Nat, NEW n \in Nat \ {0}
    PROVE  i % n \in 0 .. n - 1
  OBVIOUS

\* A number below the modulus is its own remainder.
LEMMA ModSmall ==
    ASSUME NEW k \in Nat, NEW n \in Nat, k < n
    PROVE  k % n = k
  OBVIOUS

\* idx += num_active stays on the stride.
LEMMA ModStep ==
    ASSUME NEW i \in Nat, NEW n \in Nat \ {0}
    PROVE  (i + n) % n = i % n
  <1> DEFINE q == i \div n
             p == (i + n) \div n
             r == i % n
             t == (i + n) % n
  <1>1. q \in Int /\ p \in Int /\ r \in 0 .. n - 1 /\ t \in 0 .. n - 1
    OBVIOUS
  <1>2. i = n * q + r
    OBVIOUS
  <1>3. i + n = n * p + t
    OBVIOUS
  <1> HIDE DEF q, p, r, t
  <1>4. n * q + n + r = n * p + t
    BY <1>1, <1>2, <1>3
  <1>5. n * (q + 1) = n * q + n
    BY <1>1
  <1>6. ~(q + 1 < p)
    <2> SUFFICES ASSUME q + 1 < p PROVE FALSE
      OBVIOUS
    <2>1. n * (q + 1) + n <= n * p
      BY <1>1, ProductGap
    <2> QED BY <1>1, <1>4, <1>5, <2>1
  <1>7. ~(p < q + 1)
    <2> SUFFICES ASSUME p < q + 1 PROVE FALSE
      OBVIOUS
    <2>1. n * p + n <= n * (q + 1)
      BY <1>1, ProductGap
    <2> QED BY <1>1, <1>4, <1>5, <2>1
  <1>8. p = q + 1
    BY <1>1, <1>6, <1>7
  <1> QED BY <1>1, <1>4, <1>5, <1>8 DEF r, t
-----------------------------------------------------------------------------
\* No dispatch is dynamic.
StridedOnly == dynamic_active = FALSE /\ \A w \in Workers : dynamic[w] = FALSE

\* While a segment is set up no worker has an id or is about to take one, and no item
\* of it is serviced.
SetupInv ==
    cpc \in Setup =>
        /\ \A w \in Workers : wpc[w] \notin {"claim"} \cup Owning
        /\ \A s \in Slots : serviced[s] = 0

\* The published parameters are those of the dispatch.
ParamInv ==
    /\ cpc # "set_active" => batch_num_active = NumActive(seg_num_items)
    /\ cpc \notin {"set_active", "set_groups"} => batch_num_groups = seg_num_items

\* The parameters a worker has read are those of the dispatch.
CopyInv ==
    \A w \in Workers :
        /\ wpc[w] \in {"read_active", "read_base", "gate"} \cup Looping =>
              num_items[w] = seg_num_items
        /\ wpc[w] \in {"read_base", "gate"} \cup Looping =>
              num_active[w] = batch_num_active
        /\ wpc[w] \in {"gate"} \cup Looping => q_base[w] = queue_base

\* Ids that may own a stride are below the counter and not shared.
IdInv ==
    /\ \A w \in Workers : wpc[w] \in Owning /\ my_batch_id[w] < NumWorkers =>
          my_batch_id[w] < batch_worker_counter
    /\ \A v, w \in Workers :
          v # w /\ wpc[v] \in Owning /\ wpc[w] \in Owning
          /\ my_batch_id[v] = my_batch_id[w] => my_batch_id[w] >= NumWorkers

\* A worker in the loop is on the stride its id owns.
LoopInv ==
    \A w \in Workers :
        /\ wpc[w] \in Looping => /\ my_batch_id[w] < batch_num_active
                                 /\ idx[w] % batch_num_active = my_batch_id[w]
        /\ wpc[w] \in {"service", "dec", "complete"} => idx[w] < seg_num_items

\* The first index of its stride that worker w has not serviced
Low(w) == IF wpc[w] \in {"next_item", "service"} THEN idx[w]
          ELSE IF wpc[w] \in {"dec", "complete"} THEN idx[w] + 1
          ELSE 0

\* Strides whose id is not taken yet are untouched.
UnclaimedFresh ==
    cpc \notin Setup =>
        \A i \in 0 .. seg_num_items - 1 :
            i % batch_num_active >= batch_worker_counter => serviced[queue_base + i] = 0

\* The rest of a worker's stride is untouched.
StrideFresh ==
    \A w \in Workers : wpc[w] \in Owning =>
        \A i \in 0 .. seg_num_items - 1 :
            i % batch_num_active = my_batch_id[w] /\ i >= Low(w) =>
                serviced[queue_base + i] = 0

\* A worker about to decrement has serviced its item once.
DecServiced ==
    \A w \in Workers : wpc[w] \in {"dec", "complete"} => serviced[Slot(w)] = 1

\* Items that are not serviced, or serviced and not yet taken off items_remaining
Outstanding ==
    {s \in DispatchSlots : serviced[s] = 0
                           \/ \E w \in Workers : wpc[w] = "dec" /\ Slot(w) = s}

\* Control points before items_remaining is set
Uncounted == {"set_active", "set_groups", "reset_counter", "set_remaining"}

\* items_remaining counts the outstanding items.
CountInv ==
    cpc \notin Uncounted =>
        items_remaining = Cardinality(Outstanding)

\* Whoever acts on the completion acts on items_remaining = 0.
DoneInv ==
    /\ all_done /\ cpc \notin Setup \ {"set_ready"} => items_remaining = 0
    /\ cpc \in {"clear_ready", "collect"} => items_remaining = 0
    /\ \A w \in Workers : wpc[w] = "complete" => items_remaining = 0

\* An NV_OK result belongs to a finished batch without failed items.
OkInv ==
    cpc = "idle" /\ result = "NV_OK" =>
        items_remaining = 0 /\ \A s \in DispatchSlots : item_status[s] = "NV_OK"

Basic == PoolTypes /\ SegInQueue /\ StridedOnly /\ SetupInv /\ ParamInv /\ CopyInv /\ IdInv /\ LoopInv

\* A step of a strided dispatch that leaves the set-up alone
CoreNext == (PoolAct \/ Aside) /\ SetupInv' /\ dynamic_active' = FALSE

\* A worker that has an id is left alone by a step aside, and none gets one.
LEMMA AsideFacts ==
    ASSUME PoolTypes, Aside, NEW w \in Workers, wpc[w] \in Owning \/ wpc'[w] \in Owning
    PROVE  /\ wpc'[w] = wpc[w] /\ my_batch_id'[w] = my_batch_id[w]
           /\ num_items'[w] = num_items[w] /\ num_active'[w] = num_active[w]
           /\ q_base'[w] = q_base[w] /\ idx'[w] = idx[w]
  <1>1. CASE UNCHANGED workerVars
    BY <1>1
  <1>2. ASSUME NEW v \in Workers, Moves(v)
        PROVE  /\ wpc'[w] = wpc[w] /\ my_batch_id'[w] = my_batch_id[w]
               /\ num_items'[w] = num_items[w] /\ num_active'[w] = num_active[w]
               /\ q_base'[w] = q_base[w] /\ idx'[w] = idx[w]
    <2>1. w # v
      BY <1>2 DEF Moves, PoolTypes
    <2>2. wpc'[w] = wpc[w]
      BY <1>2, <2>1 DEF Moves, PoolTypes
    <2> QED BY <1>2, <2>1, <2>2 DEF Moves, PoolTypes
  <1> QED BY <1>1, <1>2 DEF Aside

\* The first layer is inductive.
LEMMA BasicStep ==
    Basic /\ CoreNext => Basic'
  <1> SUFFICES ASSUME Basic, CoreNext PROVE Basic'
    OBVIOUS
  <1> USE DEF Basic
  <1>T. PoolTypes' /\ SegInQueue'
    BY PoolTypesStep DEF CoreNext
  <1> SUFFICES StridedOnly' /\ ParamInv' /\ CopyInv' /\ IdInv' /\ LoopInv'
    BY <1>T DEF CoreNext
  <1> DEFINE Goal == StridedOnly' /\ ParamInv' /\ CopyInv' /\ IdInv' /\ LoopInv'
  <1> USE PoolAssumption, NumWorkersNat
      DEF PoolTypes, SegInQueue, CoordPC, StridedOnly, SetupInv, ParamInv, CopyInv, IdInv, LoopInv, Setup, Looping,
          Owning
  <1>D. dynamic_active' = FALSE /\ SetupInv'
    BY DEF CoreNext
  <1>1. ASSUME NEW base \in Slots, NEW n \in 1 .. QueueSize, NEW dyn \in BOOLEAN,
               PrepareDispatch(base, n, dyn)
        PROVE Goal
    BY <1>1, <1>D DEF PrepareDispatch
  <1>2. CASE SetActive
    BY <1>2, NumActiveType DEF SetActive, CoordStep
  <1>3. CASE SetGroups \/ ResetCounter \/ SetRemaining
    BY <1>3 DEF SetGroups, ResetCounter, SetRemaining, CoordStep
  <1>4. CASE ReinitCompletion \/ SetReady
    BY <1>4 DEF ReinitCompletion, SetReady, CoordStep
  <1>5. CASE CompletionSeen \/ ClearReady \/ WaitTimedOut
    BY <1>5 DEF CompletionSeen, ClearReady, WaitTimedOut, CoordStep, Result
  <1>6. ASSUME NEW unmerged \in SUBSET DispatchSlots, CollectItems(unmerged)
        PROVE Goal
    BY <1>6 DEF CollectItems
  <1>7. CASE BeginDestroy \/ FreePool
    BY <1>7 DEF BeginDestroy, FreePool
  <1>8. ASSUME NEW w \in Workers, KthreadStop(w) PROVE Goal
    BY <1>8 DEF KthreadStop
  <1>9. ASSUME NEW w \in Workers, EnterWait(w) \/ TestCondition(w) \/ WakeUp(w)
        PROVE Goal
    BY <1>9 DEF EnterWait, TestCondition, WakeUp
  <1>10. ASSUME NEW w \in Workers, ClaimId(w)
        PROVE Goal
    BY <1>10 DEF ClaimId, Bump
  <1>10a. ASSUME NEW w \in Workers, ReadGroups(w) \/ ReadActive(w) \/ ReadBase(w)
        PROVE Goal
    BY <1>10a DEF ReadGroups, ReadActive, ReadBase
  <1>11. ASSUME NEW w \in Workers, Gate(w) PROVE Goal
    <2>1. CASE my_batch_id[w] >= num_active[w] \/ num_items[w] = 0
      BY <1>11, <2>1 DEF Gate
    <2>2. CASE my_batch_id[w] < num_active[w]
      <3>1. my_batch_id[w] % num_active[w] = my_batch_id[w]
        BY <2>2, ModSmall
      <3>2. StridedOnly'
        BY <1>11 DEF Gate
      <3> QED BY <1>11, <2>2, <3>1, <3>2 DEF Gate
    <2>3. my_batch_id[w] >= num_active[w] \/ my_batch_id[w] < num_active[w]
      OBVIOUS
    <2> HIDE DEF Goal
    <2> QED BY <2>1, <2>2, <2>3, Zenon
  <1>12. ASSUME NEW w \in Workers, NEW space \in VaSpaces \cup {NoSpace}, NextItem(w, space)
         PROVE Goal
    BY <1>12 DEF NextItem
  <1>13. ASSUME NEW w \in Workers, NEW s \in ServiceStatus, ServiceItem(w, s)
         PROVE Goal
    BY <1>13 DEF ServiceItem
  <1>14. ASSUME NEW w \in Workers, DecRemaining(w) \/ Complete(w) PROVE Goal
    <2>1. (idx[w] + num_active[w]) % num_active[w] = idx[w] % num_active[w]
      <3>1. wpc[w] \in Looping
        BY <1>14 DEF DecRemaining, Complete
      <3>2. idx[w] \in Nat /\ num_active[w] \in Nat \ {0}
        BY <3>1
      <3> QED BY <3>2, ModStep
    <2>2. CASE DecRemaining(w)
      BY <2>1, <2>2 DEF DecRemaining, Advance
    <2>3. CASE Complete(w)
      BY <2>1, <2>3 DEF Complete, Advance
    <2> QED BY <1>14, <2>2, <2>3
  <1>15. ASSUME NEW w \in Workers, ItemsExhausted(w) PROVE Goal
    BY <1>15 DEF ItemsExhausted
  <1>16. CASE Aside
    <2>1. \A w \in Workers : dynamic'[w] = FALSE
      <3>1. ASSUME NEW v \in Workers, Moves(v) PROVE \A w \in Workers : dynamic'[w] = FALSE
        BY <3>1 DEF Moves
      <3> QED BY <1>16, <3>1 DEF Aside
    <2>2. ParamInv'
      BY <1>16 DEF Aside
    <2>3. CopyInv' /\ LoopInv'
      BY <1>16, AsideFacts DEF Aside
    <2>4. IdInv'
      BY <1>16, AsideFacts DEF Aside
    <2> QED BY <1>D, <2>1, <2>2, <2>3, <2>4
  <1> HIDE DEF PoolTypes, SegInQueue, CoordPC, StridedOnly, SetupInv, ParamInv, CopyInv, IdInv, LoopInv,
           Setup, Looping, Owning
  <1>17. PoolAct \/ Aside
    BY DEF CoreNext
  <1> QED
    BY <1>1, <1>2, <1>3, <1>4, <1>5, <1>6, <1>7, <1>8, <1>9, <1>10, <1>10a, <1>11, <1>12, <1>13,
       <1>14, <1>15, <1>16, <1>17
       DEF PoolAct, PoolWorker, Destroy

Fresh == UnclaimedFresh /\ StrideFresh /\ DecServiced /\ ServicedOnce

\* The worker w services the item it is at.
Services(w) ==
    /\ wpc[w] \in {"next_item", "service"}
    /\ idx[w] < num_items[w]
    /\ wpc' = [wpc EXCEPT ![w] = "dec"]
    /\ serviced' = [serviced EXCEPT ![Slot(w)] = @ + 1]
    /\ UNCHANGED <<poolVars, cpc, seg_num_items, localVars>>

\* The dispatched slots are slots of the queue, at queue_base + index.
LEMMA SegmentSlots ==
    ASSUME queue_base \in Slots, seg_num_items \in 0 .. QueueSize, SegInQueue
    PROVE  /\ DispatchSlots \subseteq Slots
           /\ \A i \in 0 .. seg_num_items - 1 : queue_base + i \in DispatchSlots
           /\ \A s \in DispatchSlots : s - queue_base \in 0 .. seg_num_items - 1
  BY PoolAssumption DEF DispatchSlots, Slots, SegInQueue

\* The item a worker services is a fresh one of the dispatch, and no other worker
\* owns it.
LEMMA ServicesFacts ==
    ASSUME Basic, Fresh, NEW w \in Workers, Services(w)
    PROVE  /\ idx[w] \in 0 .. seg_num_items - 1
           /\ Slot(w) = queue_base + idx[w]
           /\ Slot(w) \in DispatchSlots
           /\ DispatchSlots \subseteq Slots
           /\ serviced[Slot(w)] = 0
           /\ my_batch_id[w] < batch_worker_counter
           /\ \A v \in Workers : v # w /\ wpc[v] \in Owning => my_batch_id[v] # my_batch_id[w]
           /\ \A v \in Workers : v # w /\ wpc[v] \in {"dec", "complete"} => Slot(v) # Slot(w)
           /\ cpc \notin Setup
  <1> USE PoolAssumption, NumWorkersNat DEF Services, Basic, PoolTypes
  <1>1. idx[w] \in 0 .. seg_num_items - 1 /\ Slot(w) = queue_base + idx[w]
    BY DEF CopyInv, Looping, Slot
  <1>2. DispatchSlots \subseteq Slots /\ Slot(w) \in DispatchSlots
    BY <1>1, SegmentSlots
  <1>3. idx[w] % batch_num_active = my_batch_id[w] /\ my_batch_id[w] < batch_num_active
    BY DEF LoopInv, Looping
  <1>4. serviced[Slot(w)] = 0
    BY <1>1, <1>3 DEF Fresh, StrideFresh, Owning, Looping, Low
  <1>5. my_batch_id[w] < batch_worker_counter
    BY <1>3 DEF IdInv, Owning, Looping
  <1>6. \A v \in Workers : v # w /\ wpc[v] \in Owning => my_batch_id[v] # my_batch_id[w]
    BY <1>3 DEF IdInv, Owning, Looping
  <1>7. \A v \in Workers : v # w /\ wpc[v] \in {"dec", "complete"} => Slot(v) # Slot(w)
    BY <1>4 DEF Fresh, DecServiced
  <1>8. cpc \notin Setup
    BY DEF SetupInv, Owning, Looping
  <1> QED BY <1>1, <1>2, <1>4, <1>5, <1>6, <1>7, <1>8

\* Servicing an item keeps the second layer.
LEMMA ServicesFresh ==
    ASSUME Basic, Fresh, NEW w \in Workers, Services(w)
    PROVE  Fresh'
  <1>0.
        /\ idx[w] \in 0 .. seg_num_items - 1
        /\ Slot(w) = queue_base + idx[w]
        /\ Slot(w) \in DispatchSlots
        /\ DispatchSlots \subseteq Slots
        /\ serviced[Slot(w)] = 0
        /\ my_batch_id[w] < batch_worker_counter
        /\ \A v \in Workers : v # w /\ wpc[v] \in Owning => my_batch_id[v] # my_batch_id[w]
        /\ \A v \in Workers : v # w /\ wpc[v] \in {"dec", "complete"} => Slot(v) # Slot(w)
        /\ cpc \notin Setup
    BY ServicesFacts
  <1>a. serviced \in [Slots -> Nat] /\ queue_base \in Int /\ seg_num_items \in Int
    BY DEF Basic, PoolTypes, Slots
  <1> USE PoolAssumption, NumWorkersNat, <1>0 DEF PoolTypes
  <1>1. \A i \in 0 .. seg_num_items - 1 :
           i # idx[w] => serviced'[queue_base + i] = serviced[queue_base + i]
    <2> SUFFICES ASSUME NEW i \in 0 .. seg_num_items - 1, i # idx[w]
                 PROVE  serviced'[queue_base + i] = serviced[queue_base + i]
      OBVIOUS
    <2>1. queue_base + i # Slot(w)
      BY <1>a
    <2>2. serviced' = [serviced EXCEPT ![Slot(w)] = @ + 1]
      BY DEF Services
    <2> QED BY <1>a, <2>1, <2>2
  <1>2. serviced'[Slot(w)] = 1
    BY <1>a DEF Services
  <1>3. UnclaimedFresh'
    <2> SUFFICES ASSUME NEW i \in 0 .. seg_num_items - 1,
                        i % batch_num_active >= batch_worker_counter
                 PROVE  serviced'[queue_base + i] = 0
      BY DEF UnclaimedFresh, Services
    <2>1. i # idx[w]
      BY DEF Basic, LoopInv, Looping, Services
    <2> QED BY <1>1, <2>1 DEF Fresh, UnclaimedFresh
  <1>4. StrideFresh'
    <2> SUFFICES ASSUME NEW v \in Workers, wpc'[v] \in Owning, NEW i \in 0 .. seg_num_items - 1,
                        i % batch_num_active = my_batch_id[v], i >= Low(v)'
                 PROVE  serviced'[queue_base + i] = 0
      BY DEF StrideFresh, Services
    <2>1. CASE v = w
      <3>1. Low(w)' = idx[w] + 1 /\ Low(w) = idx[w]
        BY DEF Low, Services, Basic
      <3> QED BY <1>1, <2>1, <3>1 DEF Fresh, StrideFresh, Services, Owning, Looping, Basic
    <2>2. CASE v # w
      <3>1. wpc[v] = wpc'[v] /\ Low(v)' = Low(v)
        BY <2>2 DEF Low, Services, Basic
      <3>2. i # idx[w]
        BY <2>2, <3>1 DEF Basic, LoopInv, Services, Looping
      <3> QED BY <1>1, <3>1, <3>2 DEF Fresh, StrideFresh
    <2> QED BY <2>1, <2>2
  <1>5. DecServiced'
    <2> SUFFICES ASSUME NEW v \in Workers, wpc'[v] \in {"dec", "complete"}
                 PROVE  serviced'[Slot(v)'] = 1
      BY DEF DecServiced
    <2>1. Slot(v)' = Slot(v)
      BY DEF Slot, Services
    <2>2. CASE v = w
      BY <1>2, <2>1, <2>2
    <2>3. CASE v # w
      <3>1. wpc[v] = wpc'[v]
        BY <2>3 DEF Services, Basic
      <3>2. serviced'[Slot(v)] = serviced[Slot(v)]
        BY <1>a, <2>3, <3>1 DEF Services
      <3> QED BY <2>1, <3>1, <3>2 DEF Fresh, DecServiced
    <2> QED BY <2>2, <2>3
  <1>6. ServicedOnce'
    BY <1>2 DEF Fresh, ServicedOnce, Services, Basic
  <1> QED BY <1>3, <1>4, <1>5, <1>6 DEF Fresh

\* A step that services nothing and in which no worker takes an id or moves back
\* keeps Fresh.
LEMMA FreshFrame ==
    ASSUME Basic, Basic', Fresh,
           UNCHANGED <<serviced, seg_num_items, queue_base, batch_num_active, batch_worker_counter>>,
           cpc' \notin Setup => cpc \notin Setup,
           \A w \in Workers : wpc'[w] \in Owning =>
               wpc[w] \in Owning /\ my_batch_id'[w] = my_batch_id[w] /\ Low(w)' >= Low(w),
           \A w \in Workers : wpc'[w] \in {"dec", "complete"} =>
               wpc[w] \in {"dec", "complete"} /\ Slot(w)' = Slot(w)
    PROVE  Fresh'
  <1>1. UnclaimedFresh'
    BY DEF Fresh, UnclaimedFresh
  <1>2. StrideFresh'
    <2>1. \A w \in Workers : Low(w) \in Nat /\ Low(w)' \in Nat
      BY DEF Low, Basic, PoolTypes
    <2> QED BY <2>1 DEF Fresh, StrideFresh
  <1>3. DecServiced'
    BY DEF Fresh, DecServiced
  <1>4. ServicedOnce'
    BY DEF Fresh, ServicedOnce
  <1> QED BY <1>1, <1>2, <1>3, <1>4 DEF Fresh

\* The second layer is inductive relative to the first.
LEMMA FreshStep ==
    Basic /\ Fresh /\ CoreNext => Fresh'
  <1> SUFFICES ASSUME Basic, Fresh, CoreNext PROVE Fresh'
    OBVIOUS
  <1>B. Basic'
    BY BasicStep
  <1>T. PoolTypes /\ PoolTypes'
    BY <1>B DEF Basic
  <1> DEFINE Still == \A w \in Workers :
                 /\ wpc'[w] = wpc[w] /\ my_batch_id'[w] = my_batch_id[w]
                 /\ Low(w)' = Low(w) /\ Slot(w)' = Slot(w)
  <1>S. UNCHANGED <<wpc, localVars>> => Still
    BY DEF Low, Slot
  <1>L. \A w \in Workers : Low(w) \in Nat
    BY <1>T DEF Low, PoolTypes
  <1>1. CASE cpc' \in Setup
    BY <1>1, <1>B DEF Basic, SetupInv, Fresh, UnclaimedFresh, StrideFresh, DecServiced, ServicedOnce,
         Owning, Looping
  <1>2. CASE cpc \in Setup /\ cpc' \notin Setup
    <2>1. SetReady \/ Aside
      BY <1>2 DEF CoreNext, PoolAct, PoolWorker, Setup, PrepareDispatch, SetActive, SetGroups,
           ResetCounter, SetRemaining, ReinitCompletion, CompletionSeen, ClearReady, WaitTimedOut,
           CollectItems, BeginDestroy, Destroy, KthreadStop, FreePool, CoordStep,
           EnterWait, TestCondition, WakeUp, ClaimId, ReadGroups, ReadActive, ReadBase, Gate,
           ItemsExhausted, NextItem, ServiceItem, DecRemaining, Complete
    <2>2. /\ \A w \in Workers : wpc[w] \notin Owning
          /\ \A s \in Slots : serviced[s] = 0
      BY <1>2 DEF Basic, SetupInv
    <2>3. \A w \in Workers : wpc'[w] \notin Owning
      BY <1>T, <2>1, <2>2, AsideFacts DEF SetReady, CoordStep
    <2>4. serviced' = serviced
      BY <2>1 DEF SetReady, CoordStep, Aside
    <2>5. \A i \in 0 .. seg_num_items' - 1 : queue_base' + i \in Slots
      BY <1>B, SegmentSlots, <2>1 DEF Basic, PoolTypes, SetReady, CoordStep, Aside
    <2> QED BY <2>2, <2>3, <2>4, <2>5, <1>T
            DEF Fresh, UnclaimedFresh, StrideFresh, DecServiced, ServicedOnce, Owning, Looping
  <1>3. CASE CompletionSeen \/ ClearReady \/ WaitTimedOut \/ BeginDestroy \/ FreePool
    BY <1>3, <1>B, <1>S, <1>L, FreshFrame
       DEF CompletionSeen, ClearReady, WaitTimedOut, BeginDestroy, FreePool, CoordStep, Setup
  <1>4. ASSUME NEW unmerged \in SUBSET DispatchSlots, CollectItems(unmerged) PROVE Fresh'
    BY <1>4, <1>B, <1>S, <1>L, FreshFrame DEF CollectItems, Setup
  <1>5. ASSUME NEW w \in Workers, KthreadStop(w) PROVE Fresh'
    BY <1>5, <1>B, <1>S, <1>L, FreshFrame DEF KthreadStop
  <1>6. ASSUME NEW w \in Workers, EnterWait(w) \/ TestCondition(w) \/ WakeUp(w)
        PROVE Fresh'
    BY <1>6, <1>B, <1>T, <1>L, FreshFrame
       DEF EnterWait, TestCondition, WakeUp, PoolTypes, Low, Slot, Owning, Looping
  <1>7. ASSUME NEW w \in Workers, ClaimId(w) PROVE Fresh'
    <2>1. /\ batch_worker_counter \in Nat /\ batch_worker_counter' >= batch_worker_counter
          /\ batch_worker_counter' \in Nat
      BY <1>7, <1>T DEF ClaimId, Bump, PoolTypes
    <2>2. cpc \notin Setup
      BY <1>7 DEF ClaimId, Basic, SetupInv
    <2>3. \A i \in 0 .. seg_num_items - 1 : batch_num_active \in Nat \ {0}
      <3>1. seg_num_items \in Nat /\ batch_num_active = NumActive(seg_num_items)
        BY <2>2, <1>T DEF Basic, ParamInv, Setup, PoolTypes
      <3> QED BY <3>1, PoolAssumption, NumWorkersNat DEF NumActive, Min2
    <2>4. UnclaimedFresh'
      <3> SUFFICES ASSUME NEW i \in 0 .. seg_num_items - 1,
                          i % batch_num_active >= batch_worker_counter'
                   PROVE  serviced[queue_base + i] = 0
        BY <1>7 DEF UnclaimedFresh, ClaimId
      <3>1. i \in Nat /\ batch_num_active \in Nat \ {0}
        BY <2>3
      <3>2. i % batch_num_active \in Int
        BY <3>1, ModRange
      <3> QED BY <2>1, <2>2, <3>2 DEF Fresh, UnclaimedFresh
    <2>5. StrideFresh'
      <3> SUFFICES ASSUME NEW v \in Workers, wpc'[v] \in Owning,
                          NEW i \in 0 .. seg_num_items - 1,
                          i % batch_num_active = my_batch_id'[v], i >= Low(v)'
                   PROVE  serviced[queue_base + i] = 0
        BY <1>7 DEF StrideFresh, ClaimId
      <3>1. CASE v = w
        <4>1. i % batch_num_active = batch_worker_counter
          BY <1>7, <1>T, <3>1 DEF ClaimId, PoolTypes
        <4> QED BY <2>1, <2>2, <4>1 DEF Fresh, UnclaimedFresh
      <3>2. CASE v # w
        <4>1. wpc'[v] = wpc[v] /\ my_batch_id'[v] = my_batch_id[v] /\ Low(v)' = Low(v)
          BY <1>7, <1>T, <3>2 DEF ClaimId, PoolTypes, Low
        <4> QED BY <4>1 DEF Fresh, StrideFresh
      <3> QED BY <3>1, <3>2
    <2>6. DecServiced' /\ ServicedOnce'
      BY <1>7, <1>T DEF ClaimId, PoolTypes, Fresh, DecServiced, ServicedOnce, Slot
    <2> QED BY <2>4, <2>5, <2>6 DEF Fresh
  <1>8. ASSUME NEW w \in Workers, ReadGroups(w) \/ ReadActive(w) \/ ReadBase(w) PROVE Fresh'
    BY <1>8, <1>B, <1>T, <1>L, FreshFrame
       DEF ReadGroups, ReadActive, ReadBase, PoolTypes, Low, Slot, Owning, Looping
  <1>9. ASSUME NEW w \in Workers, Gate(w) PROVE Fresh'
    BY <1>9, <1>B, <1>T, <1>L, FreshFrame
       DEF Gate, PoolTypes, Low, Slot, Owning, Looping
  <1>10. ASSUME NEW w \in Workers, NEW space \in VaSpaces \cup {NoSpace}, NextItem(w, space)
         PROVE Fresh'
    <2>1. CASE space = NoSpace
      <3>1. Services(w)
        BY <1>10, <2>1 DEF NextItem, Services
      <3> QED BY <3>1, ServicesFresh
    <2>2. CASE space # NoSpace
      BY <1>10, <2>2, <1>B, <1>T, <1>L, FreshFrame DEF NextItem, PoolTypes, Low, Slot, Owning, Looping
    <2> QED BY <2>1, <2>2
  <1>11. ASSUME NEW w \in Workers, NEW s \in ServiceStatus, ServiceItem(w, s)
         PROVE Fresh'
    <2>1. Services(w)
      BY <1>11, <1>T DEF ServiceItem, Services, Basic, LoopInv, CopyInv, Looping, PoolTypes
    <2> QED BY <2>1, ServicesFresh
  <1>12. ASSUME NEW w \in Workers, DecRemaining(w) \/ Complete(w) PROVE Fresh'
    <2>1. wpc[w] \in {"dec", "complete"}
      BY <1>12 DEF DecRemaining, Complete
    <2>2. num_active[w] \in Nat \ {0} /\ ~dynamic[w] /\ idx[w] \in Nat
      BY <1>T, <2>1, NumWorkersNat DEF Basic, CopyInv, LoopInv, StridedOnly, Looping, PoolTypes
    <2>3. \A v \in Workers : v # w => wpc'[v] = wpc[v] /\ idx'[v] = idx[v]
      BY <1>12, <1>T DEF DecRemaining, Complete, Advance, PoolTypes
    <2>4. /\ wpc'[w] \in {"complete", "next_item"}
          /\ wpc'[w] = "complete" => idx'[w] = idx[w]
          /\ wpc'[w] = "next_item" => idx'[w] = idx[w] + num_active[w]
      BY <1>12, <1>T, <2>2 DEF DecRemaining, Complete, Advance, PoolTypes
    <2>5. \A v \in Workers : Low(v)' >= Low(v)
      BY <1>L, <2>1, <2>2, <2>3, <2>4 DEF Low
    <2>6. /\ my_batch_id' = my_batch_id /\ q_base' = q_base /\ cpc' = cpc
          /\ UNCHANGED <<serviced, seg_num_items, queue_base, batch_num_active, batch_worker_counter>>
      BY <1>12 DEF DecRemaining, Complete, Advance
    <2>7. \A v \in Workers : wpc'[v] \in Owning => wpc[v] \in Owning
      BY <2>1, <2>3 DEF Owning, Looping
    <2>8. \A v \in Workers : wpc'[v] \in {"dec", "complete"} =>
             wpc[v] \in {"dec", "complete"} /\ Slot(v)' = Slot(v)
      BY <2>1, <2>3, <2>4, <2>6 DEF Slot
    <2> QED BY <1>B, <2>5, <2>6, <2>7, <2>8, FreshFrame
  <1>13. ASSUME NEW w \in Workers, ItemsExhausted(w) PROVE Fresh'
    BY <1>13, <1>B, <1>T, <1>L, FreshFrame
       DEF ItemsExhausted, PoolTypes, Low, Slot, Owning, Looping
  <1>14. CASE Aside /\ (cpc' \notin Setup => cpc \notin Setup)
    <2>1. \A w \in Workers : wpc'[w] \in Owning =>
             wpc[w] \in Owning /\ my_batch_id'[w] = my_batch_id[w] /\ Low(w)' >= Low(w)
      BY <1>14, <1>T, <1>L, AsideFacts DEF Low
    <2>2. \A w \in Workers : wpc'[w] \in {"dec", "complete"} =>
             wpc[w] \in {"dec", "complete"} /\ Slot(w)' = Slot(w)
      BY <1>14, <1>T, AsideFacts DEF Slot, Owning, Looping
    <2> QED BY <1>14, <1>B, <2>1, <2>2, FreshFrame DEF Aside
  <1>15. ASSUME NEW base \in Slots, NEW n \in 1 .. QueueSize, NEW dyn \in BOOLEAN,
                PrepareDispatch(base, n, dyn)
         PROVE Fresh'
    BY <1>15, <1>1 DEF PrepareDispatch, Setup
  <1>16. CASE SetActive \/ SetGroups \/ ResetCounter \/ SetRemaining \/ ReinitCompletion
    BY <1>16, <1>1 DEF SetActive, SetGroups, ResetCounter, SetRemaining, ReinitCompletion, CoordStep, Setup
  <1>17. CASE SetReady
    BY <1>2, <1>17 DEF SetReady, CoordStep, Setup
  <1>18. CASE Aside
    BY <1>2, <1>14, <1>18
  <1> QED
    BY <1>3, <1>4, <1>5, <1>6, <1>7, <1>8, <1>9, <1>10, <1>11, <1>12, <1>13,
       <1>15, <1>16, <1>17, <1>18
       DEF CoreNext, PoolAct, PoolWorker, Destroy

Counted == CountInv /\ DoneInv /\ OkInv

\* The outstanding items can be counted.
LEMMA OutstandingFinite ==
    ASSUME Basic
    PROVE  IsFiniteSet(Outstanding)
  <1>1. IsFiniteSet(DispatchSlots)
    BY FS_Interval DEF DispatchSlots, Basic, PoolTypes, Slots
  <1> QED BY <1>1, FS_Subset DEF Outstanding

\* When items_remaining is 0 every item is serviced and no worker is at one.
LEMMA NothingLeft ==
    ASSUME Basic, Fresh, CountInv, cpc \notin Uncounted, items_remaining = 0
    PROVE  /\ Outstanding = {}
           /\ \A s \in DispatchSlots : serviced[s] = 1
           /\ \A w \in Workers : wpc[w] \notin {"service", "dec"}
           /\ \A w \in Workers : wpc[w] = "next_item" => idx[w] >= num_items[w]
  <1>1. Outstanding = {}
    BY OutstandingFinite, FS_EmptySet DEF CountInv
  <1>2. DispatchSlots \subseteq Slots /\ \A i \in 0 .. seg_num_items - 1 : queue_base + i \in DispatchSlots
    BY SegmentSlots DEF Basic, PoolTypes
  <1>3. \A s \in DispatchSlots : serviced[s] = 1
    BY <1>1, <1>2 DEF Outstanding, Fresh, ServicedOnce, Basic, PoolTypes
  <1>4. ASSUME NEW w \in Workers, wpc[w] \in Looping, idx[w] < num_items[w]
        PROVE  wpc[w] \notin {"next_item", "service", "dec"}
    <2>1. Slot(w) = queue_base + idx[w] /\ idx[w] \in 0 .. seg_num_items - 1
      BY <1>4 DEF Basic, PoolTypes, CopyInv, Slot
    <2>2. Slot(w) \in DispatchSlots
      BY <1>2, <2>1
    <2>3. wpc[w] # "dec"
      BY <1>1, <2>2 DEF Outstanding
    <2>4. idx[w] % batch_num_active = my_batch_id[w]
      BY <1>4 DEF Basic, LoopInv
    <2>5. wpc[w] \in {"next_item", "service"} => serviced[Slot(w)] = 0
      BY <2>1, <2>4 DEF Fresh, StrideFresh, Low, Owning, Looping
    <2> QED BY <1>3, <2>2, <2>3, <2>5
  <1>5. \A w \in Workers : wpc[w] \in {"service", "dec"} => idx[w] < num_items[w]
    BY DEF Basic, LoopInv, CopyInv, Looping
  <1>6. \A w \in Workers : idx[w] \in Nat /\ num_items[w] \in Nat
    BY DEF Basic, PoolTypes
  <1> QED BY <1>1, <1>3, <1>4, <1>5, <1>6 DEF Looping

\* Outstanding depends on the services and on who is about to decrement.
LEMMA OutstandingFrame ==
    ASSUME UNCHANGED <<queue_base, seg_num_items, serviced>>,
           \A w \in Workers : (wpc'[w] = "dec" <=> wpc[w] = "dec"),
           \A w \in Workers : wpc[w] = "dec" => Slot(w)' = Slot(w)
    PROVE  Outstanding' = Outstanding
  BY DEF Outstanding, DispatchSlots

\* A serviced item stays outstanding until its worker decrements ...
LEMMA ServicesOutstanding ==
    ASSUME Basic, Fresh, NEW w \in Workers, Services(w)
    PROVE  Outstanding' = Outstanding
  <1>1. Slot(w) \in DispatchSlots /\ DispatchSlots \subseteq Slots /\ serviced[Slot(w)] = 0
    BY ServicesFacts
  <1>2. serviced \in [Slots -> Nat] /\ wpc \in [Workers -> AllPC]
    BY DEF Basic, PoolTypes
  <1>3. DispatchSlots' = DispatchSlots /\ \A v \in Workers : Slot(v)' = Slot(v)
    BY DEF Services, DispatchSlots, Slot
  <1>4. \A s \in DispatchSlots : s # Slot(w) => serviced'[s] = serviced[s]
    BY <1>1, <1>2 DEF Services
  <1>5. \A v \in Workers : v # w => wpc'[v] = wpc[v]
    BY <1>2 DEF Services
  <1>6. wpc'[w] = "dec" /\ wpc[w] # "dec"
    BY <1>2 DEF Services
  <1> QED BY <1>1, <1>3, <1>4, <1>5, <1>6 DEF Outstanding

\* ... and the decrement takes exactly that item off.
LEMMA DecOutstanding ==
    ASSUME Basic, Fresh, NEW w \in Workers, DecRemaining(w)
    PROVE  /\ Slot(w) \in Outstanding
           /\ Outstanding' = Outstanding \ {Slot(w)}
  <1>1. wpc[w] = "dec" /\ wpc'[w] # "dec"
    BY DEF DecRemaining, Basic, PoolTypes
  <1>2. Slot(w) \in DispatchSlots
    BY <1>1, SegmentSlots DEF Basic, PoolTypes, LoopInv, CopyInv, Slot, Looping
  <1>3. serviced[Slot(w)] = 1
    BY <1>1 DEF Fresh, DecServiced
  <1>4. DispatchSlots' = DispatchSlots /\ serviced' = serviced
    BY DEF DecRemaining, DispatchSlots
  <1>5. \A v \in Workers : v # w => wpc'[v] = wpc[v] /\ Slot(v)' = Slot(v)
    BY DEF DecRemaining, Advance, Slot, Basic, PoolTypes
  <1>6. \A v \in Workers : v # w /\ wpc[v] = "dec" => Slot(v) # Slot(w)
    <2> SUFFICES ASSUME NEW v \in Workers, v # w, wpc[v] = "dec", Slot(v) = Slot(w)
                 PROVE  FALSE
      OBVIOUS
    <2>1. idx[v] = idx[w]
      BY <1>1 DEF Slot, Basic, CopyInv, Looping, PoolTypes, Slots
    <2>2. my_batch_id[v] = my_batch_id[w] /\ my_batch_id[w] < NumWorkers
      BY <1>1, <2>1, NumWorkersNat DEF Basic, LoopInv, Looping, PoolTypes
    <2> QED BY <1>1, <2>2, NumWorkersNat DEF Basic, IdInv, Owning, Looping, PoolTypes
  <1> QED BY <1>1, <1>2, <1>3, <1>4, <1>5, <1>6 DEF Outstanding

\* A step that leaves the items, their count and the completion alone keeps Counted.
LEMMA CountedFrame ==
    ASSUME Counted, UNCHANGED <<items_remaining, all_done, queue_base, seg_num_items>>,
           Outstanding' = Outstanding,
           cpc' \notin Uncounted, cpc \notin Uncounted, cpc' = "set_ready" => cpc = "set_ready",
           cpc' \notin Setup => cpc \notin Setup \ {"set_ready"},
           cpc' \in {"clear_ready", "collect"} => items_remaining = 0,
           cpc' = "idle" => cpc = "idle" /\ UNCHANGED <<result>>
                            /\ (items_remaining = 0 => UNCHANGED item_status),
           \A w \in Workers : wpc'[w] = "complete" => wpc[w] = "complete"
    PROVE  Counted'
  BY DEF Counted, CountInv, DoneInv, OkInv, Uncounted, Setup, DispatchSlots

\* The third layer is inductive relative to the first two.
LEMMA CountedStep ==
    Basic /\ Fresh /\ Counted /\ CoreNext => Counted'
  <1> SUFFICES ASSUME Basic, Fresh, Counted, CoreNext PROVE Counted'
    OBVIOUS
  <1>B. Basic'
    BY BasicStep
  <1>T. PoolTypes /\ PoolTypes'
    BY <1>B DEF Basic
  <1>N. cpc \notin Uncounted /\ items_remaining = 0 =>
           /\ \A w \in Workers : wpc[w] \notin {"service", "dec"}
           /\ \A w \in Workers : wpc[w] = "next_item" => idx[w] >= num_items[w]
    BY NothingLeft DEF Counted
  <1>P. \A w \in Workers : wpc[w] \in Looping => cpc \notin Setup
    BY DEF Basic, SetupInv, Owning
  <1>F. UNCHANGED <<wpc, localVars, queue_base, seg_num_items, serviced>> => Outstanding' = Outstanding
    BY DEF Outstanding, DispatchSlots, Slot
  <1>1. CASE cpc' \in Uncounted
    BY <1>1, <1>B DEF Basic, SetupInv, Counted, CountInv, DoneInv, OkInv, Uncounted, Setup,
         Owning, Looping
  <1>2. ASSUME NEW base \in Slots, NEW n \in 1 .. QueueSize, NEW dyn \in BOOLEAN,
                PrepareDispatch(base, n, dyn)
         PROVE Counted'
    BY <1>2, <1>1 DEF PrepareDispatch, Uncounted
  <1>3. CASE SetActive \/ SetGroups \/ ResetCounter
    BY <1>3, <1>1 DEF SetActive, SetGroups, ResetCounter, CoordStep, Uncounted
  <1>4. CASE SetRemaining
    <2>1. cpc' = "reinit" /\ cpc \in Setup /\ items_remaining' = seg_num_items
      BY <1>4 DEF SetRemaining, CoordStep, Setup
    <2>2. /\ \A w \in Workers : wpc'[w] \notin Owning
          /\ \A s \in Slots : serviced'[s] = 0
      BY <1>B, <2>1 DEF Basic, SetupInv, Setup
    <2>3. DispatchSlots' = DispatchSlots /\ DispatchSlots \subseteq Slots
      BY <1>4, <1>T, SegmentSlots DEF SetRemaining, CoordStep, DispatchSlots, Basic, PoolTypes
    <2>4. Outstanding' = DispatchSlots
      BY <2>2, <2>3 DEF Outstanding, Owning, Looping
    <2>5. Cardinality(DispatchSlots) = seg_num_items
      <3>1. queue_base \in Int /\ seg_num_items \in Nat
        BY <1>T DEF PoolTypes, Slots
      <3>2. /\ queue_base + seg_num_items - 1 \in Int
            /\ queue_base > queue_base + seg_num_items - 1 <=> seg_num_items = 0
            /\ queue_base + seg_num_items - 1 - queue_base + 1 = seg_num_items
        BY <3>1
      <3> QED BY <3>1, <3>2, FS_Interval DEF DispatchSlots
    <2>6. CountInv'
      BY <2>1, <2>4, <2>5 DEF CountInv
    <2> QED BY <2>1, <2>2, <2>6 DEF Counted, DoneInv, OkInv, Setup, Owning, Looping
  <1>5. CASE ReinitCompletion \/ SetReady
    <2>1. Outstanding' = Outstanding /\ items_remaining' = items_remaining /\ wpc' = wpc
      BY <1>5, <1>F DEF ReinitCompletion, SetReady, CoordStep
    <2>2. cpc \in {"reinit", "set_ready"} /\ cpc' \in {"set_ready", "wake"}
          /\ (all_done' => all_done /\ cpc = "set_ready")
      BY <1>5 DEF ReinitCompletion, SetReady, CoordStep
    <2> QED BY <2>1, <2>2 DEF Counted, CountInv, DoneInv, OkInv, Setup, Uncounted
  <1>6. CASE BeginDestroy \/ FreePool
    BY <1>6, <1>F, CountedFrame DEF BeginDestroy, FreePool, Uncounted, Setup
  <1>7. CASE CompletionSeen
    <2>1. items_remaining = 0
      BY <1>7 DEF CompletionSeen, CoordStep, Counted, DoneInv, Setup
    <2> QED BY <1>7, <1>F, <2>1
         DEF CompletionSeen, CoordStep, Counted, CountInv, DoneInv, OkInv, Setup, Uncounted
  <1>8. CASE ClearReady
    <2>1. items_remaining = 0
      BY <1>8 DEF ClearReady, CoordStep, Counted, DoneInv
    <2> QED BY <1>8, <1>F, <2>1, CountedFrame DEF ClearReady, CoordStep, Setup, Uncounted
  <1>9. CASE WaitTimedOut
    BY <1>9, <1>F DEF WaitTimedOut, Counted, CountInv, DoneInv, OkInv, Setup, Uncounted
  <1>10. ASSUME NEW unmerged \in SUBSET DispatchSlots, CollectItems(unmerged) PROVE Counted'
    <2>1. items_remaining = 0
      BY <1>10 DEF CollectItems, Counted, DoneInv
    <2>2. result' = "NV_OK" => \A s \in DispatchSlots : item_status[s] = "NV_OK"
      BY <1>10 DEF CollectItems, CombinedStatus
    <2>3. OkInv'
      BY <1>10, <2>1, <2>2 DEF CollectItems, OkInv, DispatchSlots
    <2> QED BY <1>10, <1>F, <2>1, <2>3 DEF CollectItems, Counted, CountInv, DoneInv, Setup, Uncounted
  <1>11. ASSUME NEW w \in Workers, KthreadStop(w) PROVE Counted'
    BY <1>11, <1>F, CountedFrame DEF KthreadStop, Uncounted, Setup, Counted, DoneInv
  <1>12. ASSUME NEW w \in Workers, EnterWait(w) \/ TestCondition(w) \/ WakeUp(w) \/ ItemsExhausted(w)
         PROVE Counted'
    <2>1. /\ UNCHANGED <<sharedVars, item_status>>
          /\ \A v \in Workers : wpc'[v] = "dec" <=> wpc[v] = "dec"
          /\ \A v \in Workers : wpc'[v] = "complete" => wpc[v] = "complete"
          /\ \A v \in Workers : wpc[v] = "dec" => Slot(v)' = Slot(v)
      BY <1>12, <1>T DEF EnterWait, TestCondition, WakeUp, ItemsExhausted,
           Slot, PoolTypes
    <2>2. Outstanding' = Outstanding
      BY <2>1, OutstandingFrame
    <2> QED BY <2>1, <2>2 DEF Counted, CountInv, DoneInv, OkInv, DispatchSlots
  <1>13. ASSUME NEW w \in Workers, ClaimId(w) \/ ReadGroups(w) \/ ReadActive(w) \/ ReadBase(w) \/ Gate(w)
         PROVE Counted'
    <2>1. /\ UNCHANGED <<items_remaining, all_done, queue_base, coordVars, serviced, item_status>>
          /\ \A v \in Workers : wpc'[v] = "dec" <=> wpc[v] = "dec"
          /\ \A v \in Workers : wpc'[v] = "complete" => wpc[v] = "complete"
          /\ \A v \in Workers : wpc[v] = "dec" => Slot(v)' = Slot(v)
      BY <1>13, <1>T DEF ClaimId, ReadGroups, ReadActive, ReadBase, Gate, Slot, PoolTypes
    <2>2. Outstanding' = Outstanding
      BY <2>1, OutstandingFrame
    <2> QED BY <2>1, <2>2 DEF Counted, CountInv, DoneInv, OkInv, DispatchSlots
  <1>14. ASSUME NEW w \in Workers, NEW space \in VaSpaces \cup {NoSpace}, NextItem(w, space)
         PROVE Counted'
    <2>1. cpc \notin Setup
      BY <1>14, <1>P DEF NextItem, Looping
    <2>2. idx[w] < num_items[w] /\ idx[w] \in Nat /\ num_items[w] \in Nat
      BY <1>14, <1>T DEF NextItem, PoolTypes
    <2>3. items_remaining # 0
      BY <1>14, <1>N, <2>1, <2>2 DEF NextItem, Setup, Uncounted
    <2>4. Outstanding' = Outstanding
      <3>1. CASE space = NoSpace
        <4>1. Services(w)
          BY <1>14, <3>1 DEF NextItem, Services
        <4> QED BY <4>1, ServicesOutstanding
      <3>2. CASE space # NoSpace
        BY <1>14, <1>T, <3>2, OutstandingFrame DEF NextItem, Slot, PoolTypes
      <3> QED BY <3>1, <3>2
    <2> QED
      BY <1>14, <1>T, <2>1, <2>3, <2>4, CountedFrame
         DEF NextItem, Setup, Uncounted, Counted, DoneInv, PoolTypes
  <1>15. ASSUME NEW w \in Workers, NEW s \in ServiceStatus, ServiceItem(w, s) PROVE Counted'
    <2>1. cpc \notin Setup
      BY <1>15, <1>P DEF ServiceItem, Looping
    <2>2. items_remaining # 0
      BY <1>15, <1>N, <2>1 DEF ServiceItem, Setup, Uncounted
    <2>3. Services(w)
      BY <1>15, <1>T DEF ServiceItem, Services, Basic, LoopInv, CopyInv, Looping, PoolTypes
    <2>4. Outstanding' = Outstanding
      BY <2>3, ServicesOutstanding
    <2> QED
      BY <1>15, <1>T, <2>1, <2>2, <2>4, CountedFrame
         DEF ServiceItem, Setup, Uncounted, Counted, DoneInv, PoolTypes
  <1>16. ASSUME NEW w \in Workers, DecRemaining(w) PROVE Counted'
    <2>1. cpc \notin Setup
      BY <1>16, <1>P DEF DecRemaining, Looping
    <2>2. items_remaining # 0
      BY <1>16, <1>N, <2>1 DEF DecRemaining, Setup, Uncounted
    <2>3. Cardinality(Outstanding') = Cardinality(Outstanding) - 1
      BY <1>16, DecOutstanding, OutstandingFinite, FS_RemoveElement
    <2>4. CountInv'
      BY <1>16, <2>1, <2>3 DEF DecRemaining, Counted, CountInv, Setup, Uncounted
    <2>5. DoneInv'
      BY <1>16, <1>T, <2>1, <2>2 DEF DecRemaining, Counted, DoneInv, Setup, PoolTypes
    <2>6. OkInv'
      BY <1>16, <2>2 DEF DecRemaining, Counted, OkInv
    <2> QED BY <2>4, <2>5, <2>6 DEF Counted
  <1>17. ASSUME NEW w \in Workers, Complete(w) PROVE Counted'
    <2>1. items_remaining = 0
      BY <1>17 DEF Complete, Counted, DoneInv
    <2>2. Outstanding' = Outstanding
      BY <1>17, <1>T, OutstandingFrame DEF Complete, Advance, Slot, PoolTypes
    <2> QED BY <1>17, <1>T, <2>1, <2>2 DEF Complete, Counted, CountInv, DoneInv, OkInv, PoolTypes, DispatchSlots
  <1>18. CASE Aside
    <2>1. \A w \in Workers : /\ wpc'[w] = "dec" <=> wpc[w] = "dec"
                             /\ wpc'[w] = "complete" => wpc[w] = "complete"
                             /\ wpc[w] = "dec" => Slot(w)' = Slot(w)
      BY <1>18, <1>T, AsideFacts DEF Slot, Owning, Looping
    <2>2. Outstanding' = Outstanding
      BY <1>18, <2>1, OutstandingFrame DEF Aside
    <2>3. CountInv' /\ OkInv'
      BY <1>18, <2>2 DEF Aside, Counted, CountInv, OkInv, Uncounted, DispatchSlots
    <2>4. DoneInv'
      BY <1>18, <2>1 DEF Aside, Counted, DoneInv, Setup
    <2> QED BY <2>3, <2>4 DEF Counted
  <1> QED
    BY <1>2, <1>3, <1>4, <1>5, <1>6, <1>7, <1>8, <1>9, <1>10, <1>11, <1>12, <1>13,
       <1>14, <1>15, <1>16, <1>17, <1>18
       DEF CoreNext, PoolAct, PoolWorker, Destroy

\* The three layers
Core == Basic /\ Fresh /\ Counted

\* They hold in the state uvm_kthread_pool_create leaves behind ...
LEMMA CoreInit == Init => Core
  <1> SUFFICES ASSUME Init PROVE Core
    OBVIOUS
  <1>1. PoolTypes /\ SegInQueue
    BY TypeInit, TypeSplits, PoolAssumption DEF Init, SegInQueue
  <1>2. DispatchSlots = {}
    BY DEF Init, DispatchSlots
  <1>3. StridedOnly /\ SetupInv /\ CopyInv /\ IdInv /\ LoopInv
    BY DEF Init, StridedOnly, SetupInv, CopyInv, IdInv, LoopInv, Setup, Owning, Looping
  <1>4. ParamInv
    BY PoolAssumption, NumWorkersNat DEF Init, ParamInv, NumActive, Min2
  <1>5. Fresh
    BY DEF Init, Fresh, UnclaimedFresh, StrideFresh, DecServiced, ServicedOnce, Owning, Looping
  <1>6. Counted
    <2>1. Outstanding = {}
      BY <1>2 DEF Outstanding
    <2>2. Cardinality(Outstanding) = 0
      BY <2>1, FS_EmptySet
    <2> QED BY <2>2 DEF Init, Counted, CountInv, DoneInv, OkInv
  <1> QED BY <1>1, <1>3, <1>4, <1>5, <1>6 DEF Core, Basic

\* ... and every step keeps them.
LEMMA CoreStep == Core /\ CoreNext => Core'
  BY BasicStep, FreshStep, CountedStep DEF Core

\* They imply the properties the runs check.
LEMMA CoreImplies ==
    Core => ServicedOnce /\ CompletionMeansDone /\ OkMeansAllServiced /\ WritesOwnSegment
  <1> SUFFICES ASSUME Core
               PROVE  ServicedOnce /\ CompletionMeansDone /\ OkMeansAllServiced /\ WritesOwnSegment
    OBVIOUS
  <1>1. ServicedOnce
    BY DEF Core, Fresh
  <1>2. CompletionMeansDone
    BY NothingLeft DEF Core, Counted, DoneInv, CompletionMeansDone, Uncounted
  <1>3. OkMeansAllServiced
    BY NothingLeft DEF Core, Counted, OkInv, OkMeansAllServiced, Uncounted
  <1>4. WritesOwnSegment
    BY SegmentSlots DEF Core, Basic, PoolTypes, LoopInv, CopyInv, Looping, Slot, WritesOwnSegment
  <1> QED BY <1>1, <1>2, <1>3, <1>4
-----------------------------------------------------------------------------
(* The sleeping workers of KthreadPool. *)

\* What the coordinator's position says: batch_ready is up only between SetReady and
\* ClearReady, nobody is asked to stop before destroy, and a dispatch is set up while
\* every worker is in its wait.
CoordInv ==
    /\ batch_ready => cpc \in {"wake", "wait", "clear_ready"}
    /\ cpc \notin {"stopping", "freed"} => ~shutting_down /\ should_stop = {}
    /\ cpc \in Setup => Quiescent /\ \A s \in Slots : serviced[s] = 0

\* CoordInv is inductive when dispatches are spaced out.
LEMMA CoordInvStep == TypeOK /\ CoordInv /\ [SpacedNext]_vars => CoordInv'
  <1> SUFFICES ASSUME TypeOK, CoordInv, [SpacedNext]_vars PROVE CoordInv'
    OBVIOUS
  <1> USE DEF TypeOK, CoordInv, Quiescent, Outside, Setup
  <1>1. ASSUME NEW base \in Slots, NEW n \in 1 .. QueueSize, NEW dyn \in DynamicChoices,
               PrepareDispatch(base, n, dyn), Spaced
        PROVE CoordInv'
    BY <1>1 DEF PrepareDispatch, Spaced
  <1>2. CASE DispatchStart
    BY <1>2 DEF DispatchStart, SetActive, SetGroups, ResetCounter, SetRemaining, ReinitCompletion,
         SetReady, WakeWorkers, CoordStep
  <1>3. CASE DispatchWait \/ WaitTimedOut
    BY <1>3 DEF DispatchWait, CompletionSeen, ClearReady, CollectItems, WaitTimedOut, CoordStep
  <1>4. CASE BeginDestroy \/ Destroy
    BY <1>4 DEF BeginDestroy, Destroy, KthreadStop, FreePool
  <1>5. ASSUME NEW w \in Workers, EnterWait(w) \/ TestCondition(w) \/ WakeUp(w) \/ LeaveWait(w)
        PROVE CoordInv'
    BY <1>5 DEF EnterWait, TestCondition, WakeUp, LeaveWait
  <1>6. ASSUME NEW w \in Workers, Worker(w), wpc[w] \notin Outside PROVE CoordInv'
    <2>1. UNCHANGED <<batch_ready, cpc, stopVars>> /\ cpc \notin Setup
      BY <1>6 DEF Worker, EnterWait, TestCondition, WakeUp, LeaveWait, ClaimId, ReadGroups, ReadActive,
           ReadBase, Gate, NextItem, ItemsExhausted, ServiceItem, DecRemaining, Complete, ReleaseLock
    <2> QED BY <2>1
  <1>7. ASSUME NEW w \in Workers, Worker(w), wpc[w] \in Outside PROVE CoordInv'
    BY <1>5, <1>7 DEF Worker, LeaveWait, ClaimId, ReadGroups, ReadActive,
         ReadBase, Gate, NextItem, ItemsExhausted, ServiceItem, DecRemaining, Complete, ReleaseLock
  <1>8. CASE UNCHANGED vars
    BY <1>8
  <1> QED BY <1>1, <1>2, <1>3, <1>4, <1>6, <1>7, <1>8 DEF SpacedNext, Next, Coordinator

\* Only a dynamic dispatch sets dynamic.active.
LEMMA StaysStrided ==
    ASSUME DynamicChoices \subseteq {FALSE}, [Next]_vars, dynamic_active = FALSE
    PROVE  dynamic_active' = FALSE
  <1>1. CASE Coordinator
    BY <1>1 DEF Coordinator, DispatchStart, DispatchWait, Destroy, PrepareDispatch, SetActive, SetGroups,
         ResetCounter, SetRemaining, ReinitCompletion, SetReady, WakeWorkers, CompletionSeen, ClearReady,
         CollectItems, WaitTimedOut, BeginDestroy, KthreadStop, FreePool, CoordStep
  <1>2. ASSUME NEW w \in Workers, Worker(w) PROVE dynamic_active' = dynamic_active
    BY <1>2 DEF Worker, EnterWait, TestCondition, WakeUp, LeaveWait, ClaimId, ReadGroups, ReadActive,
         ReadBase, Gate, NextItem, ItemsExhausted, ServiceItem, DecRemaining, Complete, ReleaseLock
  <1> QED BY <1>1, <1>2 DEF Next

\* The inductive invariant of the pool
IInv == TypeOK /\ CoordInv /\ Core

\* It holds initially ...
LEMMA IInvInit == Init => IInv
  BY TypeInit, CoreInit DEF Init, IInv, CoordInv, Setup

\* ... every step keeps it ...
LEMMA IInvStep ==
    ASSUME DynamicChoices \subseteq {FALSE}
    PROVE  IInv /\ [SpacedNext]_vars => IInv'
  <1> SUFFICES ASSUME IInv, [SpacedNext]_vars PROVE IInv'
    OBVIOUS
  <1>1. [Next]_vars
    BY DEF SpacedNext
  <1>2. TypeOK' /\ CoordInv'
    BY <1>1, TypeStep, CoordInvStep DEF IInv, Core, Basic
  <1>3. SetupInv'
    BY <1>2 DEF CoordInv, SetupInv, Quiescent, Outside, Owning, Looping
  <1>4. dynamic_active' = FALSE
    BY <1>1, StaysStrided DEF IInv, Core, Basic, StridedOnly
  <1>5. CoreNext
    BY <1>1, <1>3, <1>4, NextSplits DEF IInv, CoreNext
  <1> QED BY <1>2, <1>5, CoreStep DEF IInv

\* ... and so it always holds.
LEMMA IInvInvariant ==
    ASSUME DynamicChoices \subseteq {FALSE}
    PROVE  SpacedSpec => []IInv
  BY IInvStep, IInvInit, PTL DEF SpacedSpec

\* In strided dispatch no work item is serviced twice, whatever the number of workers
\* and items: the ids taken from batch_worker_counter split the queue.
THEOREM EveryItemOnce ==
    ASSUME DynamicChoices \subseteq {FALSE}
    PROVE  SpacedSpec => []ServicedOnce
  BY IInvInvariant, CoreImplies, PTL DEF IInv

\* When dispatch_wait_inner is past its wait, every item was serviced and no worker
\* writes an item any more.
THEOREM CompletionSound ==
    ASSUME DynamicChoices \subseteq {FALSE}
    PROVE  SpacedSpec => []CompletionMeansDone
  BY IInvInvariant, CoreImplies, PTL DEF IInv

\* uvm_kthread_dispatch_and_wait returns NV_OK only when every item was serviced once
\* and successfully.
THEOREM OkSound ==
    ASSUME DynamicChoices \subseteq {FALSE}
    PROVE  SpacedSpec => []OkMeansAllServiced
  BY IInvInvariant, CoreImplies, PTL DEF IInv

\* No worker writes a slot outside the dispatched segment, also after a timeout.
THEOREM SegmentRespected ==
    ASSUME DynamicChoices \subseteq {FALSE}
    PROVE  SpacedSpec => []WritesOwnSegment
  BY IInvInvariant, CoreImplies, PTL DEF IInv
-----------------------------------------------------------------------------
(* The strided pool implements BatchService. *)

\* Control points outside a call of uvm_kthread_dispatch_and_wait
Returned == {"idle", "stopping", "freed"}

\* Items are left after a call returned only when the call timed out.
LateInv == cpc \in Returned => items_remaining = 0 \/ result = "NV_ERR_TIMEOUT"

\* LateInv is inductive relative to IInv.
LEMMA LateStep ==
    ASSUME DynamicChoices \subseteq {FALSE}
    PROVE  IInv /\ LateInv /\ [SpacedNext]_vars => LateInv'
  <1> SUFFICES ASSUME IInv, LateInv, [SpacedNext]_vars PROVE LateInv'
    OBVIOUS
  <1> USE DEF LateInv, Returned
  <1>1. CASE Coordinator
    <2>1. ASSUME NEW unmerged \in SUBSET DispatchSlots, CollectItems(unmerged) PROVE LateInv'
      BY <2>1 DEF CollectItems, IInv, Core, Counted, DoneInv
    <2>2. CASE DispatchStart \/ CompletionSeen \/ ClearReady
      BY <2>2 DEF DispatchStart, CompletionSeen, ClearReady, CoordStep, SetActive, SetGroups, ResetCounter,
           SetRemaining, ReinitCompletion, SetReady, WakeWorkers
    <2>3. CASE WaitTimedOut \/ BeginDestroy \/ Destroy
      BY <2>3 DEF WaitTimedOut, BeginDestroy, Destroy, KthreadStop, FreePool
    <2>4. ASSUME NEW base \in Slots, NEW n \in 1 .. QueueSize, NEW dyn \in DynamicChoices,
                 PrepareDispatch(base, n, dyn) PROVE LateInv'
      BY <2>4 DEF PrepareDispatch
    <2> QED BY <1>1, <2>1, <2>2, <2>3, <2>4 DEF Coordinator, DispatchWait
  <1>2. ASSUME NEW w \in Workers, Worker(w) PROVE LateInv'
    <2>1. cpc' = cpc /\ result' = result
      BY <1>2 DEF Worker, EnterWait, TestCondition, WakeUp, LeaveWait, ClaimId, ReadGroups, ReadActive,
           ReadBase, Gate, NextItem, ItemsExhausted, ServiceItem, DecRemaining, Complete, Advance, ReleaseLock
    <2>2. CASE DecRemaining(w)
      <3>1. wpc[w] = "dec" /\ cpc \in Returned => cpc \notin Uncounted
        BY DEF Uncounted
      <3>2. cpc \in Returned => items_remaining # 0
        BY <2>2, <3>1, NothingLeft DEF DecRemaining, IInv, Core, Counted
      <3> QED BY <2>1, <3>2
    <2>3. CASE ~DecRemaining(w)
      <3>1. items_remaining' = items_remaining
        BY <1>2, <2>3 DEF Worker, EnterWait, TestCondition, WakeUp, LeaveWait, ClaimId, ReadGroups, ReadActive,
           ReadBase, Gate, NextItem, ItemsExhausted, ServiceItem, Complete, Advance, ReleaseLock
      <3> QED BY <2>1, <3>1
    <2> QED BY <2>2, <2>3
  <1>3. CASE UNCHANGED vars
    BY <1>3
  <1> QED BY <1>1, <1>2, <1>3 DEF SpacedNext, Next

\* The initial states map to initial states.
LEMMA AbstractInit == Init => Abstract!Init
  <1> SUFFICES ASSUME Init PROVE Abstract!Init
    OBVIOUS
  <1>1. DispatchSlots = {}
    BY DEF Init, DispatchSlots
  <1> QED BY <1>1 DEF Init, Abstract!Init, phaseBar, pendingBar, failedBar

\* A step of worker w that services its item is the Service step of BatchService.
LEMMA AbstractService ==
    ASSUME IInv, LateInv, NEW w \in Workers, Services(w), UNCHANGED result,
           NEW s \in ItemStatus, item_status' = [item_status EXCEPT ![Slot(w)] = s]
    PROVE  Abstract!Next
  <1>1. /\ Slot(w) \in DispatchSlots /\ DispatchSlots \subseteq Slots
        /\ serviced[Slot(w)] = 0 /\ cpc \notin Setup
    BY ServicesFacts DEF IInv, Core
  <1>2. serviced \in [Slots -> Nat] /\ item_status \in [Slots -> ItemStatus]
    BY DEF IInv, Core, Basic, PoolTypes
  <1>3. DispatchSlots' = DispatchSlots /\ cpc' = cpc
    BY DEF Services, DispatchSlots
  <1>4. \A t \in DispatchSlots : t # Slot(w) =>
           serviced'[t] = serviced[t] /\ item_status'[t] = item_status[t]
    BY <1>1, <1>2 DEF Services
  <1>5. serviced'[Slot(w)] = 1 /\ item_status'[Slot(w)] = s
    BY <1>1, <1>2 DEF Services
  <1>6. cpc \in Returned => result = "NV_ERR_TIMEOUT"
    <2>1. items_remaining # 0
      BY <1>1, NothingLeft DEF IInv, Core, Counted, Uncounted, Setup
    <2> QED BY <2>1 DEF LateInv
  <1>7. pendingBar' = pendingBar \ {Slot(w)} /\ Slot(w) \in pendingBar
    BY <1>1, <1>3, <1>4, <1>5 DEF pendingBar
  <1>8. failedBar' = IF s = "NV_OK" THEN failedBar ELSE failedBar \cup {Slot(w)}
    BY <1>1, <1>3, <1>4, <1>5 DEF failedBar
  <1>9. Abstract!Service(Slot(w), s)
    BY <1>3, <1>6, <1>7, <1>8 DEF Abstract!Service, phaseBar, pendingBar, failedBar, Returned
  <1> QED BY <1>1, <1>9 DEF Abstract!Next

\* A step that changes no item and does not enter or leave a call is a stutter.
LEMMA AbstractStutter ==
    ASSUME UNCHANGED <<queue_base, seg_num_items, serviced, result>>,
           phaseBar' = phaseBar,
           \A t \in DispatchSlots : serviced[t] > 0 => item_status'[t] = item_status[t]
    PROVE  UNCHANGED Abstract!vars
  <1>1. DispatchSlots' = DispatchSlots
    BY DEF DispatchSlots
  <1> QED BY <1>1 DEF Abstract!vars, phaseBar, pendingBar, failedBar

\* Every step of the pool maps to a step of BatchService or to a stutter.
LEMMA AbstractStep ==
    ASSUME DynamicChoices \subseteq {FALSE}
    PROVE  IInv /\ LateInv /\ [SpacedNext]_vars => [Abstract!Next]_(Abstract!vars)
  <1> SUFFICES ASSUME IInv, LateInv, [SpacedNext]_vars
               PROVE  Abstract!Next \/ UNCHANGED Abstract!vars
    OBVIOUS
  <1>T. TypeOK /\ SegInQueue
    BY DEF IInv, Core, Basic
  <1>1. ASSUME NEW base \in Slots, NEW n \in 1 .. QueueSize, NEW dyn \in DynamicChoices,
               PrepareDispatch(base, n, dyn)
        PROVE  Abstract!Next
    <2>1. DispatchSlots' = base .. base + n - 1 /\ base + n <= QueueSize
      BY <1>1 DEF PrepareDispatch, DispatchSlots
    <2>2. DispatchSlots' \subseteq Slots /\ DispatchSlots' # {}
      <3>1. base \in 0 .. QueueSize - 1 /\ n \in 1 .. QueueSize /\ QueueSize \in Nat
        BY PoolAssumption DEF Slots
      <3>2. base .. base + n - 1 \subseteq 0 .. QueueSize - 1 /\ base \in base .. base + n - 1
        BY <2>1, <3>1
      <3> QED BY <2>1, <3>2 DEF Slots
    <2>3. pendingBar' = DispatchSlots' /\ failedBar' = {}
      BY <1>1, <2>2 DEF PrepareDispatch, pendingBar, failedBar
    <2>4. Abstract!Open(base .. base + n - 1)
      BY <1>1, <2>1, <2>2, <2>3 DEF PrepareDispatch, Abstract!Open, phaseBar, pendingBar, failedBar
    <2> QED BY <2>1, <2>2, <2>4 DEF Abstract!Next
  <1>2. CASE DispatchStart \/ CompletionSeen \/ ClearReady
    BY <1>2, AbstractStutter DEF phaseBar, DispatchStart, CompletionSeen, ClearReady, CoordStep, SetActive,
         SetGroups, ResetCounter, SetRemaining, ReinitCompletion, SetReady, WakeWorkers
  <1>3. CASE WaitTimedOut
    <2>1. DispatchSlots' = DispatchSlots
      BY <1>3 DEF WaitTimedOut, DispatchSlots
    <2>2. Abstract!GiveUp
      BY <1>3, <2>1 DEF WaitTimedOut, Abstract!GiveUp, phaseBar, pendingBar, failedBar
    <2> QED BY <2>2 DEF Abstract!Next
  <1>4. ASSUME NEW unmerged \in SUBSET DispatchSlots, CollectItems(unmerged)
        PROVE  Abstract!Next
    <2>1. DispatchSlots' = DispatchSlots
      BY <1>4 DEF CollectItems, DispatchSlots
    <2>2. \A s \in DispatchSlots : serviced[s] = 1
      BY <1>4, NothingLeft DEF CollectItems, IInv, Core, Counted, DoneInv, Uncounted
    <2>3. CombinedStatus(unmerged) = "NV_OK" => failedBar = {}
      BY DEF CombinedStatus, failedBar
    <2>4. CombinedStatus(unmerged) \in ItemStatus \cup {"NV_ERR_NO_MEMORY"}
      BY <1>T, TypeSplits, CombinedStatusType DEF SegInQueue
    <2>5. pendingBar = {}
      BY <2>2 DEF pendingBar
    <2>6. Abstract!Return(CombinedStatus(unmerged))
      BY <1>4, <2>1, <2>3, <2>5 DEF CollectItems, Abstract!Return, phaseBar, pendingBar, failedBar
    <2> QED BY <2>4, <2>6 DEF Abstract!Next
  <1>5. CASE BeginDestroy \/ Destroy
    BY <1>5, AbstractStutter DEF phaseBar, BeginDestroy, Destroy, KthreadStop, FreePool
  <1>6. ASSUME NEW w \in Workers, NEW space \in VaSpaces \cup {NoSpace}, NextItem(w, space)
        PROVE  Abstract!Next \/ UNCHANGED Abstract!vars
    <2>1. CASE space = NoSpace
      <3>1. Services(w) /\ UNCHANGED result
        BY <1>6, <2>1 DEF NextItem, Services
      <3>2. item_status' = [item_status EXCEPT ![Slot(w)] = "NV_WARN_MORE_PROCESSING_REQUIRED"]
        BY <1>6, <2>1 DEF NextItem
      <3> QED BY <3>1, <3>2, AbstractService DEF ItemStatus
    <2>2. CASE space # NoSpace
      <3>1. serviced[Slot(w)] = 0
        <4>1. wpc[w] = "next_item" /\ idx[w] < num_items[w]
          BY <1>6 DEF NextItem
        <4>2. Slot(w) = queue_base + idx[w] /\ idx[w] \in 0 .. seg_num_items - 1
          BY <4>1 DEF IInv, Core, Basic, PoolTypes, CopyInv, Looping, Slot
        <4>3. idx[w] % batch_num_active = my_batch_id[w]
          BY <4>1 DEF IInv, Core, Basic, LoopInv, Looping
        <4> QED BY <4>1, <4>2, <4>3 DEF IInv, Core, Fresh, StrideFresh, Low, Owning, Looping
      <3>2. \A t \in DispatchSlots : serviced[t] > 0 => item_status'[t] = item_status[t]
        <4>1. DispatchSlots \subseteq Slots
          BY <1>T, SegmentSlots DEF TypeOK
        <4> QED BY <1>6, <1>T, <2>2, <3>1, <4>1 DEF NextItem, TypeOK
      <3> QED BY <1>6, <2>2, <3>2, AbstractStutter DEF NextItem, phaseBar
    <2> QED BY <2>1, <2>2
  <1>7. ASSUME NEW w \in Workers, NEW s \in ServiceStatus, ServiceItem(w, s)
        PROVE  Abstract!Next
    <2>1. Services(w) /\ UNCHANGED result
      BY <1>7, <1>T DEF ServiceItem, Services, IInv, Core, Basic, LoopInv, CopyInv, Looping, TypeOK
    <2>2. s \in ItemStatus
      BY PoolAssumption
    <2> QED BY <1>7, <2>1, <2>2, AbstractService DEF ServiceItem
  <1>8. ASSUME NEW w \in Workers,
               \/ EnterWait(w) \/ TestCondition(w) \/ WakeUp(w) \/ LeaveWait(w) \/ ClaimId(w)
               \/ ReadGroups(w) \/ ReadActive(w) \/ ReadBase(w) \/ Gate(w) \/ ItemsExhausted(w)
               \/ DecRemaining(w) \/ Complete(w) \/ ReleaseLock(w)
        PROVE  UNCHANGED Abstract!vars
    <2>1. UNCHANGED <<queue_base, seg_num_items, serviced, result, cpc, item_status>>
      BY <1>8 DEF EnterWait, TestCondition, WakeUp, LeaveWait, ClaimId, ReadGroups, ReadActive,
           ReadBase, Gate, ItemsExhausted, DecRemaining, Complete, Advance, ReleaseLock
    <2> QED BY <2>1, AbstractStutter DEF phaseBar
  <1>9. CASE UNCHANGED vars
    BY <1>9, AbstractStutter DEF phaseBar
  <1> QED BY <1>1, <1>2, <1>3, <1>4, <1>5, <1>6, <1>7, <1>8, <1>9
          DEF SpacedNext, Next, Coordinator, DispatchWait, Worker

\* uvm_kthread_dispatch_and_wait, strided, implements BatchService: each item of a batch
\* is serviced at most once, a status is returned only when no item is left, NV_OK only
\* when none failed, and only a timed-out batch is serviced behind the caller's back.
THEOREM PoolImplementsBatchService ==
    ASSUME DynamicChoices \subseteq {FALSE}
    PROVE  SpacedSpec => ImplementsBatchService
  <1>1. Init => IInv /\ LateInv
    BY IInvInit DEF Init, LateInv
  <1>2. IInv /\ LateInv /\ [SpacedNext]_vars => IInv' /\ LateInv'
    BY IInvStep, LateStep
  <1> QED BY <1>1, <1>2, AbstractInit, AbstractStep, PTL DEF SpacedSpec, ImplementsBatchService, Abstract!Spec
=============================================================================
