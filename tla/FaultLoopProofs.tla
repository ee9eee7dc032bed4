-------------------------- MODULE FaultLoopProofs --------------------------
(***************************************************************************)
(* Proofs about the bottom half: its types, the fault buffer's ring, the   *)
(* replay that a stalled warp is owed, and what a cancel may kill.  They   *)
(* hold for any number of warps and pages, any ring of two or more slots,  *)
(* any fetch limit and any number of accesses and disturbances.            *)
(***************************************************************************)
EXTENDS FaultLoop, TLAPS

USE DEF vars, config, warpVars, bufVars, predVars, fetchVars, batchVars,
        loopVars, chanVars, envVars

-----------------------------------------------------------------------------
(* Types *)

\* A set valid bit belongs to an entry that was written and not consumed.
ValidWritten == \A i \in valid : buf[i] # NoEntry

\* An entry is not the mark of a consumed slot.
LEMMA EntryWritten == \A e \in Entries : e # NoEntry
  BY DEF Entries, NoEntry

\* The increment stays in the ring.
LEMMA IncType == \A i \in Slots : Inc(i) \in Slots
  BY LoopAssumption DEF Slots, Inc

\* The memo of a lookup: an entry and its answer.
LEMMA MemoType ==
    ASSUME NEW S, NEW e \in S
    PROVE  {<<e, TRUE>>} \subseteq S \X BOOLEAN /\ {<<e, FALSE>>} \subseteq S \X BOOLEAN
  <1>1. <<e, TRUE>> \in S \X BOOLEAN
    OBVIOUS
  <1>2. <<e, FALSE>> \in S \X BOOLEAN
    OBVIOUS
  <1> QED BY <1>1, <1>2, Zenon

LEMMA TypeInit == Init => TypeOK /\ ValidWritten
  <1>1. Init => FlagsOK
    BY LoopAssumption DEF Init, FlagsOK
  <1>2. Init => DataOK /\ ValidWritten
    BY LoopAssumption
       DEF Init, DataOK, ValidWritten, Slots, Entries, AllPolicies, Locations, Flushes, NoPage
  <1> QED BY <1>1, <1>2 DEF TypeOK

\* The flags are Boolean after every step.
LEMMA FlagsStep == FlagsOK /\ [Next]_vars => FlagsOK'
  <1> SUFFICES ASSUME FlagsOK, [Next]_vars PROVE FlagsOK'
    OBVIOUS
  <1> DEFINE rest == <<pred, adaptive, active, throttled, pushFailed, globalError>>
             local == <<filter, skips>>
             replays == <<replaying, replayed>>
  <1> USE DEF FlagsOK
  <1>1. ASSUME UNCHANGED <<rest, local, replays>> PROVE FlagsOK'
    BY <1>1
  <1>2. CASE UNCHANGED vars
    BY <1>1, <1>2
  <1>3. CASE GPU
    <2>1. CASE Replay
      BY <2>1, Zenon DEF Replay
    <2>2. ASSUME NEW w \in Warps, Access(w) \/ Fault(w) \/ Complete(w) \/ DestroyChannel(w)
          PROVE  UNCHANGED <<rest, local, replays>>
      BY <2>2, SMT DEF Access, Fault, Complete, DestroyChannel, Disturb
    <2>3. ASSUME NEW i \in Slots, Publish(i) PROVE UNCHANGED <<rest, local, replays>>
      BY <2>3, SMT DEF Publish
    <2>4. ASSUME NEW e, Evict(e) \/ Map(e) PROVE UNCHANGED <<rest, local, replays>>
      BY <2>4, SMT DEF Evict, Map, Disturb
    <2> QED BY <1>1, <1>3, <2>1, <2>2, <2>3, <2>4 DEF GPU
  <1>4. CASE Schedule \/ LimitReached \/ FlushPut \/ WaitReplay
    <2>1. UNCHANGED <<rest, local, replays>>
      BY <1>4, SMT DEF Schedule, LimitReached, FlushPut, WaitReplay, EndBatch
    <2> QED BY <1>1, <2>1
  <1>5. CASE PreprocessOk \/ PreprocessStale
    <2>1. UNCHANGED <<rest, local, replays>>
      BY <1>5, SMT DEF PreprocessOk, PreprocessStale
    <2> QED BY <1>1, <2>1
  <1>6. CASE ServiceDone \/ cancel_faults_all \/ ServicePrecise \/ CancelPrecise
    <2>1. UNCHANGED <<rest, local, replays>>
      BY <1>6, SMT DEF ServiceDone, cancel_faults_all, ServicePrecise, CancelPrecise
    <2> QED BY <1>1, <2>1
  <1>7. ASSUME NEW m, StartFetch(m) PROVE filter' \in BOOLEAN /\ skips' \in BOOLEAN
    BY <1>7, Zenon DEF StartFetch, prev_fetch_adaptive_should_run
  <1>8. CASE NextBatch
    BY <1>7, <1>8, Zenon DEF NextBatch
  <1>9. CASE WaitRestart
    BY <1>7, <1>9, Zenon DEF WaitRestart
  <1>10. CASE FetchSkip
    BY <1>10, Zenon DEF FetchSkip
  <1>11. CASE FetchCache
    BY <1>11, Zenon DEF FetchCache
  <1>12. CASE FetchDone
    BY <1>12, Zenon DEF FetchDone, adaptive_update
  <1>13. ASSUME NEW e \in todo, ServiceBlock(e) PROVE FlagsOK'
    BY <1>13, Zenon DEF ServiceBlock, ReplayBlock, push_replay_on_gpu
  <1>14. ASSUME NEW e \in todo, ThrottleBlock(e) PROVE FlagsOK'
    BY <1>14, Zenon DEF ThrottleBlock, ReplayBlock, push_replay_on_gpu
  <1>15. ASSUME NEW e \in todo, SkipBlock(e) PROVE FlagsOK'
    <2>1. UNCHANGED <<rest, local, replays>>
      BY <1>15, SMT DEF SkipBlock
    <2> QED BY <1>1, <2>1
  <1>16. CASE ServiceFails
    BY <1>16, Zenon DEF ServiceFails
  <1>17. CASE FlushDrop
    BY <1>17, Zenon DEF FlushDrop, FlushReturns, PushFails, push_replay_on_gpu
  <1>18. CASE ReplayPolicy
    BY <1>18, Zenon DEF ReplayPolicy, PushFails, push_replay_on_gpu
  <1>19. CASE Exit
    BY <1>19, Zenon DEF Exit, push_replay_on_gpu
  <1> HIDE DEF FlagsOK
  <1> QED BY <1>2, <1>3, <1>4, <1>5, <1>6, <1>8, <1>9, <1>10, <1>11, <1>12, <1>13, <1>14,
             <1>15, <1>16, <1>17, <1>18, <1>19
          DEF Next, BottomHalf

\* What the GPU does keeps the types.
LEMMA TypeGPU == TypeOK /\ ValidWritten /\ GPU => DataOK' /\ ValidWritten'
  <1> SUFFICES ASSUME TypeOK, ValidWritten, GPU PROVE DataOK' /\ ValidWritten'
    OBVIOUS
  <1> USE DEF TypeOK, DataOK, ValidWritten, Disturb
  <1>1. ASSUME NEW w \in Warps, Access(w) PROVE DataOK' /\ ValidWritten'
    BY <1>1 DEF Access
  <1>2. ASSUME NEW w \in Warps, Fault(w) PROVE DataOK' /\ ValidWritten'
    <2>1. <<w, want[w]>> \in Entries
      BY <1>2 DEF Fault, Entries
    <2> QED BY <1>2, <2>1, IncType, EntryWritten DEF Fault
  <1>3. ASSUME NEW w \in Warps, Complete(w) PROVE DataOK' /\ ValidWritten'
    BY <1>3 DEF Complete
  <1>4. ASSUME NEW w \in Warps, DestroyChannel(w) PROVE DataOK' /\ ValidWritten'
    BY <1>4 DEF DestroyChannel
  <1>5. ASSUME NEW i \in Slots, Publish(i) PROVE DataOK' /\ ValidWritten'
    BY <1>5 DEF Publish
  <1>6. ASSUME NEW e \in resident, Evict(e) PROVE DataOK' /\ ValidWritten'
    BY <1>6 DEF Evict
  <1>7. ASSUME NEW e \in invalid, Map(e) PROVE DataOK' /\ ValidWritten'
    BY <1>7 DEF Map
  <1>8. CASE Replay
    BY <1>8 DEF Replay
  <1> QED BY <1>1, <1>2, <1>3, <1>4, <1>5, <1>6, <1>7, <1>8 DEF GPU

\* The fetch and the preprocessing of a batch keep the types.
LEMMA TypeFetch ==
    TypeOK /\ ValidWritten /\ (FetchSkip \/ FetchCache \/ FetchDone \/ PreprocessOk \/ PreprocessStale)
        => DataOK' /\ ValidWritten'
  <1> SUFFICES ASSUME TypeOK, ValidWritten,
                      FetchSkip \/ FetchCache \/ FetchDone \/ PreprocessOk \/ PreprocessStale
               PROVE  DataOK' /\ ValidWritten'
    OBVIOUS
  <1> USE LoopAssumption DEF TypeOK, DataOK, ValidWritten
  <1>1. ASSUME EntryReady, Consume
        PROVE  /\ buf[get] \in Entries
               /\ buf' \in [Slots -> Entries \cup {NoEntry}]
               /\ valid' \subseteq Slots /\ get' \in Slots
               /\ ValidWritten'
    BY <1>1, IncType DEF EntryReady, Consume
  <1>2. CASE FetchSkip
    <2>1. buf[get] \in Entries
      BY <1>1, <1>2 DEF FetchSkip
    <2>2. {<<buf[get], TRUE>>} \subseteq Entries \X BOOLEAN
      BY <2>1, MemoType
    <2>3. memo' \subseteq Entries \X BOOLEAN
      BY <1>2, <2>2 DEF FetchSkip
    <2> QED BY <1>1, <1>2, <2>3 DEF FetchSkip
  <1>3. CASE FetchCache
    <2>1. buf[get] \in Entries /\ num' \in Nat
      BY <1>1, <1>3 DEF FetchCache
    <2>2. {<<buf[get], FALSE>>} \subseteq Entries \X BOOLEAN
      BY <2>1, MemoType
    <2>3. memo' \subseteq Entries \X BOOLEAN
      BY <1>3, <2>2 DEF FetchCache
    <2> QED BY <1>1, <1>3, <2>1, <2>3 DEF FetchCache
  <1>4. CASE FetchDone
    <2>1. cooldown' \in Nat
      BY <1>4 DEF FetchDone, adaptive_update
    <2>2. 0 \in Slots
      BY DEF Slots
    <2> QED BY <1>4, <2>1, <2>2 DEF FetchDone, Locations, Flushes
  <1>5. CASE PreprocessOk
    <2>1. {e[2] : e \in batch} \subseteq Pages
      BY DEF Entries
    <2>2. keys' \subseteq Pages
      BY <1>5, <2>1 DEF PreprocessOk, hash_exact
    <2> QED BY <1>5, <2>2 DEF PreprocessOk, Locations
  <1>6. CASE PreprocessStale
    BY <1>6 DEF PreprocessStale, Locations, Flushes
  <1> QED BY <1>2, <1>3, <1>4, <1>5, <1>6

\* The service of a batch and the cancels keep the types.
LEMMA TypeService ==
    ASSUME TypeOK, ValidWritten,
           \/ \E e \in todo : ServiceBlock(e) \/ ThrottleBlock(e) \/ SkipBlock(e)
           \/ ServiceFails \/ ServiceDone
           \/ cancel_faults_all \/ ServicePrecise \/ CancelPrecise
    PROVE  DataOK' /\ ValidWritten'
  <1> USE LoopAssumption DEF TypeOK, DataOK, ValidWritten, Disturb
  <1>1. ASSUME NEW e \in todo, ServiceBlock(e) PROVE DataOK' /\ ValidWritten'
    BY <1>1 DEF ServiceBlock, ReplayBlock, push_replay_on_gpu
  <1>2. ASSUME NEW e \in todo, ThrottleBlock(e) PROVE DataOK' /\ ValidWritten'
    BY <1>2 DEF ThrottleBlock, ReplayBlock, push_replay_on_gpu
  <1>3. ASSUME NEW e \in todo, SkipBlock(e) PROVE DataOK' /\ ValidWritten'
    BY <1>3 DEF SkipBlock, Entries
  <1>4. CASE ServiceFails
    BY <1>4 DEF ServiceFails, Locations
  <1>5. CASE ServiceDone
    BY <1>5 DEF ServiceDone, Locations, Flushes
  <1>6. CASE cancel_faults_all
    BY <1>6 DEF cancel_faults_all, CancelFaults, Locations, Flushes
  <1>7. CASE ServicePrecise
    BY <1>7 DEF ServicePrecise, Locations
  <1>8. CASE CancelPrecise
    BY <1>8 DEF CancelPrecise, CancelFaults, Locations, Flushes
  <1> QED BY <1>1, <1>2, <1>3, <1>4, <1>5, <1>6, <1>7, <1>8

\* Flushing and the loop around the batches keep the types.
LEMMA TypeLoop ==
    ASSUME TypeOK, ValidWritten,
           \/ Schedule \/ LimitReached \/ NextBatch
           \/ FlushPut \/ FlushDrop
           \/ ReplayPolicy \/ WaitReplay \/ WaitRestart \/ Exit
    PROVE  DataOK' /\ ValidWritten'
  <1> USE LoopAssumption DEF TypeOK, DataOK, ValidWritten, Disturb, Locations, Flushes
  <1>1. CASE Schedule \/ LimitReached
    BY <1>1 DEF Schedule, LimitReached
  <1>2. ASSUME NEW m \in {"ready", "all"}, StartFetch(m)
        PROVE  /\ pc' \in Locations /\ mode' \in {"ready", "all"}
               /\ get' \in Slots /\ cachedPut' \in Slots
               /\ limit' \in Nat /\ num' \in Nat /\ batch' \subseteq Entries
    BY <1>2 DEF StartFetch
  <1>3. CASE NextBatch
    BY <1>2, <1>3 DEF NextBatch
  <1>4. CASE FlushPut
    BY <1>4 DEF FlushPut
  <1>5. CASE FlushDrop
    <2>1. buf' \in [Slots -> Entries \cup {NoEntry}] /\ valid' \subseteq Slots /\ ValidWritten'
      BY <1>5 DEF FlushDrop
    <2> QED BY <1>5, <2>1 DEF FlushDrop, FlushReturns, PushFails, push_replay_on_gpu
  <1>6. CASE ReplayPolicy
    BY <1>6 DEF ReplayPolicy, EndBatch, PushFails, push_replay_on_gpu
  <1>7. CASE WaitReplay
    BY <1>7 DEF WaitReplay, EndBatch
  <1>8. CASE WaitRestart
    BY <1>2, <1>8 DEF WaitRestart
  <1>9. CASE Exit
    BY <1>9 DEF Exit, push_replay_on_gpu
  <1> QED BY <1>1, <1>3, <1>4, <1>5, <1>6, <1>7, <1>8, <1>9

LEMMA TypeStep == TypeOK /\ ValidWritten /\ [Next]_vars => TypeOK' /\ ValidWritten'
  <1> SUFFICES ASSUME TypeOK, ValidWritten, [Next]_vars PROVE TypeOK' /\ ValidWritten'
    OBVIOUS
  <1>1. CASE UNCHANGED vars
    BY <1>1 DEF TypeOK, FlagsOK, DataOK, ValidWritten
  <1>2. CASE Next
    BY <1>2, FlagsStep, TypeGPU, TypeFetch, TypeService, TypeLoop DEF Next, BottomHalf, TypeOK
  <1> QED BY <1>1, <1>2

\* Every register, cached index and local of the bottom half keeps its type;
\* GET and PUT never leave the ring.
THEOREM Types == Spec => []TypeOK
  BY TypeInit, TypeStep, PTL DEF Spec

-----------------------------------------------------------------------------
(* The ring *)

\* x lies on the arc from g to p, ends included.
Within(x, g, p) == x = p \/ x \in Between(g, p)

\* GET, the position of the fetch, the cached PUT and PUT follow each other on
\* the ring, and what the fetch read so far is cleared.
RingOK ==
    /\ Within(Consumed, cachedGet, put)
    /\ Within(cachedPut, Consumed, put)
    /\ pc = "fetch" => \A i \in Between(cachedGet, get) : buf[i] = NoEntry

LEMMA BetweenEmpty == ASSUME NEW g \in Slots PROVE Between(g, g) = {} /\ Within(g, g, g)
  BY LoopAssumption DEF Between, Within, Slots

LEMMA BetweenEnds ==
    ASSUME NEW g \in Slots, NEW p \in Slots
    PROVE  /\ Within(g, g, p) /\ Within(p, g, p)
           /\ p \notin Between(g, p)
           /\ g # p => g \in Between(g, p)
  BY LoopAssumption DEF Between, Within, Slots

\* PUT advances, and there is room.
LEMMA PutAdvances ==
    ASSUME NEW g \in Slots, NEW p \in Slots, Inc(p) # g
    PROVE  Between(g, Inc(p)) = Between(g, p) \cup {p}
  BY LoopAssumption DEF Between, Slots, Inc

\* GET advances, and has not met PUT.
LEMMA GetAdvances ==
    ASSUME NEW g \in Slots, NEW p \in Slots, g # p
    PROVE  Between(Inc(g), p) = Between(g, p) \ {g}
  BY LoopAssumption DEF Between, Slots, Inc

\* A point on an arc splits it.
LEMMA ArcSplits ==
    ASSUME NEW g \in Slots, NEW p \in Slots, NEW x \in Slots, Within(x, g, p)
    PROVE  /\ Between(g, p) = Between(g, x) \cup Between(x, p)
           /\ Between(g, x) \cap Between(x, p) = {}
           /\ x # p => Inc(x) # g
           /\ Inc(p) # g => Inc(p) # x
  BY LoopAssumption DEF Between, Within, Slots, Inc

\* The invariant is one of the ring, its bits and where the fetch stands.
LEMMA RingUnchanged ==
    ASSUME RingOK, ValidOnlyPending,
           UNCHANGED <<buf, valid, put, cachedGet>>,
           UNCHANGED <<cachedPut, get>> /\ (pc' = "fetch" <=> pc = "fetch")
    PROVE  RingOK' /\ ValidOnlyPending'
  BY DEF RingOK, ValidOnlyPending, Within, Consumed, Between

\* Re-reading PUT, outside a fetch or at its start.
LEMMA RingPutRead ==
    ASSUME TypeOK, RingOK, ValidOnlyPending,
           UNCHANGED <<buf, valid, put, cachedGet>>, cachedPut' \in {cachedPut, put},
           pc # "fetch", pc' = "fetch" => get' = cachedGet
    PROVE  RingOK' /\ ValidOnlyPending'
  <1>1. Consumed = cachedGet /\ Consumed' = cachedGet /\ cachedGet \in Slots /\ put \in Slots
    BY DEF Consumed, TypeOK, DataOK
  <1>2. Within(cachedGet, cachedGet, put) /\ Within(put, cachedGet, put) /\ Between(cachedGet, cachedGet) = {}
    BY <1>1, BetweenEnds, BetweenEmpty
  <1>3. Within(cachedPut', cachedGet, put)
    BY <1>1, <1>2 DEF RingOK
  <1> QED BY <1>1, <1>2, <1>3 DEF RingOK, ValidOnlyPending, Within, Between

\* The GPU writes an entry only where there is room, and publishes only
\* entries the driver has not consumed.
LEMMA RingGPU == TypeOK /\ RingOK /\ ValidOnlyPending /\ GPU => RingOK' /\ ValidOnlyPending'
  <1> SUFFICES ASSUME TypeOK, RingOK, ValidOnlyPending, GPU PROVE RingOK' /\ ValidOnlyPending'
    OBVIOUS
  <1>0. /\ buf \in [Slots -> Entries \cup {NoEntry}] /\ valid \subseteq Slots
        /\ put \in Slots /\ cachedGet \in Slots /\ cachedPut \in Slots /\ get \in Slots
        /\ Consumed \in Slots
    BY DEF TypeOK, DataOK, Consumed
  <1>1. ASSUME NEW w \in Warps, Fault(w), ~Full PROVE RingOK' /\ ValidOnlyPending'
    <2>1. /\ buf' = [buf EXCEPT ![put] = <<w, want[w]>>] /\ put' = Inc(put)
          /\ UNCHANGED <<valid, cachedGet, cachedPut, get, pc>>
      BY <1>1 DEF Fault
    <2>2. Consumed' = Consumed
      BY <2>1 DEF Consumed
    <2>3. <<w, want[w]>> \in Entries
      BY <1>1 DEF Fault, Entries, TypeOK, DataOK
    <2>4. Inc(put) # cachedGet /\ Inc(put) # Consumed
      BY <1>0, <1>1, ArcSplits DEF Full, RingOK
    <2>5. /\ Between(cachedGet, put') = Between(cachedGet, put) \cup {put}
          /\ Between(Consumed, put') = Between(Consumed, put) \cup {put}
      BY <1>0, <2>1, <2>4, PutAdvances
    <2>6. Within(Consumed, cachedGet, put') /\ Within(cachedPut, Consumed, put')
      BY <2>5 DEF RingOK, Within
    <2>7. pc = "fetch" => put \notin Between(cachedGet, get)
      BY <1>0, ArcSplits, BetweenEnds DEF RingOK, Consumed
    <2>8. pc' = "fetch" => \A i \in Between(cachedGet', get') : buf'[i] = NoEntry
      BY <1>0, <2>1, <2>7 DEF RingOK, Between
    <2>9. \A i \in valid : i \in Between(Consumed, put') /\ buf'[i] # NoEntry
      BY <1>0, <2>1, <2>3, <2>5, EntryWritten DEF ValidOnlyPending
    <2> QED BY <2>1, <2>2, <2>6, <2>8, <2>9 DEF RingOK, ValidOnlyPending, Within, Between
  <1>2. ASSUME NEW i \in Slots, Publish(i) PROVE RingOK' /\ ValidOnlyPending'
    <2>1. i \in Between(Consumed, put)
      BY <1>0, <1>2, ArcSplits DEF Publish, RingOK, Consumed
    <2>2. Consumed' = Consumed
      BY <1>2 DEF Publish, Consumed
    <2> QED BY <1>2, <2>1, <2>2 DEF Publish, RingOK, ValidOnlyPending, Within, Between
  <1>3. ASSUME NEW w \in Warps, Access(w) \/ (Fault(w) /\ Full) \/ Complete(w) \/ DestroyChannel(w)
        PROVE  RingOK' /\ ValidOnlyPending'
    BY <1>3, RingUnchanged DEF Access, Fault, Complete, DestroyChannel
  <1>4. ASSUME NEW e, Evict(e) \/ Map(e) PROVE RingOK' /\ ValidOnlyPending'
    BY <1>4, RingUnchanged DEF Evict, Map
  <1>5. CASE Replay
    BY <1>5, RingUnchanged DEF Replay
  <1> QED BY <1>1, <1>2, <1>3, <1>4, <1>5 DEF GPU

\* The fetch advances over entries that are valid, and clears them.
LEMMA RingFetch ==
    ASSUME TypeOK, RingOK, ValidOnlyPending, FetchSkip \/ FetchCache \/ FetchDone
    PROVE  RingOK' /\ ValidOnlyPending'
  <1>0. /\ buf \in [Slots -> Entries \cup {NoEntry}] /\ valid \subseteq Slots
        /\ put \in Slots /\ cachedGet \in Slots /\ cachedPut \in Slots /\ get \in Slots
    BY DEF TypeOK, DataOK
  <1>1. CASE FetchSkip \/ FetchCache
    <2>1. /\ pc = "fetch" /\ pc' = "fetch" /\ get \in valid /\ get # cachedPut
          /\ valid' = valid \ {get} /\ buf' = [buf EXCEPT ![get] = NoEntry] /\ get' = Inc(get)
          /\ UNCHANGED <<put, cachedGet, cachedPut>>
      BY <1>1 DEF FetchSkip, FetchCache, EntryReady, Consume
    <2>2. Consumed = get /\ Consumed' = Inc(get) /\ Inc(get) \in Slots
      BY <1>0, <2>1, IncType DEF Consumed
    <2>3. get # put
      BY <1>0, <2>1, <2>2, BetweenEmpty DEF ValidOnlyPending
    <2>4. Between(Inc(get), put) = Between(get, put) \ {get}
      BY <1>0, <2>3, GetAdvances
    <2>5. Inc(get) # cachedGet
      BY <1>0, <2>2, <2>3, ArcSplits DEF RingOK
    <2>6. Between(cachedGet, Inc(get)) = Between(cachedGet, get) \cup {get}
      BY <1>0, <2>5, PutAdvances
    <2>7. Within(Inc(get), cachedGet, put)
      <3>1. Inc(get) = put \/ Inc(get) \in Between(Inc(get), put)
        BY <1>0, <2>2, BetweenEnds
      <3>2. Between(get, put) \subseteq Between(cachedGet, put)
        BY <1>0, <2>2, ArcSplits DEF RingOK
      <3> QED BY <2>4, <3>1, <3>2 DEF Within
    <2>8. Within(cachedPut, Inc(get), put)
      BY <2>1, <2>2, <2>4 DEF RingOK, Within
    <2>9. \A i \in Between(cachedGet, Inc(get)) : buf'[i] = NoEntry
      BY <1>0, <2>1, <2>6 DEF RingOK
    <2>10. \A i \in valid' : i \in Between(Inc(get), put) /\ buf'[i] # NoEntry
      BY <1>0, <2>1, <2>2, <2>4 DEF ValidOnlyPending
    <2> QED BY <2>1, <2>2, <2>7, <2>8, <2>9, <2>10 DEF RingOK, ValidOnlyPending, Within, Between
  <1>2. CASE FetchDone
    <2>1. /\ pc = "fetch" /\ pc' # "fetch" /\ cachedGet' = get
          /\ UNCHANGED <<buf, valid, put, cachedPut>>
      BY <1>2 DEF FetchDone
    <2>2. Consumed = get /\ Consumed' = get
      BY <2>1 DEF Consumed
    <2>3. Within(get, get, put)
      BY <1>0, BetweenEnds
    <2> QED BY <2>1, <2>2, <2>3 DEF RingOK, ValidOnlyPending, Within, Between
  <1> QED BY <1>1, <1>2

\* A flush drops every entry up to the PUT it read.
LEMMA RingFlush ==
    ASSUME TypeOK, RingOK, ValidOnlyPending, FlushDrop
    PROVE  RingOK' /\ ValidOnlyPending'
  <1>0. /\ buf \in [Slots -> Entries \cup {NoEntry}] /\ valid \subseteq Slots
        /\ put \in Slots /\ cachedGet \in Slots /\ cachedPut \in Slots
    BY DEF TypeOK, DataOK
  <1> DEFINE dropped == Between(cachedGet, cachedPut)
  <1>1. /\ pc = "drop" /\ pc' # "fetch" /\ cachedGet' = cachedPut
        /\ valid' = valid \ dropped
        /\ buf' = [i \in Slots |-> IF i \in dropped THEN NoEntry ELSE buf[i]]
        /\ UNCHANGED <<put, cachedPut>>
    <2>1. pc' # "fetch"
      BY DEF FlushDrop, FlushReturns, PushFails, TypeOK, DataOK, Flushes
    <2> QED BY <2>1 DEF FlushDrop
  <1>2. Consumed = cachedGet /\ Consumed' = cachedPut
    BY <1>1 DEF Consumed
  <1>3. Between(cachedGet, put) = dropped \cup Between(cachedPut, put)
    BY <1>0, <1>2, ArcSplits DEF RingOK
  <1>4. Within(cachedPut, cachedPut, put)
    BY <1>0, BetweenEnds
  <1>5. \A i \in valid' : i \in Between(cachedPut, put) /\ buf'[i] # NoEntry
    BY <1>0, <1>1, <1>2, <1>3 DEF ValidOnlyPending
  <1> QED BY <1>1, <1>2, <1>4, <1>5 DEF RingOK, ValidOnlyPending, Within, Between

LEMMA RingStep ==
    TypeOK /\ RingOK /\ ValidOnlyPending /\ [Next]_vars => RingOK' /\ ValidOnlyPending'
  <1> SUFFICES ASSUME TypeOK, RingOK, ValidOnlyPending, [Next]_vars
               PROVE  RingOK' /\ ValidOnlyPending'
    OBVIOUS
  <1>1. CASE Schedule \/ FlushPut
    BY <1>1, RingPutRead DEF Schedule, FlushPut
  <1>2. CASE NextBatch \/ WaitRestart
    BY <1>2, RingPutRead DEF NextBatch, WaitRestart, StartFetch
  <1>3. CASE LimitReached \/ PreprocessOk \/ PreprocessStale
    BY <1>3, RingUnchanged DEF LimitReached, PreprocessOk, PreprocessStale
  <1>4. CASE \E e \in todo : ServiceBlock(e) \/ ThrottleBlock(e) \/ SkipBlock(e)
    BY <1>4, RingUnchanged DEF ServiceBlock, ThrottleBlock, SkipBlock
  <1>5. CASE ServiceFails \/ ServiceDone
    BY <1>5, RingUnchanged DEF ServiceFails, ServiceDone
  <1>6. CASE cancel_faults_all \/ ServicePrecise \/ CancelPrecise
    BY <1>6, RingUnchanged DEF cancel_faults_all, ServicePrecise, CancelPrecise
  <1>7. CASE ReplayPolicy
    BY <1>7, RingUnchanged DEF ReplayPolicy, EndBatch, PushFails
  <1>8. CASE WaitReplay \/ Exit
    BY <1>8, RingUnchanged DEF WaitReplay, EndBatch, Exit
  <1>9. CASE UNCHANGED vars
    BY <1>9, RingUnchanged
  <1> QED BY <1>1, <1>2, <1>3, <1>4, <1>5, <1>6, <1>7, <1>8, <1>9, RingGPU, RingFetch, RingFlush
          DEF Next, BottomHalf

\* A set valid bit always belongs to an entry between the driver's position and
\* PUT: no bit of the previous lap is left when the ring wraps.
THEOREM ValidBits == Spec => []ValidOnlyPending
  <1>1. Init => RingOK /\ ValidOnlyPending
    BY LoopAssumption, TypeInit, BetweenEmpty
       DEF Init, RingOK, ValidOnlyPending, Consumed, TypeOK, DataOK
  <1> QED BY <1>1, TypeInit, TypeStep, RingStep, PTL DEF Spec

\* uvm_parent_gpu_replayable_faults_pending is exact: both of its fast paths
\* agree with the PUT register.
THEOREM PendingExact == Spec => [](EntriesPending <=> cachedGet # put)
  <1>1. Init => RingOK /\ ValidOnlyPending
    BY LoopAssumption, TypeInit, BetweenEmpty
       DEF Init, RingOK, ValidOnlyPending, Consumed, TypeOK, DataOK
  <1>2. TypeOK /\ RingOK /\ ValidOnlyPending => (EntriesPending <=> cachedGet # put)
    <2> SUFFICES ASSUME TypeOK, RingOK, ValidOnlyPending, cachedGet = put
                 PROVE  cachedGet = cachedPut /\ cachedGet \notin valid
      BY DEF EntriesPending
    <2>1. Between(cachedGet, put) = {} /\ cachedGet \in Slots
      BY BetweenEmpty DEF TypeOK, DataOK
    <2>2. Consumed = put
      BY <2>1 DEF RingOK, Within
    <2> QED BY <2>1, <2>2 DEF RingOK, ValidOnlyPending, Within
  <1> QED BY <1>1, <1>2, TypeInit, TypeStep, RingStep, PTL DEF Spec

-----------------------------------------------------------------------------
(* Replays and cancels: the invariants. *)

\* The bottom half is on its way to a replay: whatever it does from here, it
\* pushes one before it returns, or the push fails.
ReplayOwed ==
    \/ pc \in {"cancel", "precise", "kill", "flush", "drop"}
    \/ mode = "all" /\ pc \in {"fetch", "preprocess"}
    \/ pc = "service" /\ (policy # "BLOCK" \/ fatal # {})
    \/ pc = "replay" /\ policy \in {"BATCH", "BATCH_FLUSH"}
    \/ policy = "ONCE" /\ pc # "idle" /\ status # "error"

\* A warp stalled on a page it now has is owed a replay.
ServicedOwed ==
    ~pushFailed /\ (\E w \in stalled : <<w, want[w]>> \in resident)
        => replaying \/ ReplayOwed

\* Where every entry is cached and every batch replayed, a stalled warp is owed
\* a replay, or the buffer still holds an entry that raises the interrupt.
StallOwed ==
    ~pred /\ policy # "BLOCK" /\ ~pushFailed /\ stalled # {}
        => \/ replaying \/ ReplayOwed
           \/ cachedGet # put
           \/ pc = "preprocess"

\* Without the filter a fetch that cached nothing has consumed nothing.
NothingConsumed == pc = "fetch" /\ ~pred /\ num = 0 => get = cachedGet

\* After an error the bottom half only cancels, flushes and returns.
ErrorHandled ==
    status = "error" => \/ pc \in {"cancel", "exit"}
                        \/ pc \in {"flush", "drop"} /\ why = "all"

LoopInv == NothingConsumed /\ ErrorHandled

OwedInv == ServicedOwed /\ StallOwed

-----------------------------------------------------------------------------
(* Every step keeps them. *)

LEMMA LoopStep == TypeOK /\ LoopInv /\ [Next]_vars => LoopInv'
  <1> SUFFICES ASSUME TypeOK, LoopInv, [Next]_vars PROVE LoopInv'
    OBVIOUS
  <1> USE DEF LoopInv, NothingConsumed, ErrorHandled
  <1>1. ASSUME UNCHANGED <<pc, why, status, pred, num, get, cachedGet>> PROVE LoopInv'
    BY <1>1
  <1>2. CASE GPU
    <2>1. UNCHANGED <<pc, why, status, pred, num, get, cachedGet>>
      BY <1>2 DEF GPU, Access, Fault, Publish, Complete, Replay, Evict, DestroyChannel, Map
    <2> QED BY <1>1, <2>1
  <1>3. CASE Schedule \/ LimitReached \/ FlushPut \/ WaitReplay
    BY <1>3 DEF Schedule, LimitReached, FlushPut, WaitReplay, EndBatch
  <1>4. CASE NextBatch \/ WaitRestart
    BY <1>4 DEF NextBatch, WaitRestart, StartFetch
  <1>5. CASE FetchSkip \/ FetchCache \/ FetchDone
    <2>1. CASE FetchSkip
      BY <2>1 DEF FetchSkip, Filtering, EntryReady
    <2>2. CASE FetchCache
      <3>1. num' = num + 1 /\ num \in Nat
        BY <2>2 DEF FetchCache, TypeOK, DataOK
      <3>2. num' # 0
        BY <3>1
      <3> QED BY <2>2, <3>2 DEF FetchCache
    <2>3. CASE FetchDone
      BY <2>3 DEF FetchDone, EntryReady
    <2> QED BY <1>5, <2>1, <2>2, <2>3
  <1>6. CASE PreprocessOk \/ PreprocessStale
    BY <1>6 DEF PreprocessOk, PreprocessStale
  <1>7. CASE \E e \in todo : ServiceBlock(e) \/ ThrottleBlock(e) \/ SkipBlock(e)
    BY <1>1, <1>7 DEF ServiceBlock, ThrottleBlock, SkipBlock
  <1>8. CASE ServiceFails \/ ServiceDone
    BY <1>8 DEF ServiceFails, ServiceDone
  <1>9. CASE cancel_faults_all \/ ServicePrecise \/ CancelPrecise
    BY <1>9 DEF cancel_faults_all, ServicePrecise, CancelPrecise
  <1>10. CASE FlushDrop
    BY <1>10 DEF FlushDrop, FlushReturns, PushFails, TypeOK, DataOK, Flushes
  <1>11. CASE ReplayPolicy
    BY <1>11 DEF ReplayPolicy, EndBatch, PushFails
  <1>12. CASE Exit
    BY <1>12 DEF Exit
  <1>13. CASE UNCHANGED vars
    BY <1>1, <1>13
  <1> QED BY <1>2, <1>3, <1>4, <1>5, <1>6, <1>7, <1>8, <1>9, <1>10, <1>11, <1>12, <1>13
          DEF Next, BottomHalf

\* No event of the GPU takes a debt away except the replay itself, and a new
\* fault leaves an entry in the buffer or found it full.
LEMMA OwedGPU == TypeOK /\ OwedInv /\ GPU => OwedInv'
  <1> SUFFICES ASSUME TypeOK, OwedInv, GPU PROVE OwedInv'
    OBVIOUS
  <1>0. want \in [Warps -> Pages \cup {NoPage}] /\ stalled \subseteq Warps /\ put \in Slots
    BY DEF TypeOK, DataOK
  <1> USE DEF OwedInv, ServicedOwed, StallOwed, ReplayOwed
  <1>1. ASSUME NEW w \in Warps, Access(w) PROVE OwedInv'
    <2>1. \A v \in stalled' : <<v, want'[v]>> \in resident' => <<v, want[v]>> \in resident
      BY <1>0, <1>1 DEF Access
    <2> QED BY <1>1, <2>1 DEF Access
  <1>2. ASSUME NEW w \in Warps, Fault(w) PROVE OwedInv'
    <2>1. \A v \in stalled' : <<v, want'[v]>> \in resident' => v \in stalled /\ <<v, want[v]>> \in resident
      BY <1>2 DEF Fault
    <2>2. cachedGet' # put'
      <3>1. CASE Full
        BY <1>0, <1>2, <3>1, LoopAssumption DEF Fault, Full, Inc, Slots
      <3>2. CASE ~Full
        BY <1>2, <3>2 DEF Fault, Full
      <3> QED BY <3>1, <3>2
    <2>3. StallOwed'
      BY <2>2
    <2> QED BY <1>2, <2>1, <2>3 DEF Fault
  <1>3. ASSUME NEW w \in Warps, Complete(w) PROVE OwedInv'
    <2>1. \A v \in stalled' : v \in stalled /\ want'[v] = want[v]
      BY <1>0, <1>3 DEF Complete
    <2>2. ServicedOwed'
      <3>1. ASSUME NEW v \in stalled', <<v, want'[v]>> \in resident'
            PROVE  v \in stalled /\ <<v, want[v]>> \in resident
        BY <1>3, <2>1, <3>1 DEF Complete
      <3>2. ReplayOwed' = ReplayOwed /\ pushFailed' = pushFailed /\ replaying' = replaying
        BY <1>3 DEF Complete
      <3> QED BY <3>1, <3>2
    <2>3. StallOwed'
      BY <1>3 DEF Complete
    <2> QED BY <2>2, <2>3
  <1>4. ASSUME NEW w \in Warps, DestroyChannel(w) PROVE OwedInv'
    <2>1. \A v \in stalled' : v \in stalled /\ want'[v] = want[v]
      BY <1>0, <1>4 DEF DestroyChannel
    <2> QED BY <1>4, <2>1 DEF DestroyChannel
  <1>5. ASSUME NEW i \in Slots, Publish(i) PROVE OwedInv'
    BY <1>5 DEF Publish
  <1>6. ASSUME NEW e, Evict(e) \/ Map(e) PROVE OwedInv'
    BY <1>6 DEF Evict, Map
  <1>7. CASE Replay
    BY <1>7 DEF Replay
  <1> QED BY <1>1, <1>2, <1>3, <1>4, <1>5, <1>6, <1>7 DEF GPU

\* Up to the end of the service of a batch.
LEMMA OwedBatch ==
    ASSUME TypeOK, LoopInv, OwedInv,
           \/ Schedule \/ LimitReached \/ NextBatch
           \/ FetchSkip \/ FetchCache \/ FetchDone
           \/ PreprocessOk \/ PreprocessStale
           \/ \E e \in todo : ServiceBlock(e) \/ ThrottleBlock(e) \/ SkipBlock(e)
           \/ ServiceFails \/ ServiceDone
    PROVE  OwedInv'
  <1> USE DEF OwedInv, ServicedOwed, StallOwed, ReplayOwed
  <1>1. CASE Schedule \/ LimitReached
    BY <1>1 DEF Schedule, LimitReached
  <1>2. CASE NextBatch
    BY <1>2 DEF NextBatch, StartFetch
  <1>3. CASE FetchSkip \/ FetchCache
    BY <1>3 DEF FetchSkip, FetchCache, EntryReady, Consume
  <1>4. CASE FetchDone
    BY <1>4 DEF FetchDone, LoopInv, NothingConsumed, TypeOK, DataOK
  <1>5. CASE PreprocessOk \/ PreprocessStale
    BY <1>5 DEF PreprocessOk, PreprocessStale, TypeOK, DataOK
  <1>6. ASSUME NEW e \in todo, ServiceBlock(e) PROVE OwedInv'
    BY <1>6 DEF ServiceBlock, ReplayBlock, push_replay_on_gpu
  <1>7. ASSUME NEW e \in todo, ThrottleBlock(e) PROVE OwedInv'
    BY <1>7 DEF ThrottleBlock, ReplayBlock, push_replay_on_gpu
  <1>8. ASSUME NEW e \in todo, SkipBlock(e) PROVE OwedInv'
    BY <1>8 DEF SkipBlock
  <1>9. CASE ServiceFails
    BY <1>9 DEF ServiceFails
  <1>10. CASE ServiceDone
    BY <1>10 DEF ServiceDone, LoopInv, ErrorHandled, TypeOK, DataOK, AllPolicies
  <1> QED BY <1>1, <1>2, <1>3, <1>4, <1>5, <1>6, <1>7, <1>8, <1>9, <1>10

\* From the cancel or the replay of a batch to the return.
LEMMA OwedReplay ==
    ASSUME TypeOK, LoopInv, OwedInv,
           \/ cancel_faults_all \/ ServicePrecise \/ CancelPrecise
           \/ FlushPut \/ FlushDrop
           \/ ReplayPolicy \/ WaitReplay \/ WaitRestart \/ Exit
    PROVE  OwedInv'
  <1> USE DEF OwedInv, ServicedOwed, StallOwed, ReplayOwed
  <1>1. CASE cancel_faults_all \/ ServicePrecise \/ CancelPrecise
    BY <1>1 DEF cancel_faults_all, ServicePrecise, CancelPrecise
  <1>2. CASE FlushPut
    BY <1>2 DEF FlushPut
  <1>3. CASE FlushDrop
    BY <1>3 DEF FlushDrop, FlushReturns, PushFails, push_replay_on_gpu
  <1>4. CASE ReplayPolicy
    BY <1>4 DEF ReplayPolicy, EndBatch, PushFails, push_replay_on_gpu
  <1>5. CASE WaitReplay
    BY <1>5 DEF WaitReplay, EndBatch
  <1>6. CASE WaitRestart
    BY <1>6 DEF WaitRestart, StartFetch
  <1>7. CASE Exit
    BY <1>7 DEF Exit, FinalReplay, push_replay_on_gpu
  <1> QED BY <1>1, <1>2, <1>3, <1>4, <1>5, <1>6, <1>7

LEMMA OwedStep == TypeOK /\ LoopInv /\ OwedInv /\ [Next]_vars => OwedInv'
  <1> SUFFICES ASSUME TypeOK, LoopInv, OwedInv, [Next]_vars PROVE OwedInv'
    OBVIOUS
  <1>1. CASE UNCHANGED vars
    BY <1>1 DEF OwedInv, ServicedOwed, StallOwed, ReplayOwed
  <1>2. CASE Next
    BY <1>2, OwedGPU, OwedBatch, OwedReplay DEF Next, BottomHalf
  <1> QED BY <1>1, <1>2

LEMMA OwedInit == Init => LoopInv /\ OwedInv
  BY DEF Init, LoopInv, NothingConsumed, ErrorHandled, OwedInv, ServicedOwed, StallOwed

\* When the system is at rest no warp waits for a page it was given: whichever
\* policy, filter, cancel or error path ran, what it serviced was replayed.
THEOREM ServicedIsReplayed == Spec => []ServicedReplayed
  <1>1. OwedInv => ServicedReplayed
    BY DEF OwedInv, ServicedOwed, ServicedReplayed, AtRest, ReplayOwed
  <1> QED BY <1>1, TypeInit, TypeStep, LoopStep, OwedInit, OwedStep, PTL DEF Spec

\* Without the filter, and with any policy that replays whole batches, no fault
\* is dropped: neither one lost to a full buffer nor one a flush removed.
THEOREM NothingDropped == Spec => []NoFaultDroppedUnfiltered
  <1>1. OwedInv => NoFaultDroppedUnfiltered
    BY DEF OwedInv, StallOwed, NoFaultDroppedUnfiltered, NoFaultDropped, AtRest, ReplayOwed
  <1> QED BY <1>1, TypeInit, TypeStep, LoopStep, OwedInit, OwedStep, PTL DEF Spec

-----------------------------------------------------------------------------
(* Cancels *)

\* The fault entries the cancel path is about to kill are invalid, and the locks
\* that keep them so are held.
KillsInvalid ==
    /\ mode = "all" /\ pc \in {"fetch", "preprocess"} => why = "restart"
    /\ pc \in {"precise", "kill"} => why = "restart"
    /\ pc = "kill" => todo \subseteq invalid /\ \A e \in todo : e[1] \in fatal

\* The step kills no warp for a valid access, except in the cancel of a batch.
Spares == innocent' # innocent => pc = "cancel"

LEMMA KillStep ==
    ASSUME TypeOK, KillsInvalid, [Next]_vars
    PROVE  KillsInvalid' /\ Spares
  <1> USE DEF KillsInvalid, Spares
  <1>1. ASSUME UNCHANGED <<pc, mode, why, todo, fatal, invalid, innocent>>
        PROVE  KillsInvalid' /\ Spares
    BY <1>1
  <1>2. ASSUME NEW w \in Warps, Access(w) \/ Fault(w) \/ Complete(w) \/ DestroyChannel(w)
        PROVE  KillsInvalid' /\ Spares
    BY <1>1, <1>2 DEF Access, Fault, Complete, DestroyChannel
  <1>3. ASSUME NEW i \in Slots, Publish(i) PROVE KillsInvalid' /\ Spares
    BY <1>1, <1>3 DEF Publish
  <1>4. ASSUME NEW e, Evict(e) PROVE KillsInvalid' /\ Spares
    BY <1>1, <1>4 DEF Evict
  <1>5. ASSUME NEW e, Map(e) PROVE KillsInvalid' /\ Spares
    <2>1. pc = "kill" => e \notin todo
      BY <1>5 DEF Map, VaSpaceLocked
    <2> QED BY <1>5, <2>1 DEF Map
  <1>6. CASE Replay
    BY <1>1, <1>6 DEF Replay
  <1>7. CASE Schedule \/ LimitReached \/ FlushPut \/ WaitReplay
    BY <1>7 DEF Schedule, LimitReached, FlushPut, WaitReplay, EndBatch
  <1>8. CASE NextBatch \/ WaitRestart
    BY <1>8 DEF NextBatch, WaitRestart, StartFetch
  <1>9. CASE FetchSkip \/ FetchCache
    BY <1>1, <1>9 DEF FetchSkip, FetchCache
  <1>10. CASE FetchDone \/ PreprocessOk \/ PreprocessStale
    BY <1>10 DEF FetchDone, PreprocessOk, PreprocessStale, TypeOK, DataOK
  <1>11. CASE \E e \in todo : ServiceBlock(e) \/ ThrottleBlock(e) \/ SkipBlock(e)
    BY <1>11 DEF ServiceBlock, ThrottleBlock, SkipBlock
  <1>12. CASE ServiceFails
    BY <1>12, LoopAssumption DEF ServiceFails
  <1>13. CASE ServiceDone \/ ServicePrecise
    BY <1>13 DEF ServiceDone, ServicePrecise
  <1>14. CASE cancel_faults_all
    BY <1>14 DEF cancel_faults_all
  <1>15. CASE CancelPrecise
    <2>1. innocent' = innocent
      BY <1>15 DEF CancelPrecise, CancelFaults
    <2> QED BY <1>15, <2>1 DEF CancelPrecise
  <1>16. CASE FlushDrop
    BY <1>16 DEF FlushDrop, FlushReturns, PushFails, TypeOK, DataOK, Flushes
  <1>17. CASE ReplayPolicy
    BY <1>17 DEF ReplayPolicy, EndBatch, PushFails
  <1>18. CASE Exit
    BY <1>18 DEF Exit
  <1>19. CASE UNCHANGED vars
    BY <1>1, <1>19
  <1> HIDE DEF KillsInvalid, Spares
  <1> QED BY <1>2, <1>3, <1>4, <1>5, <1>6, <1>7, <1>8, <1>9, <1>10, <1>11, <1>12, <1>13, <1>14,
             <1>15, <1>16, <1>17, <1>18, <1>19
          DEF Next, GPU, BottomHalf

\* Whatever the service of a batch fails with, the precise cancel kills a warp only
\* for an access that is invalid when it is killed.
THEOREM CancelsInvalidOnly == Spec => PreciseCancelsInvalid
  <1>1. Init => KillsInvalid
    BY DEF Init, KillsInvalid
  <1>2. TypeOK /\ KillsInvalid /\ [Next]_vars => KillsInvalid' /\ Spares
    BY KillStep
  <1>3. TypeOK /\ KillsInvalid /\ [Next]_vars => [innocent' # innocent => pc = "cancel"]_vars
    BY <1>2 DEF Spares
  <1> QED BY <1>1, <1>2, <1>3, TypeInit, TypeStep, PTL DEF Spec, PreciseCancelsInvalid
=============================================================================
