----------------------------- MODULE FaultLoop -----------------------------
(***************************************************************************)
(* The bottom half of the replayable fault interrupt:                      *)
(* uvm_gpu_service_replayable_faults and what it calls to fetch, filter,   *)
(* preprocess, service, cancel, flush and replay, against a GPU that keeps *)
(* faulting while it runs.                                                 *)
(*                                                                         *)
(* The GPU stalls a warp that faults until a replay; a replay makes every  *)
(* stalled warp retry, and a retry either completes or faults again.       *)
(* An entry of the fault buffer is <<warp, page>>.  A warp stands for a    *)
(* channel with a va_space of its own, so two warps that use one page use  *)
(* one address in two address spaces.                                      *)
(***************************************************************************)
EXTENDS Naturals

CONSTANTS
    Warps, Pages,   \* the channels, and page addresses (naturals)
    Accesses,       \* the <<warp, page>> accesses the kernels make
    Bad,            \* those of them that are invalid at the start
    MaxFaults,      \* slots of the fault buffer (max_faults)
    FetchLimits,    \* values of replayable_fault_buffer_fetch_limit
    Configs,        \* module parameters the driver may be loaded with:
                    \* <<replay policy, stale-fault filter, adaptive gate>>
    Cooldown,       \* uvm_perf_fault_pred_adaptive_cooldown
    TableSize,      \* slots of the hash_exact table
    MaxBatches,     \* uvm_perf_fault_max_batches_per_service
    MaxThrottled,   \* uvm_perf_fault_max_throttle_per_service
    ServiceErrors,  \* statuses service_fault_batch may fail with
    MaxAccesses,    \* bound on the accesses the warps make
    MaxDisturbances \* bound on what else happens to the driver: evictions,
                    \* throttled pages, lost channels, failing steps

AllPolicies == {"BLOCK", "BATCH", "BATCH_FLUSH", "ONCE"}

ASSUME LoopAssumption ==
    /\ Pages \subseteq Nat \ {0}
    /\ Accesses \subseteq Warps \X Pages
    /\ Bad \subseteq Accesses
    /\ MaxFaults \in Nat /\ MaxFaults > 1
    /\ FetchLimits \subseteq Nat \ {0}
    /\ Configs \subseteq AllPolicies \X BOOLEAN \X BOOLEAN
    /\ Cooldown \in Nat
    /\ TableSize \in Nat \ {0}
    /\ MaxBatches \in Nat \ {0} /\ MaxThrottled \in Nat \ {0}
    /\ ServiceErrors \subseteq {"error", "more"}
    /\ MaxAccesses \in Nat /\ MaxDisturbances \in Nat

NoPage == 0
NoEntry == <<>>   \* a slot whose entry was consumed

VARIABLES
    policy, pred, adaptive,  \* the module parameters
    \* the GPU
    want,      \* the page a warp is accessing
    stalled,   \* warps whose fault waits for a replay
    retrying,  \* warps a replay restarted, not yet done or faulted again
    replaying, \* a replay was pushed and the GPU has not executed it
    buf, valid, put, \* the fault buffer, its valid bits, the PUT register
    resident,  \* accesses the page tables allow
    gone,      \* destroyed channels
    cancelled, \* warps a cancel killed
    invalid,   \* accesses no mapping of the process allows
    innocent,  \* warps killed for an access that was not invalid
    \* uvm_replayable_fault_buffer_info_t
    cachedGet, cachedPut,
    keys, memo, active, cooldown,
    \* the bottom half
    pc, mode, why, status,
    get, limit, num, batch, filter, skips, \* fetch_fault_buffer_entries
    todo, fatal, throttled,           \* service_fault_batch
    replayed, numBatches, numThrottled,
    \* the environment's history
    accesses, disturbances, pushFailed, globalError

config   == <<policy, pred, adaptive>>
warpVars == <<want, stalled, retrying>>
bufVars  == <<buf, valid, put>>
predVars == <<keys, memo, active, cooldown>>
fetchVars == <<get, limit, num, batch, filter, skips>>
batchVars == <<todo, fatal, throttled>>
loopVars == <<replayed, numBatches, numThrottled>>
chanVars == <<gone, cancelled, invalid, innocent>>
envVars  == <<accesses, disturbances, pushFailed, globalError>>

vars == <<config, warpVars, replaying, bufVars, resident, chanVars, cachedGet,
          cachedPut, predVars, pc, mode, why, status, fetchVars, batchVars,
          loopVars, envVars>>

-----------------------------------------------------------------------------
(* The ring. *)

Slots == 0 .. MaxFaults - 1

Entries == Warps \X Pages

\* Mutant of Inc: the wrap is forgotten.
IncNoWrap(i) == i + 1

\* The increment of get and put, with its wrap to 0.
Inc(i) == IF i + 1 = MaxFaults THEN 0 ELSE i + 1

\* The slots from g up to, and without, p.
Between(g, p) == {i \in Slots : IF g <= p THEN g <= i /\ i < p ELSE i >= g \/ i < p}

\* A faulting GPU drops the entry when the buffer is full.
Full == Inc(put) = cachedGet

\* What uvm_tracker_wait on replay_tracker waits for: the replay executed
\* and, by assumption, the retries of its warps are settled.  The comment in
\* service_fault_batch_for_cancel counts on that, although a START replay "completes
\* when all fault replays are in-flight" (uvm_hal_types.h).
ReplayDone == ~replaying /\ retrying = {}

\* One of the bounded events of the environment happens.
Disturb ==
    /\ disturbances < MaxDisturbances
    /\ disturbances' = disturbances + 1

-----------------------------------------------------------------------------
(* The GPU and the rest of the system. *)

\* A warp starts an access that its page tables do not allow.
Access(w) ==
    /\ want[w] = NoPage
    /\ w \notin gone \cup cancelled
    /\ accesses < MaxAccesses
    /\ \E p \in Pages :
          /\ <<w, p>> \in Accesses \ resident
          /\ want' = [want EXCEPT ![w] = p]
    /\ accesses' = accesses + 1
    /\ UNCHANGED <<config, stalled, retrying, replaying, bufVars, resident,
                   chanVars, cachedGet, cachedPut, predVars, pc, mode, why,
                   status, fetchVars, batchVars, loopVars, disturbances,
                   pushFailed, globalError>>

\* A warp faults: it stalls, and its entry is written unless there is no room.
Fault(w) ==
    /\ want[w] # NoPage
    /\ w \notin stalled
    /\ <<w, want[w]>> \notin resident
    /\ stalled' = stalled \cup {w}
    /\ retrying' = retrying \ {w}
    /\ IF Full THEN UNCHANGED <<buf, put>>
               ELSE /\ buf' = [buf EXCEPT ![put] = <<w, want[w]>>]
                    /\ put' = Inc(put)
    /\ UNCHANGED <<config, want, replaying, valid, resident, chanVars,
                   cachedGet, cachedPut, predVars, pc, mode, why, status,
                   fetchVars, batchVars, loopVars, envVars>>

\* The entry of a slot becomes readable, in any order.
Publish(i) ==
    /\ i \in Between(cachedGet, put)
    /\ buf[i] # NoEntry
    /\ i \notin valid
    /\ valid' = valid \cup {i}
    /\ UNCHANGED <<config, warpVars, replaying, buf, put, resident, chanVars,
                   cachedGet, cachedPut, predVars, pc, mode, why, status,
                   fetchVars, batchVars, loopVars, envVars>>

\* A running warp finds its page mapped.
Complete(w) ==
    /\ want[w] # NoPage
    /\ w \notin stalled
    /\ <<w, want[w]>> \in resident
    /\ want' = [want EXCEPT ![w] = NoPage]
    /\ retrying' = retrying \ {w}
    /\ UNCHANGED <<config, stalled, replaying, bufVars, resident, chanVars,
                   cachedGet, cachedPut, predVars, pc, mode, why, status,
                   fetchVars, batchVars, loopVars, envVars>>

\* The GPU executes the replay method.
Replay ==
    /\ replaying
    /\ replaying' = FALSE
    /\ retrying' = retrying \cup stalled
    /\ stalled' = {}
    /\ UNCHANGED <<config, want, bufVars, resident, chanVars, cachedGet,
                   cachedPut, predVars, pc, mode, why, status, fetchVars,
                   batchVars, loopVars, envVars>>

\* Eviction, a CPU fault or a migration takes a page away.
Evict(e) ==
    /\ e \in resident
    /\ Disturb
    /\ resident' = resident \ {e}
    /\ UNCHANGED <<config, warpVars, replaying, bufVars, chanVars, cachedGet,
                   cachedPut, predVars, pc, mode, why, status, fetchVars,
                   batchVars, loopVars, accesses, pushFailed, globalError>>

\* Mutant of VaSpaceLocked: the cancel path does not take the locks.
VaSpaceUnlocked(w) == FALSE

\* service_fault_batch_for_cancel holds the mmap_lock and the va_space lock of
\* the fatal va_space.
VaSpaceLocked(w) ==
    w \in fatal /\ (why = "restart" \/ (why = "stale" /\ mode = "all"))

\* The channel and its va_space are destroyed, which takes the va_space lock;
\* its entries stay in the buffer.
DestroyChannel(w) ==
    /\ w \notin gone
    /\ ~VaSpaceLocked(w)
    /\ Disturb
    /\ gone' = gone \cup {w}
    /\ want' = [want EXCEPT ![w] = NoPage]
    /\ stalled' = stalled \ {w}
    /\ retrying' = retrying \ {w}
    /\ UNCHANGED <<config, replaying, bufVars, resident, cancelled, invalid,
                   innocent, cachedGet, cachedPut, predVars, pc, mode, why,
                   status, fetchVars, batchVars, loopVars, accesses, pushFailed,
                   globalError>>

\* The process maps what was invalid (mmap, mprotect, a new managed range).
Map(e) ==
    /\ e \in invalid
    /\ ~VaSpaceLocked(e[1])
    /\ Disturb
    /\ invalid' = invalid \ {e}
    /\ UNCHANGED <<config, warpVars, replaying, bufVars, resident, gone,
                   cancelled, innocent, cachedGet, cachedPut, predVars, pc,
                   mode, why, status, fetchVars, batchVars, loopVars, accesses,
                   pushFailed, globalError>>

GPU ==
    \/ \E w \in Warps : Access(w) \/ Fault(w) \/ Complete(w) \/ DestroyChannel(w)
    \/ \E i \in Slots : Publish(i)
    \/ \E e \in resident : Evict(e)
    \/ \E e \in invalid : Map(e)
    \/ Replay

-----------------------------------------------------------------------------
(* The previous-batch fetch predictor (hash_exact mode). *)

\* prev_fetch_keys_contains: the memo of the last lookup comes first, and is
\* keyed by channel and address; the table knows the address only.
prev_fetch_keys_contains(e) ==
    IF \E h \in BOOLEAN : <<e, h>> \in memo THEN <<e, TRUE>> \in memo
                                            ELSE e[2] \in keys

\* The tables a build can leave for these pages: of the pages that share a
\* slot the one written last stays.
hash_exact(pages) ==
    {K \in SUBSET pages :
        \A p \in pages : \E k \in K :
            /\ k % TableSize = p % TableSize
            /\ \A j \in K : j % TableSize = p % TableSize => j = k}

prev_fetch_adaptive_should_run == ~adaptive \/ active

\* The state of the adaptive gate after a fetch.
adaptive_update ==
    LET hitLimit == mode = "ready" /\ limit > 0 /\ num >= limit
        rearm    == IF Cooldown > 1 THEN Cooldown ELSE 1
    IN IF ~adaptive THEN UNCHANGED <<active, cooldown>>
       ELSE IF hitLimit THEN active' = TRUE /\ cooldown' = rearm
       ELSE IF ~active THEN UNCHANGED <<active, cooldown>>
       ELSE IF skips THEN active' = TRUE /\ cooldown' = rearm
       ELSE IF cooldown > 1 THEN active' = TRUE /\ cooldown' = cooldown - 1
       ELSE active' = FALSE /\ cooldown' = 0

-----------------------------------------------------------------------------
(* fetch_fault_buffer_entries *)

StartFetch(m) ==
    LET newPut == IF cachedGet = cachedPut THEN put ELSE cachedPut
    IN /\ pc' = "fetch"
       /\ mode' = m
       /\ get' = cachedGet
       /\ cachedPut' = newPut
       /\ limit' \in IF cachedGet = newPut \/ m = "all" THEN {0} ELSE FetchLimits
       /\ num' = 0
       /\ batch' = {}
       /\ filter' = prev_fetch_adaptive_should_run
       /\ skips' = FALSE

\* The loop has an entry to read: one more fits, and its valid bit is set.
EntryReady ==
    /\ pc = "fetch"
    /\ get # cachedPut
    /\ mode = "all" \/ num < limit
    /\ get \in valid

\* Mutant of Consume: the valid bit stays set.
ConsumeKeepsValid ==
    /\ UNCHANGED valid
    /\ buf' = [buf EXCEPT ![get] = NoEntry]
    /\ get' = Inc(get)

\* Mutant of Consume: get stays behind the cleared entry.
ConsumeInPlace ==
    /\ valid' = valid \ {get}
    /\ buf' = [buf EXCEPT ![get] = NoEntry]
    /\ get' = get

\* parse_replayable_entry clears the valid bit; get moves on in any case.
Consume ==
    /\ valid' = valid \ {get}
    /\ buf' = [buf EXCEPT ![get] = NoEntry]
    /\ get' = Inc(get)

\* Whether the filter looks at the entries of this fetch.
Filtering == pred /\ mode = "ready" /\ filter

\* An entry whose page the previous batch had is dropped.
FetchSkip ==
    /\ EntryReady
    /\ Filtering /\ prev_fetch_keys_contains(buf[get])
    /\ Consume
    /\ memo' = {<<buf[get], TRUE>>}
    /\ skips' = TRUE
    /\ UNCHANGED <<config, warpVars, replaying, put, resident, chanVars,
                   cachedGet, cachedPut, keys, active, cooldown, pc, mode, why,
                   status, limit, num, batch, filter, batchVars, loopVars,
                   envVars>>

\* Any other entry is cached; duplicates only add to the count.
FetchCache ==
    /\ EntryReady
    /\ ~(Filtering /\ prev_fetch_keys_contains(buf[get]))
    /\ Consume
    /\ memo' = IF Filtering THEN {<<buf[get], FALSE>>} ELSE memo
    /\ batch' = batch \cup {buf[get]}
    /\ num' = num + 1
    /\ UNCHANGED <<config, warpVars, replaying, put, resident, chanVars,
                   cachedGet, cachedPut, keys, active, cooldown, pc, mode, why,
                   status, limit, filter, skips, batchVars, loopVars, envVars>>

\* The end of the fetch: everything read, the limit reached, or in a regular
\* fetch an entry that is not readable yet after some that were.
FetchDone ==
    /\ pc = "fetch"
    /\ \/ get = cachedPut
       \/ mode = "ready" /\ num >= limit
       \/ mode = "ready" /\ num > 0 /\ get \notin valid
    /\ adaptive_update
    /\ cachedGet' = get
    /\ pc' = IF num > 0 THEN "preprocess"
             ELSE IF mode = "ready" THEN "exit" ELSE "flush"
    /\ why' = IF num = 0 /\ mode = "all" THEN "resume" ELSE why
    /\ get' = 0 /\ limit' = 0 /\ num' = 0 /\ filter' = FALSE /\ skips' = FALSE
    /\ UNCHANGED <<config, warpVars, replaying, bufVars, resident, chanVars,
                   cachedPut, keys, memo, mode, status, batch, batchVars,
                   loopVars, envVars>>

-----------------------------------------------------------------------------
(* preprocess_fault_batch *)

\* Every instance pointer translates; the predictor is rebuilt.
PreprocessOk ==
    /\ pc = "preprocess"
    /\ \A e \in batch : e[1] \notin gone
    /\ IF ~prev_fetch_adaptive_should_run THEN UNCHANGED keys
       ELSE IF ~pred THEN keys' = {}
       ELSE keys' \in hash_exact({e[2] : e \in batch})
    /\ todo' = batch
    /\ pc' = IF mode = "ready" THEN "service" ELSE "precise"
    /\ UNCHANGED <<config, warpVars, replaying, bufVars, resident, chanVars,
                   cachedGet, cachedPut, memo, active, cooldown, mode, why,
                   status, fetchVars, fatal, throttled, loopVars, envVars>>

\* An entry of a destroyed channel: the whole buffer is flushed.
PreprocessStale ==
    /\ pc = "preprocess"
    /\ \E e \in batch : e[1] \in gone
    /\ pc' = "flush"
    /\ why' = "stale"
    /\ batch' = {}
    /\ UNCHANGED <<config, warpVars, replaying, bufVars, resident, chanVars,
                   cachedGet, cachedPut, predVars, mode, status, get, limit,
                   num, filter, skips, batchVars, loopVars, envVars>>

-----------------------------------------------------------------------------
(* push_replay_on_gpu *)

\* Mutant of push_replay_on_gpu: the replay is counted and not sent.
push_replay_lost == UNCHANGED replaying

push_replay_on_gpu == replaying' = TRUE

\* It fails: the service ends with the error, unless it was the flush of a
\* cancel that already reports one.
PushFails ==
    /\ Disturb
    /\ pushFailed' = TRUE
    /\ status' = IF why = "all" THEN status ELSE "error"
    /\ pc' = "exit"
    /\ UNCHANGED <<replaying, replayed, numBatches, why>>

-----------------------------------------------------------------------------
(* service_fault_batch, one VA block (here: one entry) at a time *)

\* With the BLOCK policy a serviced block is replayed at once, unless the
\* batch has a fatal fault.
ReplayBlock ==
    IF policy = "BLOCK" /\ fatal = {}
    THEN push_replay_on_gpu /\ replayed' = TRUE
    ELSE UNCHANGED <<replaying, replayed>>

ServiceBlock(e) ==
    /\ pc = "service" /\ e \in todo
    /\ e[1] \notin gone /\ e \notin invalid
    /\ resident' = resident \cup {e}
    /\ ReplayBlock
    /\ todo' = todo \ {e}
    /\ UNCHANGED <<config, warpVars, bufVars, chanVars, cachedGet, cachedPut,
                   predVars, pc, mode, why, status, fetchVars, fatal, throttled,
                   numBatches, numThrottled, envVars>>

\* A thrashing page is left where it is; the warp is to fault again.
ThrottleBlock(e) ==
    /\ pc = "service" /\ e \in todo
    /\ e[1] \notin gone /\ e \notin invalid
    /\ Disturb
    /\ throttled' = TRUE
    /\ ReplayBlock
    /\ todo' = todo \ {e}
    /\ UNCHANGED <<config, warpVars, bufVars, resident, chanVars, cachedGet,
                   cachedPut, predVars, pc, mode, why, status, fetchVars, fatal,
                   numBatches, numThrottled, accesses, pushFailed, globalError>>

\* An invalid access makes its va_space the fatal one; faults of a va_space
\* the GPU left are ignored.
SkipBlock(e) ==
    /\ pc = "service" /\ e \in todo
    /\ e[1] \in gone \/ e \in invalid
    /\ fatal' = IF fatal = {} /\ e[1] \notin gone THEN {e[1]} ELSE fatal
    /\ todo' = todo \ {e}
    /\ UNCHANGED <<config, warpVars, replaying, bufVars, resident, chanVars,
                   cachedGet, cachedPut, predVars, pc, mode, why, status,
                   fetchVars, throttled, loopVars, envVars>>

\* The batch fails: out of memory, ECC; "more" is the parallel path's report
\* of a block that died.
ServiceFails ==
    /\ pc = "service"
    /\ Disturb
    /\ \E s \in ServiceErrors :
          /\ status' = s
          /\ globalError' = (globalError \/ s = "error")
    /\ pc' = "cancel"
    /\ UNCHANGED <<config, warpVars, replaying, bufVars, resident, chanVars,
                   cachedGet, cachedPut, predVars, mode, why, fetchVars,
                   batchVars, loopVars, accesses, pushFailed>>

ServiceDone ==
    /\ pc = "service" /\ todo = {}
    /\ pc' = IF fatal = {} THEN "replay" ELSE "flush"
    /\ why' = IF fatal = {} THEN why ELSE "restart"
    /\ batch' = {}
    /\ UNCHANGED <<config, warpVars, replaying, bufVars, resident, chanVars,
                   cachedGet, cachedPut, predVars, mode, status, get, limit,
                   num, filter, skips, batchVars, loopVars, envVars>>

-----------------------------------------------------------------------------
(* Cancel *)

\* cancel_fault_precise_va for a set of entries: it waits for the replays, and
\* kills the warps that are stalled on one of them.
CancelFaults(S) ==
    LET killed == {w \in stalled : <<w, want[w]>> \in S}
    IN /\ ReplayDone
       /\ want' = [w \in Warps |-> IF w \in killed THEN NoPage ELSE want[w]]
       /\ stalled' = stalled \ killed
       /\ cancelled' = cancelled \cup killed
       /\ innocent' = innocent \cup {w \in killed : <<w, want[w]>> \notin invalid}

\* cancel_faults_all: after a failed batch every fault of it is cancelled.
cancel_faults_all ==
    /\ pc = "cancel"
    /\ CancelFaults({e \in batch : e[1] \notin gone})
    /\ pc' = "flush"
    /\ why' = "all"
    /\ batch' = {} /\ todo' = {}
    /\ UNCHANGED <<config, retrying, replaying, bufVars, resident, gone, invalid,
                   cachedGet, cachedPut, predVars, mode, status, get, limit,
                   num, filter, skips, fatal, throttled, loopVars, envVars>>

\* The loop of service_fault_batch_for_cancel: the faults of the fatal
\* va_space are serviced, those found invalid are left for the cancel, the
\* ones of other va_spaces ignored.
ServicePrecise ==
    LET own == {e \in todo : e[1] \in fatal}
    IN /\ pc = "precise"
       /\ resident' = resident \cup (own \ invalid)
       /\ todo' = own \cap invalid
       /\ pc' = "kill"
       /\ batch' = {}
       /\ UNCHANGED <<config, warpVars, replaying, bufVars, chanVars, cachedGet,
                      cachedPut, predVars, mode, why, status, get, limit, num,
                      filter, skips, fatal, throttled, loopVars, envVars>>

CancelPrecise ==
    /\ pc = "kill"
    /\ CancelFaults(todo)
    /\ pc' = "flush"
    /\ why' = "resume"
    /\ todo' = {}
    /\ UNCHANGED <<config, retrying, replaying, bufVars, resident, gone, invalid,
                   cachedGet, cachedPut, predVars, mode, status, fetchVars,
                   fatal, throttled, loopVars, envVars>>

-----------------------------------------------------------------------------
(* fault_buffer_flush_locked *)

\* The PUT register is read again unless the mode is CACHED_PUT; the first
\* flush of a cancel also waits for the replays.
FlushPut ==
    /\ pc = "flush"
    /\ why = "restart" => ReplayDone
    /\ cachedPut' = IF why = "cached" THEN cachedPut ELSE put
    /\ pc' = "drop"
    /\ UNCHANGED <<config, warpVars, replaying, bufVars, resident, chanVars,
                   cachedGet, predVars, mode, why, status, fetchVars,
                   batchVars, loopVars, envVars>>

\* Where the caller of the flush goes on once its replay is pushed.
FlushReturns ==
    /\ push_replay_on_gpu
    /\ pc' = CASE why \in {"cached", "update", "restart"} -> "wait"
               [] why = "stale" -> IF mode = "ready" THEN "head" ELSE "flush"
               [] why = "resume" -> "head"
               [] why = "all" -> "exit"
    /\ why' = IF why = "stale" /\ mode = "all" THEN "resume"
              ELSE IF why \in {"update", "restart"} THEN why ELSE "cached"
    /\ replayed' = (replayed \/ why \in {"cached", "update"}
                              \/ (why = "stale" /\ mode = "ready"))
    /\ numBatches' = IF why = "resume" THEN numBatches + 1 ELSE numBatches
    /\ UNCHANGED <<status, pushFailed, disturbances>>

\* The entries are dropped once they are valid, get is written, and a replay
\* pushed.
FlushDrop ==
    LET dropped == Between(cachedGet, cachedPut)
    IN /\ pc = "drop"
       /\ dropped \subseteq valid
       /\ valid' = valid \ dropped
       /\ buf' = [i \in Slots |-> IF i \in dropped THEN NoEntry ELSE buf[i]]
       /\ cachedGet' = cachedPut
       /\ FlushReturns \/ PushFails
       /\ UNCHANGED <<config, warpVars, put, resident, chanVars, cachedPut,
                      predVars, mode, fetchVars, batchVars, numThrottled,
                      accesses, globalError>>

-----------------------------------------------------------------------------
(* uvm_gpu_service_replayable_faults *)

\* The end of a batch that went through.
EndBatch ==
    /\ pc' = "head"
    /\ numThrottled' = IF throttled THEN numThrottled + 1 ELSE numThrottled
    /\ numBatches' = numBatches + 1

\* Mutant of EntriesPending: the cached PUT is not refreshed.
CachedPending == cachedGet # cachedPut

\* uvm_parent_gpu_replayable_faults_pending: the cached PUT, the valid bit at
\* GET, and the PUT register.
EntriesPending ==
    cachedGet # cachedPut \/ cachedGet \in valid \/ cachedGet # put

\* The top half schedules the bottom half while entries are pending.
Schedule ==
    /\ pc = "idle"
    /\ EntriesPending
    /\ cachedPut' = IF cachedGet = cachedPut /\ cachedGet \notin valid
                    THEN put ELSE cachedPut
    /\ pc' = "head"
    /\ UNCHANGED <<config, warpVars, replaying, bufVars, resident, chanVars,
                   cachedGet, predVars, mode, why, status, fetchVars, batchVars,
                   loopVars, envVars>>

\* The head of the loop when a limit of the service is reached.
LimitReached ==
    /\ pc = "head"
    /\ numThrottled >= MaxThrottled \/ numBatches >= MaxBatches
    /\ pc' = "exit"
    /\ UNCHANGED <<config, warpVars, replaying, bufVars, resident, chanVars,
                   cachedGet, cachedPut, predVars, mode, why, status, fetchVars,
                   batchVars, loopVars, envVars>>

\* The head of the loop: a new batch.
NextBatch ==
    /\ pc = "head"
    /\ numThrottled < MaxThrottled /\ numBatches < MaxBatches
    /\ StartFetch("ready")
    /\ todo' = {}
    /\ fatal' = {}
    /\ throttled' = FALSE
    /\ UNCHANGED <<config, warpVars, replaying, bufVars, resident, chanVars,
                   cachedGet, predVars, why, status, loopVars, envVars>>

\* The replay policy after a batch.
ReplayPolicy ==
    /\ pc = "replay"
    /\ \/ /\ policy = "BATCH"
          /\ \/ /\ EndBatch
                /\ push_replay_on_gpu
                /\ replayed' = TRUE
                /\ UNCHANGED <<why, status, pushFailed, disturbances>>
             \/ PushFails /\ UNCHANGED numThrottled
       \/ /\ policy = "BATCH_FLUSH"
          /\ pc' = "flush"
          /\ why' \in {"cached", "update"}
          /\ UNCHANGED <<replaying, loopVars, status, pushFailed, disturbances>>
       \/ /\ policy \in {"BLOCK", "ONCE"}
          /\ EndBatch
          /\ UNCHANGED <<replaying, replayed, why, status, pushFailed,
                         disturbances>>
    /\ UNCHANGED <<config, warpVars, bufVars, resident, chanVars, cachedGet,
                   cachedPut, predVars, mode, fetchVars, batchVars, accesses,
                   globalError>>

\* uvm_tracker_wait after the flush of a batch.
WaitReplay ==
    /\ pc = "wait" /\ why \in {"cached", "update"}
    /\ ReplayDone
    /\ EndBatch
    /\ why' = "cached"
    /\ UNCHANGED <<config, warpVars, replaying, bufVars, resident, chanVars,
                   cachedGet, cachedPut, predVars, mode, status, fetchVars,
                   batchVars, replayed, envVars>>

\* The same wait in service_fault_batch_for_cancel: then everything is
\* fetched again, unless the va_space left the GPU.
WaitRestart ==
    /\ pc = "wait" /\ why = "restart"
    /\ ReplayDone
    /\ \/ /\ fatal \subseteq gone
          /\ pc' = "flush"
          /\ why' = "resume"
          /\ UNCHANGED <<mode, fetchVars, cachedPut>>
       \/ /\ ~(fatal \subseteq gone)
          /\ StartFetch("all")
          /\ UNCHANGED why
    /\ UNCHANGED <<config, warpVars, replaying, bufVars, resident, chanVars,
                   cachedGet, predVars, status, batchVars, loopVars, envVars>>

\* Mutant of FinalReplay: a replay counts for the batches after it too.
FinalReplayOnce == ~replayed

\* After the loop: a replay if the policy is ONCE, or if there was none.
FinalReplay == (status # "error" /\ policy = "ONCE") \/ ~replayed

Exit ==
    /\ pc = "exit"
    /\ pc' = "idle"
    /\ mode' = "ready" /\ why' = "cached" /\ status' = "ok"
    /\ todo' = {} /\ fatal' = {} /\ throttled' = FALSE
    /\ replayed' = FALSE /\ numBatches' = 0 /\ numThrottled' = 0
    /\ IF FinalReplay
       THEN \/ push_replay_on_gpu /\ UNCHANGED <<pushFailed, disturbances>>
            \/ Disturb /\ pushFailed' = TRUE /\ UNCHANGED replaying
       ELSE UNCHANGED <<replaying, pushFailed, disturbances>>
    /\ UNCHANGED <<config, warpVars, bufVars, resident, chanVars, cachedGet,
                   cachedPut, predVars, get, limit, num, batch, filter,
                   skips, accesses, globalError>>

-----------------------------------------------------------------------------
BottomHalf ==
    \/ LimitReached \/ NextBatch
    \/ FetchSkip \/ FetchCache \/ FetchDone
    \/ PreprocessOk \/ PreprocessStale
    \/ \E e \in todo : ServiceBlock(e) \/ ThrottleBlock(e) \/ SkipBlock(e)
    \/ ServiceFails \/ ServiceDone
    \/ cancel_faults_all \/ ServicePrecise \/ CancelPrecise
    \/ FlushPut \/ FlushDrop
    \/ ReplayPolicy \/ WaitReplay \/ WaitRestart \/ Exit

Init ==
    /\ \E c \in Configs : policy = c[1] /\ pred = c[2] /\ adaptive = c[3]
    /\ want = [w \in Warps |-> NoPage]
    /\ stalled = {} /\ retrying = {} /\ replaying = FALSE
    /\ buf = [i \in Slots |-> NoEntry]
    /\ valid = {} /\ put = 0
    /\ resident = {} /\ gone = {} /\ cancelled = {}
    /\ invalid = Bad /\ innocent = {}
    /\ cachedGet = 0 /\ cachedPut = 0
    /\ keys = {} /\ memo = {} /\ active = TRUE /\ cooldown = 0
    /\ pc = "idle" /\ mode = "ready" /\ why = "cached" /\ status = "ok"
    /\ get = 0 /\ limit = 0 /\ num = 0 /\ batch = {}
    /\ filter = FALSE /\ skips = FALSE
    /\ todo = {} /\ fatal = {} /\ throttled = FALSE
    /\ replayed = FALSE /\ numBatches = 0 /\ numThrottled = 0
    /\ accesses = 0 /\ disturbances = 0
    /\ pushFailed = FALSE /\ globalError = FALSE

Next == GPU \/ Schedule \/ BottomHalf

Spec == Init /\ [][Next]_vars

\* The GPU executes what it was given, and the bottom half, a kernel thread
\* on a queue of its own, keeps running.
FairSpec ==
    /\ Spec
    /\ WF_vars(Schedule)
    /\ WF_vars(BottomHalf)
    /\ WF_vars(Replay)
    /\ \A w \in Warps : WF_vars(Fault(w)) /\ WF_vars(Complete(w))
    /\ \A i \in Slots : WF_vars(Publish(i))

-----------------------------------------------------------------------------
Locations == {"idle", "head", "fetch", "preprocess", "service", "cancel",
              "precise", "kill", "flush", "drop", "replay", "wait", "exit"}

Flushes == {"cached", "update", "stale", "restart", "resume", "all"}

FlagsOK ==
    /\ pred \in BOOLEAN /\ adaptive \in BOOLEAN /\ active \in BOOLEAN
    /\ replaying \in BOOLEAN /\ replayed \in BOOLEAN
    /\ filter \in BOOLEAN /\ skips \in BOOLEAN /\ throttled \in BOOLEAN
    /\ pushFailed \in BOOLEAN /\ globalError \in BOOLEAN

DataOK ==
    /\ policy \in AllPolicies
    /\ want \in [Warps -> Pages \cup {NoPage}]
    /\ stalled \subseteq Warps /\ retrying \subseteq Warps
    /\ buf \in [Slots -> Entries \cup {NoEntry}]
    /\ valid \subseteq Slots
    /\ put \in Slots /\ cachedGet \in Slots /\ cachedPut \in Slots /\ get \in Slots
    /\ resident \subseteq Entries
    /\ gone \subseteq Warps /\ cancelled \subseteq Warps
    /\ invalid \subseteq Entries /\ innocent \subseteq Warps
    /\ keys \subseteq Pages /\ memo \subseteq Entries \X BOOLEAN
    /\ cooldown \in Nat
    /\ pc \in Locations /\ mode \in {"ready", "all"} /\ why \in Flushes
    /\ status \in {"ok", "error", "more"}
    /\ limit \in Nat /\ num \in Nat /\ batch \subseteq Entries
    /\ todo \subseteq Entries /\ fatal \subseteq Warps
    /\ numBatches \in Nat /\ numThrottled \in Nat
    /\ accesses \in Nat /\ disturbances \in Nat

\* Types, and get and put inside the ring across every wrap.
TypeOK == FlagsOK /\ DataOK

\* The system is at rest: the bottom half returned, no replay is on its way,
\* no entry is left to raise an interrupt.
AtRest == pc = "idle" /\ ~replaying /\ cachedGet = put

\* No fault is dropped, which is what the replay after the service loop is for:
\* at rest no warp is stalled.  Nothing would ever restart it.
NoFaultDropped == AtRest /\ ~pushFailed => stalled = {}

\* The same, where the stale-fault filter is off and every batch is replayed.
NoFaultDroppedUnfiltered == ~pred /\ policy # "BLOCK" => NoFaultDropped

\* At rest no warp waits for a page the driver gave it, filter or not: what
\* was serviced was replayed.
ServicedReplayed ==
    AtRest /\ ~pushFailed => \A w \in stalled : <<w, want[w]>> \notin resident

\* The position up to which the driver consumed the buffer.
Consumed == IF pc = "fetch" THEN get ELSE cachedGet

\* A set valid bit always belongs to an entry not consumed yet: the bits of
\* the previous lap were cleared before the slot could be used again.
ValidOnlyPending == \A i \in valid : i \in Between(Consumed, put) /\ buf[i] # NoEntry

\* The precise cancel kills a warp only for an access that is invalid when it is
\* killed: what the process mapped between the service and the cancel is spared.
\* Only the cancel of a whole batch that failed takes others with it.
PreciseCancelsInvalid == [][innocent' # innocent => pc = "cancel"]_vars

\* "This case handles global errors such as OOM or ECC": a valid access is cancelled
\* only after a global error.
NoInnocentCancelled == globalError \/ innocent = {}

\* The bottom half returns, and with it the ISR lock, filter or not.
BottomHalfReturns == (pc # "idle") ~> (pc = "idle")

\* Where the filter is off every access completes or its warp is killed.
EveryAccessEnds ==
    \A w \in Warps : (want[w] # NoPage /\ ~pred /\ policy # "BLOCK") ~> (want[w] = NoPage \/ pushFailed)
=============================================================================
