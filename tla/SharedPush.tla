----------------------------- MODULE SharedPush -----------------------------
(***************************************************************************)
(* How the workers of one segment use its shared copy and map push.        *)
(*                                                                         *)
(* A worker appends the copies of its block to the shared copy push and    *)
(* the PTE writes to the shared map push, each under the push's spin lock, *)
(* and falls back to a private push when there is no room.  With copy/map  *)
(* split the worker that finishes the last copy ends the copy push;        *)
(* otherwise the coordinator ends both after the dispatch, also when it    *)
(* has timed out and workers still append.  What was ended the GPU         *)
(* executes in any order that the acquired trackers allow.                 *)
(*                                                                         *)
(* The workers are those that have joined the dispatch: they took the      *)
(* segment's pushes from the pool before the first block and go on with    *)
(* them after a timeout.                                                   *)
(*                                                                         *)
(* A critical section under a push lock is one step.                       *)
(***************************************************************************)
EXTENDS Integers, FiniteSets

CONSTANTS
    Workers,     \* the kthreads of the segment
    Blocks,      \* its va_blocks
    NoBlock,     \* the block of an idle worker
    Residencies, \* how many residencies the faults of a block have
    Modes,       \* <<workers share the copy push, copy_map_split, the heavy
                 \* blocks, which bypass the shared pushes>>
    PushSize,    \* UVM_MAX_PUSH_SIZE
    Fills,       \* what blocks serviced before these have left in the pushes
    CopyPages,   \* copies of one residency, each one unit of the push
    MapUnits,    \* units the PTE writes of one residency take
    MaxMishaps,  \* bound on NV_ERR_MORE_PROCESSING_REQUIRED and timeouts
    MaxOverdue   \* bound on the blocks a timed-out dispatch leaves unfinished

ASSUME SharedPushAssumption ==
    /\ IsFiniteSet(Blocks) /\ NoBlock \notin Blocks
    /\ Residencies \in [Blocks -> Nat \ {0}]
    /\ \A m \in Modes : /\ m \in BOOLEAN \X BOOLEAN \X SUBSET Blocks
                        /\ m[2] => m[1]
    /\ PushSize \in Nat /\ CopyPages \in Nat \ {0} /\ MaxMishaps \in Nat
    /\ MapUnits \in Nat \ {0} /\ 4 * MapUnits <= PushSize
    /\ Fills \subseteq 0 .. PushSize /\ MaxOverdue \in Nat

VARIABLES
    shareCopy, split, heavy,   \* the mode
    \* pushes
    used,       \* units written to the shared pushes
    ends,       \* how often uvm_push_end was called
    work,       \* the items whose commands were submitted with a push
    acquired,   \* the pushes a push waits for
    executed,   \* pushes the GPU has executed
    late,       \* items appended to a push that had been ended
    \* the segment
    counter, pushedEnd,   \* copy_done_counter, copy_pushed_end
    \* va_blocks
    todo,       \* not claimed yet
    tracker,    \* va_block->tracker
    copied, mapped,       \* items resident, items mapped
    again,      \* blocks serviced again after they had counted
    \* workers
    pc, blk, phase, left, ext, extUsed, decremented, status,
    \* the coordinator
    coord, failed, mishaps,   \* stage, whether the batch failed, mishaps so far
    timedOut    \* the wait for the workers has timed out

modeVars  == <<shareCopy, split, heavy>>
pushVars  == <<used, ends, work, acquired, late>>
segVars   == <<counter, pushedEnd>>
blockVars == <<tracker, copied, mapped>>
workVars  == <<pc, blk, phase, left, ext, extUsed, decremented, status>>
coordVars == <<coord, failed, mishaps, timedOut>>
vars == <<modeVars, pushVars, executed, segVars, todo, blockVars, again,
          workVars, coordVars>>

-----------------------------------------------------------------------------
Kinds == {"copy", "map"}

\* The faults of a block with one residency: what one round of
\* uvm_va_block_service_locked copies and maps.
Items == UNION {{b} \X (1 .. Residencies[b]) : b \in Blocks}

NoItem == <<>>

Shared(k) == <<k, NoItem>>
Private(k, i) == <<k, i>>
ReplayPush == <<"replay", NoItem>>

Pushes == (Kinds \X (Items \cup {NoItem})) \cup {ReplayPush}

Merged == Blocks \ heavy

Item(w) == <<blk[w], phase[w]>>

\* Whether the block context of the worker has a shared push of this kind.
Shares(w, k) == blk[w] \in Merged /\ (k = "map" \/ shareCopy)

\* Whether it has a copy_done_counter.
Counts(w) == Shares(w, "copy") /\ split

\* uvm_push_has_space
HasSpace(k, n) == PushSize - used[k] >= n

\* uvm_push_get_tracker_entry: the tracking value of a push that was not ended
\* is 0, which every channel has completed.
Entry(p, e) == IF e[p] > 0 THEN {p} ELSE {}

\* Mutant of Dependencies: the push does not acquire the block's tracker.
NoDependencies(w) == {}

\* What uvm_push_acquire_tracker waits for.
Dependencies(w) == tracker[blk[w]]

\* n units of commands of the worker's item go to push p, which waits for S.
\* After uvm_push_end they go nowhere.
Append(w, p, n, S) ==
    /\ used' = IF p \in {Shared(k) : k \in Kinds}
               THEN [used EXCEPT ![p[1]] = @ + n] ELSE used
    /\ IF ends[p] > 0
       THEN late' = late \cup {Item(w)} /\ UNCHANGED <<work, acquired>>
       ELSE /\ work' = [work EXCEPT ![p] = @ \cup (IF n > 0 THEN {Item(w)} ELSE {})]
            /\ acquired' = [acquired EXCEPT ![p] = @ \cup S]
            /\ UNCHANGED late

\* The push the worker writes its copies to.
CopyPush(w) == IF ext[w] THEN Shared("copy") ELSE Private("copy", Item(w))

-----------------------------------------------------------------------------
(* uvm_va_block_service_locked *)

\* A worker takes the next block.
Claim(w) ==
    /\ pc[w] = "idle"
    /\ \E b \in todo :
          /\ todo' = todo \ {b}
          /\ blk' = [blk EXCEPT ![w] = b]
    /\ pc' = [pc EXCEPT ![w] = "copy"]
    /\ UNCHANGED <<modeVars, pushVars, executed, segVars, blockVars, again,
                   phase, left, ext, extUsed, decremented, status, coordVars>>

\* A block that died meanwhile is not serviced.
SkipDead(w) ==
    /\ pc[w] = "idle"
    /\ \E b \in todo : todo' = todo \ {b}
    /\ failed' = TRUE
    /\ UNCHANGED <<modeVars, pushVars, executed, segVars, blockVars, again,
                   workVars, coord, mishaps, timedOut>>

\* The round ends with a status.
Break(w, s) ==
    /\ status' = [status EXCEPT ![w] = s]
    /\ pc' = [pc EXCEPT ![w] = "leave"]

\* Memory for the pages (at "copy") or for the page tables (at "map") comes
\* only from an eviction, with the block unlocked: the round is repeated.
NeedsRetry(w) ==
    /\ \/ pc[w] = "copy" /\ Item(w) \notin copied
       \/ pc[w] = "map" /\ Item(w) \notin mapped
    /\ mishaps < MaxMishaps
    /\ mishaps' = mishaps + 1
    /\ Break(w, "more")
    /\ UNCHANGED <<modeVars, pushVars, executed, segVars, todo, blockVars,
                   again, blk, phase, left, ext, extUsed, decremented, coord,
                   failed, timedOut>>

\* There is none at all, or no private push can be begun.
Fails(w) ==
    /\ \/ pc[w] = "copy" /\ Item(w) \notin copied
       \/ pc[w] = "acquire" /\ ~ext[w]
       \/ pc[w] = "map" /\ Item(w) \notin mapped
    /\ Break(w, "error")
    /\ UNCHANGED <<modeVars, pushVars, executed, segVars, todo, blockVars,
                   again, blk, phase, left, ext, extUsed, decremented,
                   coordVars>>

\* block_copy_resident_pages_between: nothing left to copy.
AlreadyCopied(w) ==
    /\ pc[w] = "copy" /\ Item(w) \in copied
    /\ pc' = [pc EXCEPT ![w] = "copied"]
    /\ UNCHANGED <<modeVars, pushVars, executed, segVars, todo, blockVars,
                   again, blk, phase, left, ext, extUsed, decremented, status,
                   coordVars>>

\* The choice of the push, before the lock is taken.
ChooseCopy(w) ==
    LET e == Shares(w, "copy") /\ HasSpace("copy", PushSize \div 2)
    IN /\ pc[w] = "copy" /\ Item(w) \notin copied
       /\ pc' = [pc EXCEPT ![w] = "acquire"]
       /\ ext' = [ext EXCEPT ![w] = e]
       /\ extUsed' = [extUsed EXCEPT ![w] = @ \/ e]
       /\ left' = [left EXCEPT ![w] = CopyPages]
       /\ UNCHANGED <<modeVars, pushVars, executed, segVars, todo, blockVars,
                      again, blk, phase, decremented, status, coordVars>>

\* Mutant of Fits: the test under the lock is left out.
FitsUnchecked(k) == TRUE

\* The second test, under the lock.
Fits(k) == HasSpace(k, PushSize \div 4)

\* The block's tracker is acquired.
AcquireCopy(w) ==
    /\ pc[w] = "acquire" /\ (ext[w] => Fits("copy"))
    /\ Append(w, CopyPush(w), 0, Dependencies(w))
    /\ pc' = [pc EXCEPT ![w] = "pages"]
    /\ UNCHANGED <<modeVars, ends, executed, segVars, todo, blockVars, again,
                   blk, phase, left, ext, extUsed, decremented, status,
                   coordVars>>

\* No room under the lock: a private push instead.
FallBack(w) ==
    /\ pc[w] = "acquire" /\ ext[w] /\ ~Fits("copy")
    /\ ext' = [ext EXCEPT ![w] = FALSE]
    /\ UNCHANGED <<modeVars, pushVars, executed, segVars, todo, blockVars,
                   again, pc, blk, phase, left, extUsed, decremented, status,
                   coordVars>>

CopyPage(w) ==
    /\ pc[w] = "pages" /\ left[w] > 0
    /\ Append(w, CopyPush(w), 1, {})
    /\ left' = [left EXCEPT ![w] = @ - 1]
    /\ UNCHANGED <<modeVars, ends, executed, segVars, todo, blockVars, again,
                   pc, blk, phase, ext, extUsed, decremented, status,
                   coordVars>>

\* The end of the copy: a private push is ended, and the push is tracked.
TrackCopy(w) ==
    LET e == IF ext[w] THEN ends ELSE [ends EXCEPT ![CopyPush(w)] = @ + 1]
    IN /\ pc[w] = "pages" /\ left[w] = 0
       /\ ends' = e
       /\ tracker' = [tracker EXCEPT ![blk[w]] = @ \cup Entry(CopyPush(w), e)]
       /\ copied' = copied \cup {Item(w)}
       /\ pc' = [pc EXCEPT ![w] = "copied"]
       /\ UNCHANGED <<modeVars, used, work, acquired, late, executed, segVars,
                      todo, mapped, again, blk, phase, left, ext, extUsed,
                      decremented, status, coordVars>>

\* atomic_dec_and_test of copy_done_counter, and uvm_push_end by the last.
CopyDone ==
    /\ counter' = counter - 1
    /\ IF counter = 1
       THEN /\ ends' = [ends EXCEPT ![Shared("copy")] = @ + 1]
            /\ pushedEnd' = TRUE
       ELSE UNCHANGED <<ends, pushedEnd>>

\* Only blocks that used the shared copy push count.
Participates(w) == Counts(w) /\ extUsed[w]

\* Mutant of LastPhase: one round too many.
LastPhaseLate(w) == phase[w] > Residencies[blk[w]]

LastPhase(w) == phase[w] = Residencies[blk[w]]

\* Mutant of CopiesDone: the block counts in every round.
CopiesDoneEarly(w) == Participates(w)

\* No residency of the block is left that could append copies.
CopiesDone(w) == Participates(w) /\ LastPhase(w)

\* The copies of a residency are through.
CountCopy(w) ==
    LET counts == CopiesDone(w)
    IN /\ pc[w] = "copied"
       /\ IF counts THEN CopyDone ELSE UNCHANGED <<ends, segVars>>
       /\ decremented' = [decremented EXCEPT ![w] = @ \/ counts]
       /\ pc' = [pc EXCEPT ![w] = "map"]
       /\ UNCHANGED <<modeVars, used, work, acquired, late, executed, todo,
                      blockVars, again, blk, phase, left, ext, extUsed, status,
                      coordVars>>

\* block_map_gpu_to: the choice of the push; one that splits a 2M page is
\* private.
ChooseMap(w) ==
    /\ pc[w] = "map" /\ Item(w) \notin mapped
    /\ \E split2m \in BOOLEAN :
          ext' = [ext EXCEPT ![w] = /\ Shares(w, "map")
                                    /\ ~split2m
                                    /\ HasSpace("map", PushSize \div 2)]
    /\ pc' = [pc EXCEPT ![w] = "write"]
    /\ UNCHANGED <<modeVars, pushVars, executed, segVars, todo, blockVars,
                   again, blk, phase, left, extUsed, decremented, status,
                   coordVars>>

\* The next residency, or the end of the block.
NextPhase(w) ==
    IF LastPhase(w)
    THEN Break(w, "ok") /\ UNCHANGED phase
    ELSE /\ pc' = [pc EXCEPT ![w] = "copy"]
         /\ phase' = [phase EXCEPT ![w] = @ + 1]
         /\ UNCHANGED status

\* The PTE writes, all under the lock or all in a private push.
WriteMap(w) ==
    LET p == IF ext[w] /\ Fits("map") THEN Shared("map")
                                      ELSE Private("map", Item(w))
        e == IF p = Shared("map") THEN ends ELSE [ends EXCEPT ![p] = @ + 1]
    IN /\ pc[w] = "write"
       /\ Append(w, p, MapUnits, Dependencies(w))
       /\ ends' = e
       /\ tracker' = [tracker EXCEPT ![blk[w]] = @ \cup Entry(p, e)]
       /\ mapped' = mapped \cup {Item(w)}
       /\ NextPhase(w)
       /\ UNCHANGED <<modeVars, executed, segVars, todo, copied, again, blk,
                      left, ext, extUsed, decremented, coordVars>>

AlreadyMapped(w) ==
    /\ pc[w] = "map" /\ Item(w) \in mapped
    /\ NextPhase(w)
    /\ UNCHANGED <<modeVars, pushVars, executed, segVars, todo, blockVars,
                   again, blk, left, ext, extUsed, decremented, coordVars>>

\* The end of the round: a block that used the push and has not counted yet
\* counts now.  UVM_VA_BLOCK_RETRY_LOCKED repeats the round, with its
\* merge_ext counters as they are.
Leave(w) ==
    LET counts == Participates(w) /\ ~decremented[w]
        more   == status[w] = "more"
    IN /\ pc[w] = "leave"
       /\ IF counts THEN CopyDone ELSE UNCHANGED <<ends, segVars>>
       /\ pc' = [pc EXCEPT ![w] = IF more THEN "copy" ELSE "idle"]
       /\ blk' = IF more THEN blk ELSE [blk EXCEPT ![w] = NoBlock]
       /\ phase' = [phase EXCEPT ![w] = 1]
       /\ left' = [left EXCEPT ![w] = 0]
       /\ ext' = [ext EXCEPT ![w] = FALSE]
       /\ extUsed' = IF more THEN extUsed ELSE [extUsed EXCEPT ![w] = FALSE]
       /\ decremented' = [decremented EXCEPT ![w] = FALSE]
       /\ status' = [status EXCEPT ![w] = "ok"]
       /\ again' = IF more /\ (counts \/ decremented[w])
                   THEN again \cup {blk[w]} ELSE again
       /\ failed' = (failed \/ status[w] = "error")
       /\ UNCHANGED <<modeVars, used, work, acquired, late, executed, todo,
                      blockVars, coord, mishaps, timedOut>>

-----------------------------------------------------------------------------
(* The coordinator and the GPU. *)

\* The blocks that are not claimed or still serviced: items_remaining.
Unfinished == todo \cup {blk[w] : w \in {v \in Workers : pc[v] # "idle"}}

\* all_done is completed.
DispatchDone ==
    /\ coord = "dispatch" /\ Unfinished = {}
    /\ coord' = "copy"
    /\ UNCHANGED <<modeVars, pushVars, executed, segVars, todo, blockVars, again,
                   workVars, failed, mishaps, timedOut>>

\* The completion has not come within 30 seconds: the dispatch fails, with its
\* workers still running.
TimeOut ==
    /\ coord = "dispatch"
    /\ Unfinished # {} /\ Cardinality(Unfinished) <= MaxOverdue
    /\ mishaps < MaxMishaps /\ mishaps' = mishaps + 1
    /\ timedOut' = TRUE /\ failed' = TRUE
    /\ coord' = "copy"
    /\ UNCHANGED <<modeVars, pushVars, executed, segVars, todo, blockVars, again,
                   workVars>>

\* Mutant of CloseCopy: the copy push is ended whoever ended it before.
CloseCopyAlways ==
    /\ coord = "copy"
    /\ ends' = [ends EXCEPT ![Shared("copy")] = @ + 1]
    /\ coord' = "map"
    /\ UNCHANGED <<modeVars, used, work, acquired, late, executed, segVars, todo,
                   blockVars, again, workVars, failed, mishaps, timedOut>>

\* Whatever the dispatch returned, the copy push is ended now, unless a worker
\* has ended it.
CloseCopy ==
    /\ coord = "copy"
    /\ ends' = IF split /\ Merged # {} /\ pushedEnd THEN ends
               ELSE [ends EXCEPT ![Shared("copy")] = @ + 1]
    /\ coord' = "map"
    /\ UNCHANGED <<modeVars, used, work, acquired, late, executed, segVars, todo,
                   blockVars, again, workVars, failed, mishaps, timedOut>>

CloseMap ==
    /\ coord = "map"
    /\ ends' = [ends EXCEPT ![Shared("map")] = @ + 1]
    /\ coord' = "replay"
    /\ UNCHANGED <<modeVars, used, work, acquired, late, executed, segVars, todo,
                   blockVars, again, workVars, failed, mishaps, timedOut>>

\* The batch's tracker is the union of those of its items; the replay acquires
\* it.  A batch that failed is cancelled instead.
PushReplay ==
    /\ coord = "replay"
    /\ coord' = "done"
    /\ IF failed THEN UNCHANGED <<ends, acquired>>
       ELSE /\ ends' = [ends EXCEPT ![ReplayPush] = @ + 1]
            /\ acquired' = [acquired EXCEPT ![ReplayPush] =
                                UNION {tracker[b] : b \in Blocks}]
    /\ UNCHANGED <<modeVars, used, work, late, executed, segVars, todo, blockVars,
                   again, workVars, failed, mishaps, timedOut>>

\* The GPU executes a push.
Execute(p) ==
    /\ ends[p] > 0 /\ p \notin executed
    /\ acquired[p] \subseteq executed
    /\ executed' = executed \cup {p}
    /\ UNCHANGED <<modeVars, pushVars, segVars, todo, blockVars, again,
                   workVars, coordVars>>

-----------------------------------------------------------------------------
Worker(w) ==
    \/ Claim(w) \/ SkipDead(w) \/ NeedsRetry(w) \/ Fails(w)
    \/ AlreadyCopied(w) \/ ChooseCopy(w) \/ AcquireCopy(w) \/ FallBack(w)
    \/ CopyPage(w) \/ TrackCopy(w) \/ CountCopy(w)
    \/ ChooseMap(w) \/ WriteMap(w) \/ AlreadyMapped(w) \/ Leave(w)

Coordinator == DispatchDone \/ TimeOut \/ CloseCopy \/ CloseMap \/ PushReplay

\* The segment's pushes are open and the counter holds the number of blocks
\* that may share the copy push.
Init ==
    /\ \E m \in Modes : shareCopy = m[1] /\ split = m[2] /\ heavy = m[3]
    /\ \E f \in Fills : used = [k \in Kinds |-> f]
    /\ ends = [p \in Pushes |-> 0]
    /\ work = [p \in Pushes |-> {}] /\ acquired = [p \in Pushes |-> {}]
    /\ executed = {} /\ late = {}
    /\ counter = IF split THEN Cardinality(Merged) ELSE 0
    /\ pushedEnd = FALSE
    /\ todo = Blocks /\ tracker = [b \in Blocks |-> {}]
    /\ copied = {} /\ mapped = {} /\ again = {}
    /\ pc = [w \in Workers |-> "idle"]
    /\ blk = [w \in Workers |-> NoBlock]
    /\ phase = [w \in Workers |-> 1] /\ left = [w \in Workers |-> 0]
    /\ ext = [w \in Workers |-> FALSE] /\ extUsed = [w \in Workers |-> FALSE]
    /\ decremented = [w \in Workers |-> FALSE]
    /\ status = [w \in Workers |-> "ok"]
    /\ coord = "dispatch" /\ failed = FALSE /\ mishaps = 0 /\ timedOut = FALSE

Next ==
    \/ \E w \in Workers : Worker(w)
    \/ Coordinator
    \/ \E p \in Pushes : Execute(p)

Spec == Init /\ [][Next]_vars

-----------------------------------------------------------------------------
TypeOK ==
    /\ shareCopy \in BOOLEAN /\ split \in BOOLEAN /\ heavy \subseteq Blocks
    /\ used \in [Kinds -> Nat] /\ ends \in [Pushes -> Nat]
    /\ work \in [Pushes -> SUBSET Items]
    /\ acquired \in [Pushes -> SUBSET Pushes]
    /\ executed \subseteq Pushes /\ late \subseteq Items
    /\ counter \in Int /\ pushedEnd \in BOOLEAN
    /\ todo \subseteq Blocks /\ again \subseteq Blocks
    /\ tracker \in [Blocks -> SUBSET Pushes]
    /\ copied \subseteq Items /\ mapped \subseteq Items
    /\ pc \in [Workers -> {"idle", "copy", "acquire", "pages", "copied", "map",
                           "write", "leave"}]
    /\ blk \in [Workers -> Blocks \cup {NoBlock}]
    /\ phase \in [Workers -> Nat]
    /\ \A w \in Workers : pc[w] # "idle" => Item(w) \in Items
    /\ left \in [Workers -> 0 .. CopyPages]
    /\ ext \in [Workers -> BOOLEAN] /\ extUsed \in [Workers -> BOOLEAN]
    /\ decremented \in [Workers -> BOOLEAN]
    /\ status \in [Workers -> {"ok", "more", "error"}]
    /\ coord \in {"dispatch", "copy", "map", "replay", "done"}
    /\ failed \in BOOLEAN /\ mishaps \in Nat /\ timedOut \in BOOLEAN

\* No push of the segment is left open, whoever ends the copy push, and none is
\* ended twice but by one race: with copy/map split and after a timed-out
\* dispatch the coordinator ends the copy push, and so does the worker that
\* takes copy_done_counter to 0 later.
PushesEndedOnce ==
    /\ \A p \in Pushes :
          ends[p] <= IF p = Shared("copy") /\ split /\ timedOut THEN 2 ELSE 1
    /\ coord \in {"replay", "done"} => \A k \in Kinds : ends[Shared(k)] >= 1

\* The PTE writes never run over the end of the shared map push, however many
\* workers have passed the test without the lock.
MapPushFits == used["map"] <= PushSize

\* The commands of an item were executed as part of a push of this kind.
Ran(k, i) == \E p \in executed : p[1] = k /\ i \in work[p]

\* A PTE is written only after the page was copied, where the copy went
\* through a private push; a replay comes after all private pushes.
PrivateInOrder ==
    /\ \A i \in Items : Ran("map", i) /\ i \in work[Private("copy", i)] => Ran("copy", i)
    /\ ReplayPush \in executed =>
          \A i \in Items, k \in Kinds :
              i \in work[Private(k, i)] => Private(k, i) \in executed

\* A PTE is written only after the page was copied.
MappedMeansCopied == \A i \in Items : Ran("map", i) => i \notin copied \/ Ran("copy", i)

\* Every copy and every PTE write reaches the GPU.  Commands are appended to a
\* push that was ended only after a timed-out dispatch, or when a block is
\* serviced again after it counted; all others are in pushes that were ended
\* when the segment is done, and no push waits for one that waits for it.
AllWorkRuns ==
    /\ late # {} => timedOut \/ again # {}
    /\ coord = "done"
       /\ (\A p \in Pushes : ends[p] > 0 /\ acquired[p] \subseteq executed
                                => p \in executed)
       => /\ \A i \in copied : Ran("copy", i) \/ i \in late
          /\ \A i \in mapped : Ran("map", i) \/ i \in late
          /\ failed \/ ReplayPush \in executed
=============================================================================
