----------------------------- MODULE FaultBatch -----------------------------
(***************************************************************************)
(* service_fault_batch_parallel of uvm_gpu_replayable_faults.c: phase 1 walks *)
(* the sorted faults and groups them by VA block under the va_space read lock *)
(* and mmap_lock, a small batch is then serviced inline by the coordinator, a  *)
(* larger one is dispatched to the kthread pool without those locks, and       *)
(* phase 3 issues the replay of the BLOCK policy.                              *)
(*                                                                         *)
(* The parallel context and its pool exist; uvm_parallel_fault_processing     *)
(* keeps its value during a batch.                                            *)
(***************************************************************************)
EXTENDS Integers, Sequences, FiniteSets

CONSTANTS
    VaSpaces,       \* va_spaces that fault
    NoSpace,        \* no va_space yet
    Blocks,         \* VA blocks of each va_space, in address order: 1 .. Blocks
    MaxFaults,      \* bound: faults in a batch
    MaxBlocks,      \* UVM_PARALLEL_FAULT_MAX_BLOCKS
    BlockThreshold, \* uvm_parallel_block_threshold, 0 = never inline
    FindMayFail,    \* may uvm_va_block_find_create_in_range fail?
    MmMayBeGone     \* may uvm_va_space_mm_retain_lock find no mm?

ASSUME BatchAssumption ==
    /\ NoSpace \notin VaSpaces
    /\ Blocks \in Nat \ {0} /\ MaxFaults \in Nat \ {0} /\ MaxBlocks \in Nat \ {0}
    /\ BlockThreshold \in Nat
    /\ FindMayFail \in BOOLEAN /\ MmMayBeGone \in BOOLEAN

NoBlock == 0
Fault == [vs : VaSpaces, block : 1 .. Blocks, fatal : BOOLEAN, mapped : BOOLEAN]

\* ordered_fault_cache is sorted: faults of one va_space, and of one block in it,
\* are neighbours.  mapped: the address lies in a va_range.
Ordered(f) ==
    \A a, b \in DOMAIN f : a < b /\ f[a].vs = f[b].vs =>
        /\ f[a].block <= f[b].block
        /\ \A c \in a .. b : f[c].vs = f[a].vs
        /\ f[a].block = f[b].block => f[a].mapped = f[b].mapped
FaultCaches == UNION {{f \in [1 .. n -> Fault] : Ordered(f)} : n \in 1 .. MaxFaults}

VARIABLES
    pc, faults, registered, \* va_spaces with a gpu_va_space for this GPU
    replay_per_va_block,
    i,                      \* the loop index (fault i is ordered_fault_cache[i - 1])
    va_space, gpu_va_space, mm, snapshot,
    current_block, current_block_first_fault, current_block_fault_count,
    groups, fatal_va_space, status, replayed,
    next_group,             \* the inline loop's fb_i
    (* locks and references the coordinator holds *)
    read_locked, mmap_locked, mm_retained,
    (* history: how each group was serviced; faults whose block was not created *)
    results, refused

inputVars == <<faults, registered, replay_per_va_block>>
spaceVars == <<va_space, gpu_va_space, mm, snapshot>>
blockVars == <<current_block, current_block_first_fault, current_block_fault_count>>
lockVars == <<read_locked, mmap_locked, mm_retained>>
outVars == <<fatal_va_space, status, replayed, next_group, results, refused>>
vars == <<pc, inputVars, i, spaceVars, blockVars, groups, lockVars, outVars>>

Init ==
    /\ pc = "idle" /\ faults = <<>> /\ registered = {} /\ replay_per_va_block = FALSE
    /\ i = 1 /\ va_space = NoSpace /\ gpu_va_space = FALSE /\ mm = FALSE
    /\ snapshot = NoSpace
    /\ current_block = NoBlock
    /\ current_block_first_fault = 0 /\ current_block_fault_count = 0
    /\ groups = <<>> /\ fatal_va_space = NoSpace /\ status = "NV_OK"
    /\ replayed = FALSE /\ next_group = 1 /\ results = <<>> /\ refused = {}
    /\ read_locked = {} /\ mmap_locked = {} /\ mm_retained = {}

BeginBatch(f, reg, block_policy) ==
    /\ pc' = "group" /\ faults' = f /\ registered' = reg
    /\ replay_per_va_block' = block_policy
    /\ UNCHANGED <<i, spaceVars, blockVars, groups, lockVars, outVars>>
-----------------------------------------------------------------------------
(* Phase 1: grouping. *)

current_entry == faults[i]
Grouping == pc = "group" /\ i <= Len(faults)

\* mutant: no capacity check
FlushedUnbounded ==
    IF current_block # NoBlock /\ current_block_fault_count > 0
    THEN Append(groups, [vs |-> va_space, block |-> current_block,
                         first |-> current_block_first_fault,
                         num_faults |-> current_block_fault_count])
    ELSE groups

\* The groups once the current block's group is added; a group past the capacity
\* is dropped
Flushed ==
    IF current_block # NoBlock /\ current_block_fault_count > 0 /\ Len(groups) < MaxBlocks
    THEN Append(groups, [vs |-> va_space, block |-> current_block,
                         first |-> current_block_first_fault,
                         num_faults |-> current_block_fault_count])
    ELSE groups

\* The next fault is of another va_space: its locks replace the old one's.  The
\* fault itself is skipped when that va_space has no gpu_va_space here.
SwitchSpace(has_mm) ==
    LET vs == current_entry.vs
        Held(s) == (s \ {va_space}) \cup (IF has_mm THEN {vs} ELSE {})
    IN  /\ Grouping
        /\ vs # va_space
        /\ groups' = Flushed
        /\ current_block' = NoBlock /\ current_block_fault_count' = 0
        /\ va_space' = vs /\ mm' = has_mm
        /\ read_locked' = (read_locked \ {va_space}) \cup {vs}
        /\ mmap_locked' = Held(mmap_locked)
        /\ mm_retained' = Held(mm_retained)
        /\ gpu_va_space' = (vs \in registered)
        /\ IF vs \in registered THEN snapshot' = vs /\ UNCHANGED i
           ELSE i' = i + 1 /\ UNCHANGED snapshot
        /\ UNCHANGED <<pc, inputVars, current_block_first_fault, outVars>>

SameSpace == Grouping /\ current_entry.vs = va_space

MarkFatal ==
    /\ SameSpace
    /\ current_entry.fatal
    /\ fatal_va_space' = IF fatal_va_space = NoSpace THEN va_space ELSE fatal_va_space
    /\ i' = i + 1
    /\ UNCHANGED <<pc, inputVars, spaceVars, blockVars, groups, lockVars, status,
                   replayed, next_group, results, refused>>

SkipUnregistered ==
    /\ SameSpace
    /\ ~current_entry.fatal
    /\ ~gpu_va_space
    /\ i' = i + 1
    /\ UNCHANGED <<pc, inputVars, spaceVars, blockVars, groups, lockVars, outVars>>

Serviceable == SameSpace /\ ~current_entry.fatal /\ gpu_va_space

\* The address lies in the current block
CountFault ==
    /\ Serviceable
    /\ current_entry.block = current_block
    /\ current_block_fault_count' = current_block_fault_count + 1
    /\ i' = i + 1
    /\ UNCHANGED <<pc, inputVars, spaceVars, current_block, current_block_first_fault,
                   groups, lockVars, outVars>>

NewBlock == Serviceable /\ current_entry.block # current_block

\* No va_range contains the address, or its block cannot be created
SkipFault(ok) ==
    /\ NewBlock
    /\ ~current_entry.mapped \/ ~ok
    /\ status' = IF current_entry.mapped THEN "NV_ERR_NO_MEMORY" ELSE status
    /\ refused' = IF current_entry.mapped THEN refused \cup {i} ELSE refused
    /\ i' = i + 1
    /\ UNCHANGED <<pc, inputVars, spaceVars, blockVars, groups, lockVars,
                   fatal_va_space, replayed, next_group, results>>

\* mutant: the first fault of the previous block is kept
StartGroupStaleFirst ==
    /\ NewBlock
    /\ current_entry.mapped
    /\ groups' = Flushed
    /\ current_block' = current_entry.block
    /\ current_block_fault_count' = 1
    /\ status' = "NV_OK"
    /\ i' = i + 1
    /\ UNCHANGED <<pc, inputVars, spaceVars, current_block_first_fault, lockVars,
                   fatal_va_space, replayed, next_group, results, refused>>

\* uvm_va_block_find_create_in_range found the block: its status is NV_OK
StartGroup ==
    /\ NewBlock
    /\ current_entry.mapped
    /\ groups' = Flushed
    /\ current_block' = current_entry.block
    /\ current_block_first_fault' = i
    /\ current_block_fault_count' = 1
    /\ status' = "NV_OK"
    /\ i' = i + 1
    /\ UNCHANGED <<pc, inputVars, spaceVars, lockVars, fatal_va_space, replayed,
                   next_group, results, refused>>

Inline(gs) == Len(gs) \in 1 .. BlockThreshold

\* mutant: the locks are still held when the workers are dispatched
EndGroupingLocked ==
    /\ pc = "group"
    /\ i > Len(faults)
    /\ groups' = Flushed
    /\ pc' = IF Inline(groups') THEN "inline" ELSE "dispatch"
    /\ UNCHANGED <<inputVars, i, spaceVars, blockVars, lockVars, outVars>>

\* The last group.  A few groups are serviced here, under phase 1's locks; for the
\* pool the coordinator drops the locks and keeps the mm.
EndGrouping ==
    /\ pc = "group"
    /\ i > Len(faults)
    /\ groups' = Flushed
    /\ IF Inline(groups')
       THEN pc' = "inline" /\ UNCHANGED lockVars
       ELSE /\ pc' = "dispatch"
            /\ read_locked' = read_locked \ {va_space}
            /\ mmap_locked' = mmap_locked \ {va_space}
            /\ UNCHANGED mm_retained
    /\ UNCHANGED <<inputVars, i, spaceVars, blockVars, outVars>>
-----------------------------------------------------------------------------
(* Phase 2 and phase 3. *)

\* What service_block_faults_kthread returns; all other errors (NV_ERR_INVALID_STATE,
\* those of the va_block and of its tracker) are treated like the second.
ServiceStatus == {"NV_OK", "NV_WARN_MORE_PROCESSING_REQUIRED"}

\* Merging a tracker (uvm_tracker_add_tracker_safe) or pushing the replay
PushStatus == {"NV_OK", "NV_ERR_NO_MEMORY"}

\* One group of the inline loop: serviced with status s, its tracker merged with
\* status ts.  The first error is kept, one of phase 1 included.
InlineGroup(s, ts) ==
    /\ pc = "inline"
    /\ next_group <= Len(groups)
    /\ results' = Append(results, s)
    /\ status' = IF status # "NV_OK" THEN status ELSE IF s # "NV_OK" THEN s ELSE ts
    /\ next_group' = next_group + 1
    /\ UNCHANGED <<pc, inputVars, i, spaceVars, blockVars, groups, lockVars,
                   fatal_va_space, replayed, refused>>

InlineDone ==
    /\ pc = "inline"
    /\ next_group > Len(groups)
    /\ read_locked' = read_locked \ {va_space}
    /\ mmap_locked' = mmap_locked \ {va_space}
    /\ mm_retained' = mm_retained \ {va_space}
    /\ pc' = "replay"
    /\ UNCHANGED <<inputVars, i, spaceVars, blockVars, groups, outVars>>

\* uvm_kthread_dispatch_and_wait returned.  Its status, which replaces one of phase
\* 1, is NV_OK only if every group was serviced without an error (BatchService);
\* an error may also be that of a tracker or of the 30 s timeout.
DispatchReturns(r, s) ==
    /\ pc = "dispatch"
    /\ s = "NV_OK" => \A k \in DOMAIN r : r[k] = "NV_OK"
    /\ groups = <<>> => s = "NV_OK"
    /\ results' = r
    /\ status' = s
    /\ mm_retained' = mm_retained \ {va_space}
    /\ pc' = "replay"
    /\ UNCHANGED <<inputVars, i, spaceVars, blockVars, groups, read_locked,
                   mmap_locked, fatal_va_space, replayed, next_group, refused>>

\* mutant: the replay does not wait for a clean batch
ReplayAlways(s) ==
    LET due == replay_per_va_block /\ groups # <<>>
    IN  /\ pc = "replay"
        /\ replayed' = (due /\ s = "NV_OK")
        /\ status' = IF due THEN s ELSE status
        /\ pc' = "return"
        /\ UNCHANGED <<inputVars, i, spaceVars, blockVars, groups, lockVars,
                       fatal_va_space, next_group, results, refused>>

\* Phase 3: push_replay_on_gpu returns s.  replayed: the replay was pushed and
\* batch_id incremented.
Replay(s) ==
    LET due == /\ replay_per_va_block
               /\ fatal_va_space = NoSpace
               /\ status = "NV_OK"
               /\ groups # <<>>
    IN  /\ pc = "replay"
        /\ replayed' = (due /\ s = "NV_OK")
        /\ status' = IF due THEN s ELSE status
        /\ pc' = "return"
        /\ UNCHANGED <<inputVars, i, spaceVars, blockVars, groups, lockVars,
                       fatal_va_space, next_group, results, refused>>

\* return status: the locals go out of scope
ReturnStatus ==
    /\ pc = "return"
    /\ pc' = "idle" /\ faults' = <<>> /\ registered' = {} /\ replay_per_va_block' = FALSE
    /\ i' = 1 /\ va_space' = NoSpace /\ gpu_va_space' = FALSE /\ mm' = FALSE
    /\ snapshot' = NoSpace
    /\ current_block' = NoBlock
    /\ current_block_first_fault' = 0 /\ current_block_fault_count' = 0
    /\ groups' = <<>> /\ fatal_va_space' = NoSpace /\ status' = "NV_OK"
    /\ replayed' = FALSE /\ next_group' = 1 /\ results' = <<>> /\ refused' = {}
    /\ UNCHANGED lockVars

Next ==
    \/ /\ pc = "idle"
       /\ \E f \in FaultCaches, reg \in SUBSET VaSpaces, block_policy \in BOOLEAN :
             BeginBatch(f, reg, block_policy)
    \/ \E has_mm \in (IF MmMayBeGone THEN BOOLEAN ELSE {TRUE}) : SwitchSpace(has_mm)
    \/ MarkFatal \/ SkipUnregistered \/ CountFault \/ StartGroup
    \/ \E ok \in (IF FindMayFail THEN BOOLEAN ELSE {TRUE}) : SkipFault(ok)
    \/ EndGrouping
    \/ \E s \in ServiceStatus, ts \in PushStatus : InlineGroup(s, ts)
    \/ InlineDone
    \/ \E r \in [DOMAIN groups -> ServiceStatus],
          s \in ServiceStatus \cup {"NV_ERR_NO_MEMORY", "NV_ERR_TIMEOUT"} : DispatchReturns(r, s)
    \/ \E s \in PushStatus : Replay(s)
    \/ ReturnStatus

Spec == Init /\ [][Next]_vars
-----------------------------------------------------------------------------
(* Properties. *)

\* Types of the call's locals; groups never outgrows parallel_ctx->groups
TypeOK ==
    /\ pc \in {"idle", "group", "inline", "dispatch", "replay", "return"}
    /\ i \in 1 .. MaxFaults + 1 /\ va_space \in VaSpaces \cup {NoSpace}
    /\ snapshot \in VaSpaces \cup {NoSpace}
    /\ gpu_va_space \in BOOLEAN /\ mm \in BOOLEAN
    /\ current_block \in 0 .. Blocks
    /\ current_block_first_fault \in 0 .. MaxFaults
    /\ current_block_fault_count \in 0 .. MaxFaults
    /\ Len(groups) <= MaxBlocks
    /\ fatal_va_space \in VaSpaces \cup {NoSpace}
    /\ read_locked \subseteq VaSpaces /\ mmap_locked \subseteq VaSpaces
    /\ mm_retained \subseteq VaSpaces
    /\ replayed \in BOOLEAN /\ next_group \in 1 .. MaxBlocks + 1

\* The fault indices a worker visits for a group: first_fault_index onward, up to
\* the first address outside the block
Visited(g) ==
    {k \in g.first .. g.first + g.num_faults - 1 :
        \A l \in g.first .. k : faults[l].vs = g.vs /\ faults[l].block = g.block}

\* No fault is given to two workers: the groups' index ranges are disjoint and in
\* order, inside the batch, and every fault of a range lies in the group's block
\* (so service_block_faults_kthread never stops early at a foreign address).
GroupsDisjoint ==
    \A k \in DOMAIN groups :
        LET g == groups[k]
        IN  /\ g.first >= 1 /\ g.first + g.num_faults - 1 <= Len(faults)
            /\ Cardinality(Visited(g)) = g.num_faults
            /\ \A l \in DOMAIN groups :
                  k < l => g.first + g.num_faults <= groups[l].first

\* Grouping loses no fault it could service, up to the capacity: after phase 1 each
\* non-fatal fault in a va_range of a registered va_space is visited for some group,
\* unless its block was refused or a fatal fault of its block comes before it (which
\* shortens the contiguous range, since num_faults counts the non-fatal ones).
EveryFaultGrouped ==
    pc \in {"inline", "dispatch"} /\ Len(groups) < MaxBlocks =>
        \A k \in DOMAIN faults :
            \/ faults[k].fatal \/ ~faults[k].mapped \/ faults[k].vs \notin registered
            \/ k \in refused
            \/ \E g \in DOMAIN groups : k \in Visited(groups[g])
            \/ \E l \in 1 .. k - 1 : /\ faults[l].fatal /\ faults[l].vs = faults[k].vs
                                     /\ faults[l].block = faults[k].block

\* Every va_space lock, mmap_lock and mm reference taken by phase 1 is given back
\* on every path out of the call; and while the coordinator waits for the pool it
\* holds neither a va_space lock nor mmap_lock: a writer queued on them would block
\* the workers' down_read behind it, and the coordinator waits for the workers.
LocksReleased ==
    /\ pc \in {"dispatch", "return", "idle"} => read_locked = {} /\ mmap_locked = {}
    /\ pc \in {"return", "idle"} => mm_retained = {}

\* The groups partition the faults that can be serviced: none is lost and none is
\* serviced for two groups.
GroupsPartition == GroupsDisjoint /\ EveryFaultGrouped

\* Phase 3 replays only a batch whose groups were all serviced without an error and
\* that had no fatal fault among those it looked at.
ReplayOnlyClean ==
    replayed => /\ Len(results) = Len(groups)
                /\ \A k \in DOMAIN results : results[k] = "NV_OK"
                /\ \A k \in DOMAIN faults :
                      faults[k].vs \in registered => ~faults[k].fatal

\* "The coordinator already holds va_space read lock and mm from Phase 1": a group
\* serviced inline runs under its own va_space's read lock, with its own va_space's
\* snapshot and mm.
InlineUnderOwnLock ==
    pc = "inline" /\ next_group <= Len(groups) =>
        LET vs == groups[next_group].vs
        IN  vs \in read_locked /\ snapshot = vs
=============================================================================
