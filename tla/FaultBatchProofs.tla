--------------------------- MODULE FaultBatchProofs ---------------------------
(***************************************************************************)
(* Proofs about service_fault_batch_parallel, for any number of va_spaces, *)
(* blocks and faults, any capacity and any inline threshold.               *)
(*                                                                         *)
(* The inductive invariant IInv has six parts, each inductive relative to  *)
(* the ones before it:                                                     *)
(*   Shape    types, and where the loop index and the current group are;   *)
(*   Locks    the locks held are those of the current va_space;            *)
(*   Current  the faults counted for the current block lie in it, without  *)
(*            a gap, except behind a fatal fault;                          *)
(*   Ranges   so do those of the finished groups, in order;                *)
(*   Covered  a fault the loop has passed is accounted for;                *)
(*   Clean    no fatal fault and no failed group is forgotten.             *)
(***************************************************************************)
EXTENDS FaultBatch, FiniteSetTheorems, TLAPS

USE DEF vars, inputVars, spaceVars, blockVars, lockVars, outVars, NoBlock

-----------------------------------------------------------------------------
(* Shape *)

Group == [vs : VaSpaces, block : 1 .. Blocks, first : 1 .. MaxFaults,
          num_faults : 1 .. MaxFaults]

Statuses == ServiceStatus \cup PushStatus \cup {"NV_ERR_TIMEOUT"}

Active == pc \in {"group", "inline", "dispatch", "replay", "return"}

InputShape ==
    /\ pc \in {"idle", "group", "inline", "dispatch", "replay", "return"}
    /\ faults \in Seq(Fault) /\ Len(faults) <= MaxFaults /\ Ordered(faults)
    /\ registered \subseteq VaSpaces
    /\ i \in 1 .. Len(faults) + 1
    /\ Active /\ pc # "group" => i = Len(faults) + 1
    /\ pc = "idle" => faults = <<>>

LocalShape ==
    /\ va_space \in VaSpaces \cup {NoSpace} /\ snapshot \in VaSpaces \cup {NoSpace}
    /\ current_block \in 0 .. Blocks
    /\ current_block_first_fault \in 0 .. MaxFaults
    /\ current_block_fault_count \in 0 .. MaxFaults
    /\ current_block = NoBlock => current_block_fault_count = 0
    /\ current_block # NoBlock =>
          /\ va_space \in VaSpaces
          /\ current_block_first_fault >= 1 /\ current_block_fault_count >= 1
          /\ current_block_first_fault + current_block_fault_count <= i
    /\ pc = "idle" => current_block = NoBlock /\ va_space = NoSpace

OutShape ==
    /\ groups \in Seq(Group) /\ Len(groups) <= MaxBlocks
    /\ results \in Seq(ServiceStatus)
    /\ fatal_va_space \in VaSpaces \cup {NoSpace} /\ status \in Statuses
    /\ next_group \in 1 .. Len(groups) + 1
    /\ refused \subseteq Nat
    /\ pc \in {"idle", "group"} => next_group = 1 /\ results = <<>>
    /\ pc = "idle" => groups = <<>>

LockShape ==
    /\ read_locked \subseteq VaSpaces /\ mmap_locked \subseteq VaSpaces
    /\ mm_retained \subseteq VaSpaces

FlagShape == gpu_va_space \in BOOLEAN /\ mm \in BOOLEAN /\ replayed \in BOOLEAN

Shape == InputShape /\ LocalShape /\ OutShape /\ LockShape /\ FlagShape

\* The ordered fault cache of a batch is a sequence of faults.
LEMMA CacheShape ==
    \A f \in FaultCaches : f \in Seq(Fault) /\ Len(f) \in 1 .. MaxFaults /\ Ordered(f)
  <1> SUFFICES ASSUME NEW n \in 1 .. MaxFaults, NEW f \in [1 .. n -> Fault], Ordered(f)
               PROVE  f \in Seq(Fault) /\ Len(f) \in 1 .. MaxFaults /\ Ordered(f)
    BY DEF FaultCaches
  <1>1. n \in Nat
    BY BatchAssumption
  <1> QED BY <1>1

\* The current group, if there is one, is the last of the groups after a flush.
LEMMA FlushedShape ==
    ASSUME Shape
    PROVE  /\ Flushed \in Seq(Group) /\ Len(Flushed) <= MaxBlocks
           /\ Len(Flushed) >= Len(groups)
           /\ \A k \in 1 .. Len(groups) : Flushed[k] = groups[k]
           /\ Len(Flushed) # Len(groups) =>
                 /\ current_block # NoBlock /\ Len(Flushed) = Len(groups) + 1
                 /\ Flushed[Len(Flushed)] =
                       [vs |-> va_space, block |-> current_block,
                        first |-> current_block_first_fault,
                        num_faults |-> current_block_fault_count]
           /\ current_block # NoBlock /\ Len(Flushed) < MaxBlocks =>
                 Len(Flushed) # Len(groups)
  <1> DEFINE g == [vs |-> va_space, block |-> current_block,
                   first |-> current_block_first_fault,
                   num_faults |-> current_block_fault_count]
  <1>1. ASSUME current_block # NoBlock PROVE g \in Group
    BY <1>1, BatchAssumption DEF Shape, LocalShape, InputShape, Group
  <1>2. CASE Flushed = groups
    BY <1>2, BatchAssumption DEF Shape, OutShape, LocalShape, Flushed
  <1>3. CASE Flushed # groups
    <2>1. Flushed = Append(groups, g) /\ current_block # NoBlock /\ Len(groups) < MaxBlocks
      BY <1>3 DEF Flushed
    <2> HIDE DEF g
    <2>2. Append(groups, g) \in Seq(Group) /\ Len(Append(groups, g)) = Len(groups) + 1
      BY <1>1, <2>1 DEF Shape, OutShape
    <2>3. Append(groups, g)[Len(groups) + 1] = g
      BY DEF Shape, OutShape
    <2>4. \A k \in 1 .. Len(groups) : Append(groups, g)[k] = groups[k]
      BY DEF Shape, OutShape
    <2>5. Len(groups) \in Nat /\ MaxBlocks \in Nat
      BY BatchAssumption DEF Shape, OutShape
    <2> QED BY <2>1, <2>2, <2>3, <2>4, <2>5 DEF g
  <1> QED BY <1>2, <1>3

\* The empty cache of an idle coordinator.
LEMMA EmptyShape ==
    /\ <<>> \in Seq(Fault) /\ Len(<<>>) = 0 /\ Ordered(<<>>)
    /\ <<>> \in Seq(Group) /\ <<>> \in Seq(ServiceStatus)
  BY DEF Ordered

LEMMA ShapeInit == Init => Shape
  <1> SUFFICES ASSUME Init PROVE Shape
    OBVIOUS
  <1>1. InputShape
    BY EmptyShape, BatchAssumption DEF Init, InputShape, Active
  <1>2. LocalShape
    BY BatchAssumption DEF Init, LocalShape
  <1>3. OutShape /\ LockShape
    BY EmptyShape, BatchAssumption
       DEF Init, OutShape, LockShape, Statuses, ServiceStatus, PushStatus
  <1>4. FlagShape
    BY Zenon DEF Init, FlagShape
  <1> QED BY <1>1, <1>2, <1>3, <1>4 DEF Shape

\* The fault at the loop index.
LEMMA EntryShape ==
    ASSUME Shape, Grouping
    PROVE  /\ i \in 1 .. Len(faults) /\ current_entry \in Fault
           /\ current_entry.vs \in VaSpaces /\ current_entry.block \in 1 .. Blocks
           /\ i \in 1 .. MaxFaults
  <1>1. i \in 1 .. Len(faults) /\ Len(faults) \in Nat /\ Len(faults) <= MaxFaults
        /\ MaxFaults \in Nat
    BY BatchAssumption DEF Shape, InputShape, Grouping
  <1>2. faults[i] \in Fault
    BY <1>1 DEF Shape, InputShape
  <1> QED BY <1>1, <1>2 DEF current_entry, Fault

\* The inputs and the loop index.
LEMMA InputStep == Shape /\ [Next]_vars => InputShape'
  <1> SUFFICES ASSUME Shape, [Next]_vars PROVE InputShape'
    OBVIOUS
  <1> USE DEF InputShape, Active
  <1>1. InputShape /\ Len(faults) \in Nat
    BY DEF Shape
  <1>2. CASE UNCHANGED vars
    BY <1>1, <1>2
  <1>3. ASSUME NEW f \in FaultCaches, NEW reg \in SUBSET VaSpaces, NEW bp \in BOOLEAN,
               pc = "idle", BeginBatch(f, reg, bp)
        PROVE  InputShape'
    <2>1. f \in Seq(Fault) /\ Len(f) \in 1 .. MaxFaults /\ Ordered(f)
      BY CacheShape
    <2>2. i = 1
      BY <1>1, <1>3, EmptyShape
    <2> QED BY <1>3, <2>1, <2>2, BatchAssumption DEF BeginBatch
  <1>4. ASSUME UNCHANGED <<pc, inputVars>>, Grouping, i' \in {i, i + 1} PROVE InputShape'
    BY <1>1, <1>4 DEF Grouping
  <1>5. ASSUME NEW has_mm, SwitchSpace(has_mm) PROVE InputShape'
    <2>1. UNCHANGED <<pc, inputVars>> /\ Grouping /\ i' \in {i, i + 1}
      BY <1>5 DEF SwitchSpace
    <2> QED BY <1>4, <2>1
  <1>6. CASE MarkFatal \/ SkipUnregistered \/ CountFault \/ StartGroup
    <2>1. UNCHANGED <<pc, inputVars>> /\ Grouping /\ i' \in {i, i + 1}
      BY <1>6 DEF MarkFatal, SkipUnregistered, CountFault, StartGroup, SameSpace,
                  NewBlock, Serviceable
    <2> QED BY <1>4, <2>1
  <1>7. ASSUME NEW ok, SkipFault(ok) PROVE InputShape'
    <2>1. UNCHANGED <<pc, inputVars>> /\ Grouping /\ i' \in {i, i + 1}
      BY <1>7 DEF SkipFault, SameSpace, NewBlock, Serviceable
    <2> QED BY <1>4, <2>1
  <1>8. CASE EndGrouping
    <2>1. pc = "group" /\ pc' \in {"inline", "dispatch"} /\ UNCHANGED <<inputVars, i>>
          /\ i > Len(faults)
      BY <1>8 DEF EndGrouping
    <2> QED BY <1>1, <2>1
  <1>9. ASSUME UNCHANGED <<inputVars, i>>, pc \in {"inline", "dispatch", "replay"},
               pc' \in {"inline", "replay", "return"}
        PROVE  InputShape'
    BY <1>1, <1>9
  <1>10. ASSUME NEW s, NEW ts, InlineGroup(s, ts) PROVE InputShape'
    BY <1>9, <1>10 DEF InlineGroup
  <1>11. CASE InlineDone
    BY <1>9, <1>11 DEF InlineDone
  <1>12. ASSUME NEW r, NEW s, DispatchReturns(r, s) PROVE InputShape'
    BY <1>9, <1>12 DEF DispatchReturns
  <1>13. ASSUME NEW s, Replay(s) PROVE InputShape'
    BY <1>9, <1>13 DEF Replay
  <1>14. CASE ReturnStatus
    BY <1>14, EmptyShape, BatchAssumption DEF ReturnStatus
  <1> QED BY <1>2, <1>3, <1>5, <1>6, <1>7, <1>8, <1>10, <1>11, <1>12, <1>13, <1>14 DEF Next

\* The current va_space and the current group.
LEMMA LocalStep == Shape /\ [Next]_vars => LocalShape'
  <1> SUFFICES ASSUME Shape, [Next]_vars PROVE LocalShape'
    OBVIOUS
  <1> USE DEF LocalShape
  <1>1. LocalShape /\ i \in Nat
    BY DEF Shape, InputShape
  <1>2. CASE UNCHANGED vars
    BY <1>1, <1>2
  <1>3. ASSUME UNCHANGED <<spaceVars, blockVars, i>>, pc' # "idle" PROVE LocalShape'
    BY <1>1, <1>3
  <1>4. ASSUME UNCHANGED <<spaceVars, blockVars>>, i' = i + 1, pc' # "idle" PROVE LocalShape'
    BY <1>1, <1>4
  <1>5. ASSUME NEW f, NEW reg, NEW bp, pc = "idle", BeginBatch(f, reg, bp) PROVE LocalShape'
    BY <1>3, <1>5 DEF BeginBatch
  <1>6. ASSUME NEW has_mm, SwitchSpace(has_mm) PROVE LocalShape'
    <2>1. Grouping /\ current_entry.vs \in VaSpaces
      BY <1>6, EntryShape DEF SwitchSpace
    <2>2. /\ current_block' = 0 /\ current_block_fault_count' = 0 /\ pc' = "group"
          /\ va_space' = current_entry.vs
          /\ snapshot' \in {snapshot, current_entry.vs}
          /\ UNCHANGED current_block_first_fault
      BY <1>6, <2>1 DEF SwitchSpace, Grouping
    <2> QED BY <1>1, <2>1, <2>2, BatchAssumption
  <1>7. CASE MarkFatal \/ SkipUnregistered
    BY <1>4, <1>7 DEF MarkFatal, SkipUnregistered, SameSpace, Grouping
  <1>8. CASE CountFault
    <2>1. /\ UNCHANGED <<spaceVars, current_block, current_block_first_fault>>
          /\ i' = i + 1 /\ current_block_fault_count' = current_block_fault_count + 1
          /\ pc' = "group" /\ current_entry.block = current_block /\ Grouping
      BY <1>8 DEF CountFault, Serviceable, SameSpace, Grouping
    <2>2. current_block # 0 /\ i <= MaxFaults
      BY <2>1, EntryShape
    <2>3. current_block_fault_count + 1 \in 0 .. MaxFaults
      BY <1>1, <2>2, BatchAssumption
    <2> QED BY <1>1, <2>1, <2>2, <2>3
  <1>9. CASE StartGroup
    <2>1. /\ UNCHANGED spaceVars /\ i' = i + 1 /\ current_block_fault_count' = 1
          /\ current_block_first_fault' = i /\ current_block' = current_entry.block
          /\ pc' = "group" /\ Grouping /\ va_space = current_entry.vs
      BY <1>9 DEF StartGroup, NewBlock, Serviceable, SameSpace, Grouping
    <2>2. current_entry.block \in 1 .. Blocks /\ i \in 1 .. MaxFaults /\ va_space \in VaSpaces
      BY <2>1, EntryShape
    <2> QED BY <1>1, <2>1, <2>2, BatchAssumption
  <1>10. ASSUME NEW ok, SkipFault(ok) PROVE LocalShape'
    BY <1>4, <1>10 DEF SkipFault, NewBlock, Serviceable, SameSpace, Grouping
  <1>11. CASE EndGrouping \/ InlineDone
    BY <1>3, <1>11 DEF EndGrouping, InlineDone
  <1>12. ASSUME NEW s, NEW ts, InlineGroup(s, ts) PROVE LocalShape'
    BY <1>3, <1>12 DEF InlineGroup
  <1>13. ASSUME NEW r, NEW s, DispatchReturns(r, s) \/ Replay(s) PROVE LocalShape'
    BY <1>3, <1>13 DEF DispatchReturns, Replay
  <1>14. CASE ReturnStatus
    BY <1>14, BatchAssumption DEF ReturnStatus
  <1> QED BY <1>2, <1>5, <1>6, <1>7, <1>8, <1>9, <1>10, <1>11, <1>12, <1>13, <1>14 DEF Next

\* The groups, the results and the status.
LEMMA OutStep == Shape /\ [Next]_vars => OutShape'
  <1> SUFFICES ASSUME Shape, [Next]_vars PROVE OutShape'
    OBVIOUS
  <1> USE DEF OutShape
  <1>1. OutShape /\ Len(groups) \in Nat
    BY DEF Shape
  <1>2. CASE UNCHANGED vars
    BY <1>1, <1>2
  <1>3. ASSUME NEW f, NEW reg, NEW bp, pc = "idle", BeginBatch(f, reg, bp) PROVE OutShape'
    BY <1>1, <1>3 DEF BeginBatch
  <1>4. ASSUME groups' = Flushed, UNCHANGED <<next_group, results>>, pc = "group",
               pc' \in {"group", "inline", "dispatch"},
               fatal_va_space' \in VaSpaces \cup {NoSpace}, status' \in Statuses,
               refused' \subseteq Nat
        PROVE  OutShape'
    BY <1>1, <1>4, FlushedShape
  <1>5. ASSUME NEW has_mm, SwitchSpace(has_mm) PROVE OutShape'
    BY <1>1, <1>4, <1>5 DEF SwitchSpace, Grouping
  <1>6. ASSUME UNCHANGED <<groups, next_group, results>>, pc = "group", pc' = "group",
               fatal_va_space' \in VaSpaces \cup {NoSpace}, status' \in Statuses,
               refused' \subseteq Nat
        PROVE  OutShape'
    BY <1>1, <1>6
  <1>7. CASE MarkFatal
    <2>1. va_space \in VaSpaces \cup {NoSpace}
      BY DEF Shape, LocalShape
    <2> QED BY <1>1, <1>6, <1>7, <2>1 DEF MarkFatal, SameSpace, Grouping
  <1>8. CASE SkipUnregistered \/ CountFault
    BY <1>1, <1>6, <1>8 DEF SkipUnregistered, CountFault, Serviceable, SameSpace, Grouping
  <1>9. CASE StartGroup
    <2>1. status' \in Statuses
      BY <1>9 DEF StartGroup, Statuses, ServiceStatus
    <2> QED BY <1>1, <1>4, <1>9, <2>1 DEF StartGroup, NewBlock, Serviceable, SameSpace, Grouping
  <1>10. ASSUME NEW ok, SkipFault(ok) PROVE OutShape'
    <2>1. pc = "group" /\ Grouping
      BY <1>10 DEF SkipFault, NewBlock, Serviceable, SameSpace, Grouping
    <2>2. i \in Nat
      BY <2>1, EntryShape
    <2>3. status' \in Statuses
      BY <1>1, <1>10 DEF SkipFault, Statuses, PushStatus
    <2> QED BY <1>1, <1>6, <1>10, <2>1, <2>2, <2>3 DEF SkipFault
  <1>11. CASE EndGrouping
    BY <1>1, <1>4, <1>11 DEF EndGrouping
  <1>12. ASSUME NEW s \in ServiceStatus, NEW ts \in PushStatus, InlineGroup(s, ts) PROVE OutShape'
    <2>1. /\ results' = Append(results, s) /\ pc = "inline" /\ pc' = "inline"
          /\ next_group <= Len(groups) /\ next_group' = next_group + 1
          /\ UNCHANGED <<groups, fatal_va_space, refused>>
      BY <1>12 DEF InlineGroup
    <2>2. status' \in Statuses
      BY <1>1, <1>12 DEF InlineGroup, Statuses
    <2> QED BY <1>1, <2>1, <2>2
  <1>13. CASE InlineDone
    BY <1>1, <1>13 DEF InlineDone
  <1>14. ASSUME NEW r \in [DOMAIN groups -> ServiceStatus],
                NEW s \in ServiceStatus \cup {"NV_ERR_NO_MEMORY", "NV_ERR_TIMEOUT"},
                DispatchReturns(r, s)
         PROVE  OutShape'
    <2>1. r \in Seq(ServiceStatus)
      BY <1>1
    <2>2. s \in Statuses
      BY DEF Statuses, PushStatus
    <2> QED BY <1>1, <1>14, <2>1, <2>2 DEF DispatchReturns
  <1>15. ASSUME NEW s \in PushStatus, Replay(s) PROVE OutShape'
    <2>1. s \in Statuses
      BY DEF Statuses
    <2>2. status' \in {s, status}
      BY <1>15 DEF Replay
    <2> QED BY <1>1, <1>15, <2>1, <2>2 DEF Replay
  <1>16. CASE ReturnStatus
    BY <1>16, EmptyShape, BatchAssumption DEF ReturnStatus, Statuses, ServiceStatus
  <1> QED BY <1>2, <1>3, <1>5, <1>7, <1>8, <1>9, <1>10, <1>11, <1>12, <1>13, <1>14, <1>15, <1>16
          DEF Next

\* The flags, and the sets of locks.
LEMMA FlagStep == Shape /\ [Next]_vars => FlagShape' /\ LockShape'
  <1> SUFFICES ASSUME Shape, [Next]_vars PROVE FlagShape' /\ LockShape'
    OBVIOUS
  <1> USE DEF FlagShape, LockShape
  <1>1. FlagShape /\ LockShape
    BY DEF Shape
  <1>2. CASE UNCHANGED vars
    BY <1>1, <1>2
  <1>3. ASSUME UNCHANGED <<gpu_va_space, mm, replayed, lockVars>>
        PROVE  FlagShape' /\ LockShape'
    BY <1>1, <1>3
  <1>4. ASSUME NEW f, NEW reg, NEW bp, BeginBatch(f, reg, bp) PROVE FlagShape' /\ LockShape'
    BY <1>3, <1>4 DEF BeginBatch
  <1>5. ASSUME NEW has_mm \in BOOLEAN, SwitchSpace(has_mm) PROVE FlagShape' /\ LockShape'
    <2>5. mm' = has_mm /\ gpu_va_space' = (current_entry.vs \in registered)
      BY <1>5 DEF SwitchSpace
    <2>6. mm' \in BOOLEAN
      BY <1>5, <2>5
    <2>7. gpu_va_space' \in BOOLEAN
      <3>1. (current_entry.vs \in registered) \in BOOLEAN
        OBVIOUS
      <3> QED BY <2>5, <3>1
    <2>4. UNCHANGED replayed
      BY <1>5 DEF SwitchSpace
    <2>2. current_entry.vs \in VaSpaces
      BY <1>5, EntryShape DEF SwitchSpace
    <2>3. LockShape'
      BY <1>1, <1>5, <2>2 DEF SwitchSpace
    <2> QED BY <1>1, <2>3, <2>4, <2>6, <2>7
  <1>6. CASE MarkFatal \/ SkipUnregistered \/ CountFault \/ StartGroup
    BY <1>3, <1>6 DEF MarkFatal, SkipUnregistered, CountFault, StartGroup
  <1>7. ASSUME NEW ok, SkipFault(ok) PROVE FlagShape' /\ LockShape'
    BY <1>3, <1>7 DEF SkipFault
  <1>8. CASE EndGrouping
    <2>1. UNCHANGED <<gpu_va_space, mm, replayed>>
      BY <1>8 DEF EndGrouping
    <2>2. LockShape'
      BY <1>1, <1>8 DEF EndGrouping
    <2> QED BY <1>1, <2>1, <2>2
  <1>9. ASSUME NEW s, NEW ts, InlineGroup(s, ts) PROVE FlagShape' /\ LockShape'
    BY <1>3, <1>9 DEF InlineGroup
  <1>10. CASE InlineDone
    BY <1>1, <1>10 DEF InlineDone
  <1>11. ASSUME NEW r, NEW s, DispatchReturns(r, s) PROVE FlagShape' /\ LockShape'
    BY <1>1, <1>11 DEF DispatchReturns
  <1>12. ASSUME NEW s, Replay(s) PROVE FlagShape' /\ LockShape'
    <2>1. UNCHANGED <<gpu_va_space, mm, lockVars>>
      BY <1>12 DEF Replay
    <2>2. replayed' \in BOOLEAN
      BY <1>12, Zenon DEF Replay
    <2> QED BY <1>1, <2>1, <2>2
  <1>13. CASE ReturnStatus
    <2>1. FlagShape'
      BY <1>13, Zenon DEF ReturnStatus
    <2>2. LockShape'
      BY <1>1, <1>13 DEF ReturnStatus
    <2> QED BY <2>1, <2>2
  <1>14. (IF MmMayBeGone THEN BOOLEAN ELSE {TRUE}) \subseteq BOOLEAN
    BY Zenon
  <1> QED BY <1>2, <1>4, <1>5, <1>6, <1>7, <1>8, <1>9, <1>10, <1>11, <1>12, <1>13, <1>14 DEF Next

LEMMA ShapeStep == Shape /\ [Next]_vars => Shape'
  BY InputStep, LocalStep, OutStep, FlagStep DEF Shape

-----------------------------------------------------------------------------
(* Locks *)

\* The coordinator holds at most the locks of the current va_space; for the pool it
\* has dropped all but the mm reference, and afterwards it has none.
Locks ==
    /\ pc = "idle" => read_locked = {} /\ mmap_locked = {} /\ mm_retained = {}
    /\ pc \in {"group", "inline"} =>
          read_locked \subseteq {va_space} /\ mmap_locked \subseteq {va_space}
    /\ pc \in {"group", "inline", "dispatch"} => mm_retained \subseteq {va_space}
    /\ pc \in {"dispatch", "replay", "return"} => read_locked = {} /\ mmap_locked = {}
    /\ pc \in {"replay", "return"} => mm_retained = {}

LEMMA LocksStep == Locks /\ [Next]_vars => Locks'
  <1> SUFFICES ASSUME Locks, [Next]_vars PROVE Locks'
    OBVIOUS
  <1> USE DEF Locks
  <1>1. CASE UNCHANGED vars
    BY <1>1
  <1>2. ASSUME UNCHANGED <<pc, va_space, lockVars>> PROVE Locks'
    BY <1>2
  <1>3. ASSUME NEW f, NEW reg, NEW bp, pc = "idle", BeginBatch(f, reg, bp) PROVE Locks'
    BY <1>3 DEF BeginBatch
  <1>4. ASSUME NEW has_mm, SwitchSpace(has_mm) PROVE Locks'
    BY <1>4 DEF SwitchSpace, Grouping
  <1>5. CASE MarkFatal \/ SkipUnregistered \/ CountFault \/ StartGroup
    BY <1>2, <1>5 DEF MarkFatal, SkipUnregistered, CountFault, StartGroup
  <1>6. ASSUME NEW ok, SkipFault(ok) PROVE Locks'
    BY <1>2, <1>6 DEF SkipFault
  <1>7. CASE EndGrouping
    BY <1>7 DEF EndGrouping
  <1>8. ASSUME NEW s, NEW ts, InlineGroup(s, ts) PROVE Locks'
    BY <1>2, <1>8 DEF InlineGroup
  <1>9. CASE InlineDone
    BY <1>9 DEF InlineDone
  <1>10. ASSUME NEW r, NEW s, DispatchReturns(r, s) PROVE Locks'
    BY <1>10 DEF DispatchReturns
  <1>11. ASSUME NEW s, Replay(s) PROVE Locks'
    BY <1>11 DEF Replay
  <1>12. CASE ReturnStatus
    BY <1>12 DEF ReturnStatus
  <1> QED BY <1>1, <1>3, <1>4, <1>5, <1>6, <1>7, <1>8, <1>9, <1>10, <1>11, <1>12 DEF Next

-----------------------------------------------------------------------------
(* Grouping *)

\* Fault l lies in block b of va_space v.
In(l, v, b) == faults[l].vs = v /\ faults[l].block = b

\* The faults from first on that were counted for the current block lie in it.  The
\* count reaches up to the loop index unless a fatal fault of the block, or a fault
\* of another block, came between.
Current ==
    /\ current_block # NoBlock =>
          LET first == current_block_first_fault
          IN  /\ va_space \in registered
              /\ \A l \in first .. first + current_block_fault_count - 1 :
                    In(l, va_space, current_block)
              /\ \/ first + current_block_fault_count = i
                 \/ \E l \in first .. i - 1 : faults[l].fatal /\ In(l, va_space, current_block)
                 \/ \E l \in first .. i - 1 : ~In(l, va_space, current_block)
    /\ pc = "group" /\ va_space # NoSpace => (gpu_va_space <=> va_space \in registered)

\* Between two faults of a block in the sorted cache there is no foreign fault.
LEMMA NoForeign ==
    ASSUME Shape, NEW a \in 1 .. Len(faults), NEW b \in a .. Len(faults), NEW v, NEW k,
           In(a, v, k), In(b, v, k)
    PROVE  \A l \in a .. b : In(l, v, k)
  <1> SUFFICES ASSUME NEW l \in a .. b PROVE In(l, v, k)
    OBVIOUS
  <1>1. /\ faults \in Seq(Fault) /\ Ordered(faults) /\ DOMAIN faults = 1 .. Len(faults)
        /\ Len(faults) \in Nat
    BY DEF Shape, InputShape
  <1>2. a \in DOMAIN faults /\ b \in DOMAIN faults /\ l \in DOMAIN faults
    BY <1>1
  <1>3. \A m \in DOMAIN faults : faults[m].block \in Nat
    <2> TAKE m \in DOMAIN faults
    <2>1. faults[m] \in Fault
      BY <1>1
    <2> QED BY <2>1, BatchAssumption DEF Fault
  <1>4. CASE a = l \/ l = b
    BY <1>1, <1>4
  <1>5. CASE a < l /\ l < b
    <2>1. faults[l].vs = v
      BY <1>1, <1>2, <1>5 DEF Ordered, In
    <2>2. k <= faults[l].block /\ faults[l].block <= k
      BY <1>1, <1>2, <1>5, <2>1 DEF Ordered, In
    <2> QED BY <1>2, <1>3, <2>1, <2>2 DEF In
  <1> QED BY <1>1, <1>4, <1>5

\* All faults from the first of the current block to one that is counted lie in the
\* block, and the count has left none of them out but behind a fatal one.
LEMMA CountFacts ==
    ASSUME Shape, Current, CountFault
    PROVE  LET first == current_block_first_fault
               cnt == current_block_fault_count
           IN  /\ current_block # NoBlock
               /\ i \in 1 .. Len(faults) /\ first \in 1 .. i
               /\ cnt \in Nat /\ first + cnt <= i
               /\ \A l \in first .. i : In(l, va_space, current_block)
               /\ \/ first + cnt = i
                  \/ \E l \in first .. i - 1 :
                        faults[l].fatal /\ In(l, va_space, current_block)
  <1> DEFINE first == current_block_first_fault
             cnt == current_block_fault_count
  <1>1. Grouping /\ In(i, va_space, current_block)
    BY DEF CountFault, Serviceable, SameSpace, In, current_entry
  <1>2. i \in 1 .. Len(faults) /\ current_block # NoBlock /\ Len(faults) \in Nat
    BY <1>1, EntryShape DEF In, current_entry, Shape, InputShape
  <1>3. first \in 1 .. i /\ first + cnt <= i /\ cnt \in Nat \ {0}
    BY <1>2 DEF Shape, LocalShape
  <1>4. In(first, va_space, current_block)
    BY <1>2, <1>3 DEF Current
  <1>5. \A l \in first .. i : In(l, va_space, current_block)
    BY <1>1, <1>2, <1>3, <1>4, NoForeign
  <1>6. \/ first + cnt = i
        \/ \E l \in first .. i - 1 : faults[l].fatal /\ In(l, va_space, current_block)
    BY <1>2, <1>3, <1>5 DEF Current
  <1> QED BY <1>2, <1>3, <1>5, <1>6

LEMMA CurrentStep == Shape /\ Current /\ [Next]_vars => Current'
  <1> SUFFICES ASSUME Shape, Current, [Next]_vars PROVE Current'
    OBVIOUS
  <1>1. LocalShape /\ i \in Nat /\ Len(faults) \in Nat
    BY DEF Shape, InputShape
  <1> USE DEF Current
  <1>2. ASSUME UNCHANGED <<faults, spaceVars, blockVars, i, registered>>,
               pc' = "group" => pc = "group"
        PROVE  Current'
    BY <1>2 DEF In
  <1>3. CASE UNCHANGED vars
    BY <1>2, <1>3
  <1>4. ASSUME NEW f, NEW reg, NEW bp, pc = "idle", BeginBatch(f, reg, bp) PROVE Current'
    BY <1>1, <1>4 DEF BeginBatch, LocalShape
  <1>5. ASSUME NEW has_mm, SwitchSpace(has_mm) PROVE Current'
    BY <1>5 DEF SwitchSpace
  \* The index moves past a fault that is fatal or not of the current block.
  <1>6. ASSUME UNCHANGED <<pc, faults, spaceVars, blockVars, registered>>, i' = i + 1, Grouping,
               current_block # NoBlock =>
                  faults[i].fatal \/ ~In(i, va_space, current_block)
        PROVE  Current'
    <2>1. CASE current_block # NoBlock
      <3>1. current_block_first_fault \in Nat /\ current_block_first_fault <= i
            /\ current_block_fault_count \in Nat
        BY <1>1, <2>1 DEF LocalShape
      <3>2. i \in current_block_first_fault .. i' - 1
        BY <1>1, <1>6, <3>1
      <3>3. \A l : In(l, va_space, current_block)' <=> In(l, va_space, current_block)
        BY <1>6 DEF In
      <3> QED BY <1>6, <2>1, <3>1, <3>2, <3>3
    <2> QED BY <1>6, <2>1
  <1>7. CASE MarkFatal
    <2>1. Grouping /\ faults[i].fatal
      BY <1>7 DEF MarkFatal, SameSpace, current_entry
    <2> QED BY <1>6, <1>7, <2>1 DEF MarkFatal
  <1>8. CASE SkipUnregistered
    <2>1. Grouping /\ va_space \in VaSpaces /\ ~gpu_va_space
      BY <1>8, EntryShape DEF SkipUnregistered, SameSpace
    <2>2. current_block = NoBlock
      BY <2>1, BatchAssumption DEF Grouping
    <2> QED BY <1>6, <1>8, <2>1, <2>2 DEF SkipUnregistered
  <1>9. CASE CountFault
    <2> DEFINE first == current_block_first_fault
               cnt == current_block_fault_count
    <2>1. /\ i' = i + 1 /\ cnt' = cnt + 1
          /\ UNCHANGED <<pc, faults, registered, spaceVars, current_block, first>>
      BY <1>9 DEF CountFault
    <2>2. /\ current_block # NoBlock /\ first \in 1 .. i /\ cnt \in Nat /\ first + cnt <= i
          /\ \A l \in first .. i : In(l, va_space, current_block)
          /\ \/ first + cnt = i
             \/ \E l \in first .. i - 1 : faults[l].fatal /\ In(l, va_space, current_block)
      BY <1>9, CountFacts
    <2>3. \A l : In(l, va_space, current_block)' <=> In(l, va_space, current_block)
      BY <2>1 DEF In
    <2>4. \A l \in first .. first + cnt : In(l, va_space, current_block)
      BY <1>1, <2>2
    <2>5. \A l \in first .. i - 1 : l \in first .. i' - 1
      BY <1>1, <2>1, <2>2
    <2>6. first + (cnt + 1) - 1 = first + cnt /\ first + (cnt + 1) = (first + cnt) + 1
      BY <2>2
    <2> QED BY <2>1, <2>2, <2>3, <2>4, <2>5, <2>6
  <1>10. CASE StartGroup
    <2>1. /\ Grouping /\ In(i, va_space, current_entry.block) /\ i' = i + 1
          /\ current_block_fault_count' = 1 /\ current_block_first_fault' = i
          /\ current_block' = current_entry.block /\ gpu_va_space
          /\ UNCHANGED <<pc, faults, registered, spaceVars>>
      BY <1>10 DEF StartGroup, NewBlock, Serviceable, SameSpace, In, current_entry
    <2>2. va_space \in registered
      BY <2>1, EntryShape, BatchAssumption DEF In, current_entry, Grouping
    <2>3. faults'[i].vs = va_space' /\ faults'[i].block = current_block'
      BY <2>1 DEF In
    <2>4. \A l \in i .. i + 1 - 1 : l = i
      BY <1>1
    <2> QED BY <1>1, <2>1, <2>2, <2>3, <2>4 DEF In
  <1>11. ASSUME NEW ok, SkipFault(ok) PROVE Current'
    <2>1. Grouping /\ ~In(i, va_space, current_block)
      BY <1>11 DEF SkipFault, NewBlock, Serviceable, SameSpace, current_entry, In
    <2> QED BY <1>6, <1>11, <2>1 DEF SkipFault
  <1>12. CASE EndGrouping \/ InlineDone
    BY <1>2, <1>12 DEF EndGrouping, InlineDone
  <1>13. ASSUME NEW s, NEW ts, InlineGroup(s, ts) PROVE Current'
    BY <1>2, <1>13 DEF InlineGroup
  <1>14. ASSUME NEW r, NEW s, DispatchReturns(r, s) \/ Replay(s) PROVE Current'
    BY <1>2, <1>14 DEF DispatchReturns, Replay
  <1>15. CASE ReturnStatus
    BY <1>15 DEF ReturnStatus
  <1> QED BY <1>3, <1>4, <1>5, <1>7, <1>8, <1>9, <1>10, <1>11, <1>12, <1>13, <1>14, <1>15
          DEF Next


\* The ranges of the groups gs lie in their blocks, before the loop index and one
\* after the other.
RangesOf(gs) ==
    \A k \in 1 .. Len(gs) :
        /\ gs[k].first + gs[k].num_faults <= i
        /\ \A l \in gs[k].first .. gs[k].first + gs[k].num_faults - 1 :
              In(l, gs[k].vs, gs[k].block)
        /\ \A m \in 1 .. Len(gs) : k < m => gs[k].first + gs[k].num_faults <= gs[m].first

\* ... and before the current group.
Ranges ==
    /\ RangesOf(groups)
    /\ pc = "group" /\ current_block # NoBlock =>
          \A k \in 1 .. Len(groups) :
              groups[k].first + groups[k].num_faults <= current_block_first_fault

\* A flush keeps the ranges apart.
LEMMA FlushedRanges ==
    ASSUME Shape, Current, Ranges, pc = "group"
    PROVE  RangesOf(Flushed)
  <1> DEFINE g == [vs |-> va_space, block |-> current_block,
                   first |-> current_block_first_fault,
                   num_faults |-> current_block_fault_count]
             n == Len(groups)
  <1>1. /\ n \in Nat /\ Len(Flushed) >= n /\ Len(Flushed) \in Nat
        /\ \A k \in 1 .. n : Flushed[k] = groups[k]
        /\ Len(Flushed) # n => /\ current_block # NoBlock /\ Len(Flushed) = n + 1
                               /\ Flushed[n + 1] = g
    BY FlushedShape DEF Shape, OutShape
  <1>2. CASE Len(Flushed) = n
    BY <1>1, <1>2 DEF Ranges, RangesOf
  <1>3. CASE Len(Flushed) # n
    <2>1. /\ g.first + g.num_faults <= i /\ g.num_faults >= 1
          /\ g.first \in Nat /\ g.num_faults \in Nat
      BY <1>1, <1>3 DEF Shape, LocalShape
    <2>2. \A l \in g.first .. g.first + g.num_faults - 1 : In(l, g.vs, g.block)
      BY <1>1, <1>3 DEF Current
    <2>3. \A k \in 1 .. n : groups[k].first + groups[k].num_faults <= g.first
      BY <1>1, <1>3 DEF Ranges
    <2> HIDE DEF g
    <2>4. \A k \in 1 .. n + 1 : k = n + 1 \/ k \in 1 .. n
      BY <1>1
    <2>5. \A k \in 1 .. n : ~(n + 1 < k)
      BY <1>1
    <2> QED BY <1>1, <1>3, <2>1, <2>2, <2>3, <2>4, <2>5 DEF Ranges, RangesOf
  <1> QED BY <1>2, <1>3

LEMMA RangesStep == Shape /\ Current /\ Ranges /\ [Next]_vars => Ranges'
  <1> SUFFICES ASSUME Shape, Current, Ranges, [Next]_vars PROVE Ranges'
    OBVIOUS
  <1>1. /\ i \in Nat /\ Len(groups) \in Nat /\ groups \in Seq(Group)
        /\ Flushed \in Seq(Group) /\ Len(Flushed) \in Nat
    BY FlushedShape DEF Shape, InputShape, OutShape
  <1>2. ASSUME NEW gs \in Seq(Group), NEW k \in 1 .. Len(gs)
        PROVE  gs[k].first \in Nat /\ gs[k].num_faults \in Nat
    <2>1. gs[k] \in Group
      BY <1>2
    <2> QED BY <2>1, BatchAssumption DEF Group
  \* The index only moves on.
  <1>3. ASSUME RangesOf(groups'), i' \in {i, i + 1}, UNCHANGED faults, groups' \in Seq(Group)
        PROVE  RangesOf(groups)'
    BY <1>1, <1>2, <1>3 DEF RangesOf, In
  <1>4. ASSUME UNCHANGED <<faults, groups, blockVars>>, i' \in {i, i + 1},
               pc' = "group" => pc = "group"
        PROVE  Ranges'
    BY <1>1, <1>3, <1>4 DEF Ranges
  <1>5. CASE UNCHANGED vars
    BY <1>4, <1>5
  <1>6. ASSUME NEW f, NEW reg, NEW bp, pc = "idle", BeginBatch(f, reg, bp) PROVE Ranges'
    BY <1>6 DEF BeginBatch, Ranges, RangesOf, Shape, OutShape
  <1>7. ASSUME NEW has_mm, SwitchSpace(has_mm) PROVE Ranges'
    <2>1. groups' = Flushed /\ i' \in {i, i + 1} /\ pc = "group" /\ UNCHANGED faults
          /\ current_block' = NoBlock
      BY <1>7 DEF SwitchSpace, Grouping
    <2> QED BY <1>1, <1>3, <2>1, FlushedRanges DEF Ranges
  <1>8. CASE MarkFatal \/ SkipUnregistered
    BY <1>4, <1>8 DEF MarkFatal, SkipUnregistered
  <1>9. CASE CountFault
    <2>1. /\ UNCHANGED <<faults, groups, current_block, current_block_first_fault, pc>>
          /\ i' = i + 1
      BY <1>9 DEF CountFault
    <2> QED BY <1>1, <1>3, <2>1 DEF Ranges
  <1>10. CASE StartGroup
    <2>1. groups' = Flushed /\ i' = i + 1 /\ pc = "group" /\ UNCHANGED faults
          /\ current_block_first_fault' = i
      BY <1>10 DEF StartGroup, NewBlock, Serviceable, SameSpace, Grouping
    <2>2. RangesOf(Flushed)
      BY <2>1, FlushedRanges
    <2> QED BY <1>1, <1>3, <2>1, <2>2 DEF Ranges, RangesOf
  <1>11. ASSUME NEW ok, SkipFault(ok) PROVE Ranges'
    BY <1>4, <1>11 DEF SkipFault
  <1>12. CASE EndGrouping
    <2>1. groups' = Flushed /\ i' = i /\ pc = "group" /\ UNCHANGED faults /\ pc' # "group"
      BY <1>12 DEF EndGrouping
    <2> QED BY <1>1, <1>3, <2>1, FlushedRanges DEF Ranges
  <1>13. CASE InlineDone
    BY <1>4, <1>13 DEF InlineDone
  <1>14. ASSUME NEW s, NEW ts, InlineGroup(s, ts) PROVE Ranges'
    BY <1>4, <1>14 DEF InlineGroup
  <1>15. ASSUME NEW r, NEW s, DispatchReturns(r, s) \/ Replay(s) PROVE Ranges'
    BY <1>4, <1>15 DEF DispatchReturns, Replay
  <1>16. CASE ReturnStatus
    BY <1>16 DEF ReturnStatus, Ranges, RangesOf
  <1> QED BY <1>5, <1>6, <1>7, <1>8, <1>9, <1>10, <1>11, <1>12, <1>13, <1>14, <1>15, <1>16
          DEF Next

\* Faults that need no group: fatal, or unmapped, or of an unregistered va_space, or
\* of a refused block, or behind a fatal fault of their block.
Excused ==
    {k \in 1 .. Len(faults) :
        \/ faults[k].fatal \/ ~faults[k].mapped \/ faults[k].vs \notin registered
        \/ k \in refused
        \/ \E l \in 1 .. k - 1 : /\ faults[l].fatal /\ faults[l].vs = faults[k].vs
                                 /\ faults[l].block = faults[k].block}

\* The faults of the groups gs, and of the current group.
FaultsOf(gs) ==
    UNION {gs[g].first .. gs[g].first + gs[g].num_faults - 1 : g \in 1 .. Len(gs)}

CurrentFaults ==
    IF pc = "group" /\ current_block # NoBlock
    THEN current_block_first_fault .. current_block_first_fault + current_block_fault_count - 1
    ELSE {}

\* Unless the capacity was reached, each fault the loop has passed is excused or in
\* a group, finished or current.
Covered ==
    Len(groups) < MaxBlocks =>
        1 .. i - 1 \subseteq Excused \cup FaultsOf(groups) \cup CurrentFaults

\* After a flush below the capacity the current group's faults are in the last group.
LEMMA FlushedCovers ==
    ASSUME Shape, Len(Flushed) < MaxBlocks
    PROVE  FaultsOf(groups) \cup CurrentFaults \subseteq FaultsOf(Flushed)
  <1>1. /\ Len(groups) \in Nat /\ Len(Flushed) \in Nat /\ Len(Flushed) >= Len(groups)
        /\ \A m \in 1 .. Len(groups) : Flushed[m] = groups[m]
    BY FlushedShape DEF Shape, OutShape
  <1>2. FaultsOf(groups) \subseteq FaultsOf(Flushed)
    BY <1>1 DEF FaultsOf
  <1>3. CASE CurrentFaults # {}
    <2>1. /\ Len(Flushed) = Len(groups) + 1
          /\ Flushed[Len(Flushed)].first = current_block_first_fault
          /\ Flushed[Len(Flushed)].num_faults = current_block_fault_count
      BY <1>3, FlushedShape DEF CurrentFaults
    <2>2. Len(Flushed) \in 1 .. Len(Flushed)
      BY <1>1, <2>1
    <2> QED BY <1>2, <2>1, <2>2 DEF FaultsOf, CurrentFaults
  <1> QED BY <1>2, <1>3

LEMMA CoveredStep == Shape /\ Current /\ Covered /\ [Next]_vars => Covered'
  <1> SUFFICES ASSUME Shape, Current, Covered, [Next]_vars PROVE Covered'
    OBVIOUS
  <1>1. i \in Nat \ {0} /\ Len(groups) \in Nat /\ Len(Flushed) \in Nat /\ MaxBlocks \in Nat
        /\ Len(Flushed) >= Len(groups) /\ Len(faults) \in Nat
    BY FlushedShape, BatchAssumption DEF Shape, InputShape, OutShape
  <1>2. ASSUME UNCHANGED <<faults, registered>>, refused \subseteq refused'
        PROVE  Excused \subseteq Excused'
    BY <1>2 DEF Excused
  \* The groups stay, the index does not move past a fault that needs one and has none.
  <1>3. ASSUME UNCHANGED <<faults, registered, groups>>, refused \subseteq refused',
               CurrentFaults \subseteq CurrentFaults', i' \in {i, i + 1},
               i' # i => i \in Excused' \cup CurrentFaults'
        PROVE  Covered'
    <2>1. Excused \subseteq Excused' /\ FaultsOf(groups)' = FaultsOf(groups)
      BY <1>2, <1>3 DEF FaultsOf
    <2>2. \A k \in 1 .. i' - 1 : k \in 1 .. i - 1 \/ (i' # i /\ k = i)
      <3>1. CASE i' = i
        BY <3>1
      <3>2. CASE i' = i + 1
        BY <1>1, <3>2
      <3> QED BY <1>3, <3>1, <3>2
    <2> QED BY <1>3, <2>1, <2>2 DEF Covered
  \* The current group is flushed.
  <1>4. ASSUME UNCHANGED <<faults, registered, refused>>, groups' = Flushed,
               i' \in {i, i + 1},
               i' # i => i \in Excused' \cup CurrentFaults'
        PROVE  Covered'
    <2> SUFFICES ASSUME Len(Flushed) < MaxBlocks
                 PROVE  1 .. i' - 1 \subseteq Excused' \cup FaultsOf(Flushed) \cup CurrentFaults'
      BY <1>4 DEF Covered, FaultsOf
    <2>1. Excused \subseteq Excused'
      BY <1>2, <1>4
    <2>2. FaultsOf(groups) \cup CurrentFaults \subseteq FaultsOf(Flushed)
      BY FlushedCovers
    <2>3. \A k \in 1 .. i' - 1 : k \in 1 .. i - 1 \/ (i' # i /\ k = i)
      <3>1. CASE i' = i
        BY <3>1
      <3>2. CASE i' = i + 1
        BY <1>1, <3>2
      <3> QED BY <1>4, <3>1, <3>2
    <2>4. Len(groups) < MaxBlocks
      BY <1>1
    <2> QED BY <1>4, <2>1, <2>2, <2>3, <2>4 DEF Covered
  <1>5. CASE UNCHANGED vars
    <2>1. CurrentFaults' = CurrentFaults
      BY <1>5 DEF CurrentFaults
    <2> QED BY <1>3, <1>5, <2>1
  <1>6. ASSUME NEW f, NEW reg, NEW bp, pc = "idle", BeginBatch(f, reg, bp) PROVE Covered'
    <2>1. i' = 1
      BY <1>6, EmptyShape DEF BeginBatch, Shape, InputShape
    <2> QED BY <2>1 DEF Covered
  <1>7. ASSUME NEW has_mm, SwitchSpace(has_mm) PROVE Covered'
    <2>1. /\ groups' = Flushed /\ i' \in {i, i + 1} /\ Grouping
          /\ UNCHANGED <<faults, registered, refused>>
          /\ i' # i => faults[i].vs \notin registered
      BY <1>7 DEF SwitchSpace, Grouping, current_entry
    <2>2. i \in 1 .. Len(faults)
      BY <2>1, EntryShape
    <2>3. i' # i => i \in Excused'
      BY <2>1, <2>2 DEF Excused
    <2> QED BY <1>4, <2>1, <2>3
  \* The index moves past a fault that is excused.
  <1>8. ASSUME UNCHANGED <<pc, faults, registered, groups, blockVars>>, i' = i + 1, Grouping,
               refused \subseteq refused',
               \/ faults[i].fatal \/ ~faults[i].mapped \/ faults[i].vs \notin registered
               \/ i \in refused'
        PROVE  Covered'
    <2>1. i \in 1 .. Len(faults)
      BY <1>8, EntryShape
    <2>2. i \in Excused'
      BY <1>8, <2>1 DEF Excused
    <2>3. CurrentFaults' = CurrentFaults
      BY <1>8 DEF CurrentFaults
    <2> QED BY <1>3, <1>8, <2>2, <2>3
  <1>9. CASE MarkFatal
    <2>1. Grouping /\ faults[i].fatal
      BY <1>9 DEF MarkFatal, SameSpace, current_entry
    <2> QED BY <1>8, <1>9, <2>1 DEF MarkFatal
  <1>10. CASE SkipUnregistered
    <2>1. Grouping /\ faults[i].vs = va_space /\ va_space \in VaSpaces /\ ~gpu_va_space
      BY <1>10, EntryShape DEF SkipUnregistered, SameSpace, current_entry
    <2>2. va_space \notin registered
      BY <2>1, BatchAssumption DEF Current, Grouping
    <2> QED BY <1>8, <1>10, <2>1, <2>2 DEF SkipUnregistered
  <1>11. CASE CountFault
    <2> DEFINE first == current_block_first_fault
               cnt == current_block_fault_count
    <2>1. /\ i' = i + 1 /\ cnt' = cnt + 1 /\ pc = "group"
          /\ UNCHANGED <<pc, faults, registered, refused, groups, current_block, first>>
      BY <1>11 DEF CountFault, Serviceable, SameSpace, Grouping
    <2>2. /\ current_block # NoBlock /\ first \in 1 .. i /\ cnt \in Nat /\ first + cnt <= i
          /\ i \in 1 .. Len(faults)
          /\ \A l \in first .. i : In(l, va_space, current_block)
          /\ \/ first + cnt = i
             \/ \E l \in first .. i - 1 : faults[l].fatal /\ In(l, va_space, current_block)
      BY <1>11, CountFacts
    <2>3. CurrentFaults' = first .. first + cnt /\ CurrentFaults = first .. first + cnt - 1
      BY <2>1, <2>2 DEF CurrentFaults
    <2>4. CASE first + cnt = i
      BY <1>1, <1>3, <2>1, <2>2, <2>3, <2>4
    <2>5. CASE \E l \in first .. i - 1 : faults[l].fatal /\ In(l, va_space, current_block)
      <3>1. PICK l \in first .. i - 1 : faults[l].fatal /\ In(l, va_space, current_block)
        BY <2>5
      <3>2. l \in 1 .. i - 1 /\ i \in first .. i
        BY <1>1, <2>2
      <3>3. i \in Excused'
        BY <2>1, <2>2, <3>1, <3>2 DEF Excused, In
      <3> QED BY <1>1, <1>3, <2>1, <2>2, <2>3, <3>3
    <2> QED BY <2>2, <2>4, <2>5
  <1>12. CASE StartGroup
    <2>1. /\ groups' = Flushed /\ i' = i + 1 /\ pc' = "group" /\ Grouping
          /\ UNCHANGED <<faults, registered, refused>>
          /\ current_block' = current_entry.block /\ current_block_first_fault' = i
          /\ current_block_fault_count' = 1
      BY <1>12 DEF StartGroup, NewBlock, Serviceable, SameSpace, Grouping
    <2>2. current_block' # NoBlock
      BY <2>1, EntryShape
    <2>3. CurrentFaults' = i .. i + 1 - 1
      BY <2>1, <2>2 DEF CurrentFaults
    <2> QED BY <1>1, <1>4, <2>1, <2>3
  <1>13. ASSUME NEW ok, SkipFault(ok) PROVE Covered'
    <2>1. /\ UNCHANGED <<pc, faults, registered, groups, blockVars>> /\ i' = i + 1 /\ Grouping
          /\ refused \subseteq refused' /\ (~faults[i].mapped \/ i \in refused')
      BY <1>13 DEF SkipFault, current_entry, NewBlock, Serviceable, SameSpace
    <2> QED BY <1>8, <2>1
  <1>14. CASE EndGrouping
    BY <1>4, <1>14 DEF EndGrouping
  <1>15. ASSUME UNCHANGED <<faults, registered, refused, groups, i>>, pc # "group"
         PROVE  Covered'
    <2>1. CurrentFaults = {}
      BY <1>15 DEF CurrentFaults
    <2> QED BY <1>3, <1>15, <2>1
  <1>16. CASE InlineDone
    BY <1>15, <1>16 DEF InlineDone
  <1>17. ASSUME NEW s, NEW ts, InlineGroup(s, ts) PROVE Covered'
    BY <1>15, <1>17 DEF InlineGroup
  <1>18. ASSUME NEW r, NEW s, DispatchReturns(r, s) \/ Replay(s) PROVE Covered'
    BY <1>15, <1>18 DEF DispatchReturns, Replay
  <1>19. CASE ReturnStatus
    BY <1>19 DEF ReturnStatus, Covered
  <1> QED BY <1>5, <1>6, <1>7, <1>9, <1>10, <1>11, <1>12, <1>13, <1>14, <1>16, <1>17, <1>18,
             <1>19
          DEF Next

-----------------------------------------------------------------------------
(* Clean *)

\* Fatal faults of registered va_spaces the loop has passed.
FatalSeen == {k \in 1 .. i - 1 : faults[k].fatal /\ faults[k].vs \in registered}

AllOk == \A k \in 1 .. Len(results) : results[k] = "NV_OK"

\* A fatal fault the loop has passed is remembered; so is an error of a group
\* serviced so far; a replay comes last and only without either.
Clean ==
    /\ FatalSeen # {} => fatal_va_space # NoSpace
    /\ pc = "inline" => Len(results) = next_group - 1
    /\ pc \in {"inline", "replay"} /\ status = "NV_OK" => AllOk
    /\ pc \in {"replay", "return"} => Len(results) = Len(groups)
    /\ replayed => pc = "return" /\ AllOk /\ FatalSeen = {}

LEMMA CleanStep == Shape /\ Clean /\ [Next]_vars => Clean'
  <1> SUFFICES ASSUME Shape, Clean, [Next]_vars PROVE Clean'
    OBVIOUS
  <1>1. /\ i \in Nat \ {0} /\ Len(groups) \in Nat /\ Len(results) \in Nat
        /\ results \in Seq(ServiceStatus) /\ next_group \in Nat
    BY DEF Shape, InputShape, OutShape
  <1> USE DEF Clean
  <1>2. ASSUME UNCHANGED <<pc, faults, registered, i, fatal_va_space, results, groups,
                           next_group, status, replayed>>
        PROVE  Clean'
    BY <1>2 DEF FatalSeen, AllOk
  <1>3. CASE UNCHANGED vars
    BY <1>2, <1>3
  <1>4. ASSUME NEW f, NEW reg, NEW bp, pc = "idle", BeginBatch(f, reg, bp) PROVE Clean'
    <2>1. i' = 1 /\ pc' = "group" /\ UNCHANGED replayed
      BY <1>4, EmptyShape DEF BeginBatch, Shape, InputShape
    <2>2. FatalSeen' = {}
      BY <2>1 DEF FatalSeen
    <2> QED BY <1>4, <2>1, <2>2
  \* The index moves on.
  <1>5. ASSUME UNCHANGED <<pc, faults, registered, replayed>>, pc = "group",
               fatal_va_space # NoSpace => fatal_va_space' # NoSpace,
               i' \in {i, i + 1},
               i' # i => \/ faults[i].fatal => fatal_va_space' # NoSpace
                         \/ faults[i].vs \notin registered
        PROVE  Clean'
    <2>1. FatalSeen' # {} => FatalSeen # {} \/ fatal_va_space' # NoSpace
      BY <1>1, <1>5 DEF FatalSeen
    <2> QED BY <1>5, <2>1
  <1>6. ASSUME NEW has_mm, SwitchSpace(has_mm) PROVE Clean'
    <2>1. /\ UNCHANGED <<pc, faults, registered, replayed, fatal_va_space>> /\ pc = "group"
          /\ i' \in {i, i + 1} /\ (i' # i => faults[i].vs \notin registered)
      BY <1>6 DEF SwitchSpace, Grouping, current_entry
    <2> QED BY <1>5, <2>1
  <1>7. CASE MarkFatal
    <2>1. /\ UNCHANGED <<pc, faults, registered, replayed>> /\ pc = "group" /\ i' = i + 1
          /\ fatal_va_space' = (IF fatal_va_space = NoSpace THEN va_space ELSE fatal_va_space)
          /\ Grouping /\ va_space = current_entry.vs
      BY <1>7 DEF MarkFatal, SameSpace, Grouping
    <2>2. va_space # NoSpace
      BY <2>1, EntryShape, BatchAssumption
    <2> QED BY <1>5, <2>1, <2>2
  <1>8. CASE SkipUnregistered \/ CountFault \/ StartGroup
    <2>1. /\ UNCHANGED <<pc, faults, registered, replayed, fatal_va_space>> /\ pc = "group"
          /\ i' = i + 1 /\ ~faults[i].fatal
      BY <1>8 DEF SkipUnregistered, CountFault, StartGroup, NewBlock, Serviceable,
                  SameSpace, Grouping, current_entry
    <2> QED BY <1>5, <2>1
  <1>9. ASSUME NEW ok, SkipFault(ok) PROVE Clean'
    <2>1. /\ UNCHANGED <<pc, faults, registered, replayed, fatal_va_space>> /\ pc = "group"
          /\ i' = i + 1 /\ ~faults[i].fatal
      BY <1>9 DEF SkipFault, NewBlock, Serviceable, SameSpace, Grouping, current_entry
    <2> QED BY <1>5, <2>1
  <1>10. CASE EndGrouping
    <2>1. /\ UNCHANGED <<faults, registered, i, fatal_va_space, results, next_group, replayed>>
          /\ pc = "group" /\ pc' \in {"inline", "dispatch"}
      BY <1>10 DEF EndGrouping
    <2>2. results = <<>> /\ next_group = 1 /\ FatalSeen' = FatalSeen
      BY <2>1 DEF Shape, OutShape, FatalSeen
    <2> QED BY <2>1, <2>2 DEF AllOk
  <1>11. ASSUME NEW s \in ServiceStatus, NEW ts \in PushStatus, InlineGroup(s, ts) PROVE Clean'
    <2>1. /\ UNCHANGED <<pc, faults, registered, i, fatal_va_space, replayed>>
          /\ pc = "inline" /\ results' = Append(results, s) /\ next_group' = next_group + 1
          /\ status' = "NV_OK" => status = "NV_OK" /\ s = "NV_OK"
      BY <1>11 DEF InlineGroup
    <2>2. FatalSeen' = FatalSeen /\ Len(results') = Len(results) + 1
      BY <1>1, <2>1 DEF FatalSeen
    <2>3. AllOk /\ s = "NV_OK" => AllOk'
      BY <1>1, <2>1 DEF AllOk
    <2> QED BY <1>1, <2>1, <2>2, <2>3
  <1>12. CASE InlineDone
    <2>1. /\ UNCHANGED <<faults, registered, i, fatal_va_space, results, replayed, groups, status>>
          /\ pc = "inline" /\ pc' = "replay" /\ next_group > Len(groups)
      BY <1>12 DEF InlineDone
    <2>2. next_group <= Len(groups) + 1
      BY DEF Shape, OutShape
    <2>3. FatalSeen' = FatalSeen /\ (AllOk' <=> AllOk)
      BY <2>1 DEF FatalSeen, AllOk
    <2> QED BY <1>1, <2>1, <2>2, <2>3
  <1>13. ASSUME NEW r \in [DOMAIN groups -> ServiceStatus], NEW s, DispatchReturns(r, s)
         PROVE  Clean'
    <2>1. /\ UNCHANGED <<faults, registered, i, fatal_va_space, replayed, groups>>
          /\ pc = "dispatch" /\ pc' = "replay" /\ results' = r /\ status' = s
          /\ s = "NV_OK" => \A k \in DOMAIN r : r[k] = "NV_OK"
      BY <1>13 DEF DispatchReturns
    <2>2. Len(r) = Len(groups) /\ DOMAIN r = 1 .. Len(r)
      BY <1>1 DEF Shape, OutShape
    <2>3. FatalSeen' = FatalSeen /\ (s = "NV_OK" => AllOk')
      BY <2>1, <2>2 DEF FatalSeen, AllOk
    <2> QED BY <2>1, <2>2, <2>3
  <1>14. ASSUME NEW s, Replay(s) PROVE Clean'
    <2>1. /\ UNCHANGED <<faults, registered, i, fatal_va_space, results, groups>>
          /\ pc = "replay" /\ pc' = "return"
          /\ replayed' => fatal_va_space = NoSpace /\ status = "NV_OK"
      BY <1>14 DEF Replay
    <2>2. FatalSeen' = FatalSeen /\ (AllOk' <=> AllOk)
      BY <2>1 DEF FatalSeen, AllOk
    <2> QED BY <2>1, <2>2
  <1>15. CASE ReturnStatus
    BY <1>15 DEF ReturnStatus, FatalSeen
  <1> QED BY <1>3, <1>4, <1>6, <1>7, <1>8, <1>9, <1>10, <1>11, <1>12, <1>13, <1>14, <1>15
          DEF Next

-----------------------------------------------------------------------------
(* The theorems *)

IInv == Shape /\ Locks /\ Current /\ Ranges /\ Covered /\ Clean

LEMMA IInvHolds == Spec => []IInv
  <1>1. Init => IInv
    <2> SUFFICES ASSUME Init PROVE IInv
      OBVIOUS
    <2>1. Shape
      BY ShapeInit
    <2>2. Locks /\ Current /\ Ranges /\ Covered
      BY BatchAssumption DEF Init, Locks, Current, Ranges, RangesOf, Covered
    <2>3. Clean
      BY DEF Init, Clean, FatalSeen
    <2> QED BY <2>1, <2>2, <2>3 DEF IInv
  <1>2. IInv /\ [Next]_vars => IInv'
    BY ShapeStep, LocksStep, CurrentStep, RangesStep, CoveredStep, CleanStep DEF IInv
  <1> QED BY <1>1, <1>2, PTL DEF Spec

\* The locals of service_fault_batch_parallel stay in their types, and the groups in
\* parallel_ctx->groups, whose size the flush tests.
THEOREM BatchTypes == Spec => []TypeOK
  <1>1. IInv => TypeOK
    <2> SUFFICES ASSUME IInv PROVE TypeOK
      OBVIOUS
    <2>1. i \in 1 .. MaxFaults + 1 /\ next_group \in 1 .. MaxBlocks + 1
      BY BatchAssumption DEF IInv, Shape, InputShape, OutShape
    <2>2. gpu_va_space \in BOOLEAN /\ mm \in BOOLEAN /\ replayed \in BOOLEAN
      BY DEF IInv, Shape, FlagShape
    <2> QED BY <2>1, <2>2 DEF IInv, Shape, InputShape, LocalShape, OutShape, LockShape, TypeOK
  <1> QED BY <1>1, IInvHolds, PTL

\* The coordinator gives back every va_space lock, mmap_lock and mm reference, and
\* waits for the pool without a lock, on every path through phases 1 to 3.
THEOREM LocksGivenBack == Spec => []LocksReleased
  <1>1. IInv => LocksReleased
    BY DEF IInv, Locks, LocksReleased
  <1> QED BY <1>1, IInvHolds, PTL

\* The groups phase 1 forms partition the serviceable faults of the batch, below the
\* capacity of the group array.
THEOREM GroupingIsPartition == Spec => []GroupsPartition
  <1>1. IInv => GroupsDisjoint
    <2> SUFFICES ASSUME IInv, NEW k \in DOMAIN groups
                 PROVE  /\ groups[k].first >= 1
                        /\ groups[k].first + groups[k].num_faults - 1 <= Len(faults)
                        /\ Cardinality(Visited(groups[k])) = groups[k].num_faults
                        /\ \A l \in DOMAIN groups : k < l =>
                              groups[k].first + groups[k].num_faults <= groups[l].first
      BY DEF GroupsDisjoint
    <2> DEFINE g == groups[k]
               a == g.first
               b == g.first + g.num_faults - 1
    <2>1. DOMAIN groups = 1 .. Len(groups) /\ groups[k] \in Group
      BY DEF IInv, Shape, OutShape
    <2>2. a \in Nat \ {0} /\ g.num_faults \in Nat \ {0}
      BY <2>1, BatchAssumption DEF Group
    <2>3. /\ a + g.num_faults <= i
          /\ \A l \in a .. b : In(l, g.vs, g.block)
          /\ \A l \in DOMAIN groups : k < l => a + g.num_faults <= groups[l].first
      BY <2>1 DEF IInv, Ranges, RangesOf
    <2>4. i <= Len(faults) + 1 /\ i \in Nat /\ Len(faults) \in Nat
      BY DEF IInv, Shape, InputShape
    <2>5. Visited(g) = a .. b
      <3>1. \A m \in a .. b : \A l \in a .. m : l \in a .. b
        BY <2>2
      <3> QED BY <2>3, <3>1 DEF Visited, In
    <2>6. Cardinality(a .. b) = g.num_faults
      <3> HIDE DEF g
      <3>1. a \in Int /\ b \in Int /\ ~(a > b) /\ b - a + 1 = g.num_faults
        BY <2>2
      <3>2. Cardinality(a .. b) = IF a > b THEN 0 ELSE b - a + 1
        <4> HIDE DEF a, b
        <4> QED BY <3>1, FS_Interval
      <3> QED BY <3>1, <3>2
    <2> QED BY <2>2, <2>3, <2>4, <2>5, <2>6
  <1>2. IInv => EveryFaultGrouped
    <2> SUFFICES ASSUME IInv, pc \in {"inline", "dispatch"}, Len(groups) < MaxBlocks,
                        NEW k \in DOMAIN faults
                 PROVE  \/ faults[k].fatal \/ ~faults[k].mapped \/ faults[k].vs \notin registered
                        \/ k \in refused
                        \/ \E g \in DOMAIN groups : k \in Visited(groups[g])
                        \/ \E l \in 1 .. k - 1 : /\ faults[l].fatal
                                                 /\ faults[l].vs = faults[k].vs
                                                 /\ faults[l].block = faults[k].block
      BY DEF EveryFaultGrouped
    <2>1. k \in 1 .. i - 1 /\ DOMAIN groups = 1 .. Len(groups)
      BY DEF IInv, Shape, InputShape, OutShape, Active
    <2>2. k \in Excused \/ k \in FaultsOf(groups)
      BY <2>1 DEF IInv, Covered, CurrentFaults
    <2>3. CASE k \in Excused
      BY <2>3 DEF Excused
    <2>4. CASE k \in FaultsOf(groups)
      <3>1. PICK g \in 1 .. Len(groups) :
               k \in groups[g].first .. groups[g].first + groups[g].num_faults - 1
        BY <2>4 DEF FaultsOf
      <3>2. groups[g] \in Group
        BY DEF IInv, Shape, OutShape
      <3>3. groups[g].first \in Nat /\ groups[g].num_faults \in Nat
        BY <3>2, BatchAssumption DEF Group
      <3>4. \A l \in groups[g].first .. k : In(l, groups[g].vs, groups[g].block)
        BY <3>1, <3>3 DEF IInv, Ranges, RangesOf
      <3>5. k \in Visited(groups[g])
        BY <3>1, <3>4 DEF Visited, In
      <3> QED BY <2>1, <3>5
    <2> QED BY <2>2, <2>3, <2>4
  <1> QED BY <1>1, <1>2, IInvHolds, PTL DEF GroupsPartition

\* Phase 3 replays the faults only when every group was serviced without an error and
\* the loop saw no fatal fault of a registered va_space.
THEOREM ReplaysAreClean == Spec => []ReplayOnlyClean
  <1>1. IInv => ReplayOnlyClean
    <2> SUFFICES ASSUME IInv, replayed
                 PROVE  /\ Len(results) = Len(groups)
                        /\ \A k \in DOMAIN results : results[k] = "NV_OK"
                        /\ \A k \in DOMAIN faults :
                              faults[k].vs \in registered => ~faults[k].fatal
      BY DEF ReplayOnlyClean
    <2>1. pc = "return" /\ AllOk /\ FatalSeen = {} /\ Len(results) = Len(groups)
      BY DEF IInv, Clean
    <2>2. DOMAIN results = 1 .. Len(results)
      BY DEF IInv, Shape, OutShape
    <2>3. DOMAIN faults = 1 .. i - 1
      BY <2>1 DEF IInv, Shape, InputShape, Active
    <2> QED BY <2>1, <2>2, <2>3 DEF AllOk, FatalSeen
  <1> QED BY <1>1, IInvHolds, PTL
=============================================================================
