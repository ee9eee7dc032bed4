-------------------------- MODULE MergeDispatchProofs --------------------------
(***************************************************************************)
(* Proofs about uvm_kthread_dispatch_and_wait, for every batch, every       *)
(* number of workers and every choice of the segment parameters.            *)
(*                                                                         *)
(* The recursive functions of the model (prefix sums, the scan that cuts a   *)
(* batch into segments, the allocation of workers) are reasoned about with    *)
(* two lemmas proved first: induction on an interval, and the existence of    *)
(* a function defined by recursion on it.                                    *)
(*                                                                         *)
(* The inductive invariant has five parts, each inductive relative to the    *)
(* ones before it:                                                          *)
(*   Tables    the segments lie end to end and cover the batch;              *)
(*   Control   where the call is, under which policy, with which flags;      *)
(*   Position  what the segment loop has summed up, and the current segment; *)
(*   Handed    which groups have been dispatched so far;                     *)
(*   Paired    exactly which pushes are open.                                *)
(***************************************************************************)
EXTENDS MergeDispatch, FiniteSetTheorems, WellFoundedInduction, TLAPS

USE DEF vars, callVars, scanVars, slotVars, tableVars, flagVars, mergeVars, dispatchVars

Segment == [start : Nat, count : Nat \ {0}]

\* segs lie end to end from 0 to n.
Covers(segs, n) ==
    /\ segs \in Seq(Segment) /\ Len(segs) \in 1 .. n
    /\ segs[1].start = 0
    /\ \A k \in 1 .. Len(segs) - 1 : segs[k + 1].start = segs[k].start + segs[k].count
    /\ segs[Len(segs)].start + segs[Len(segs)].count = n

Tables ==
    /\ mode \in TableModes => Covers(segments, n_items) /\ Len(segments) <= SegmentCap(mode)
    /\ mode = "group_seg" => /\ workers_per_seg \in Seq(Nat \ {0})
                             /\ Len(workers_per_seg) = Len(segments)

Control ==
    /\ pc # "idle" => mode \in Modes /\ groups \in Batches
    /\ pc \in {"scan", "reuse"} => mode \in SegmentedModes
    /\ pc \in {"open_copy", "open_map"} => mode \in SegmentedModes \cup {"whole"}
    /\ pc \in {"pair_copy", "pair_map"} => mode \in TableModes /\ opened_pairs < Len(segments)
    /\ pc \in {"pre_copy", "pre_map"} => mode = "pipeline" /\ merge_state = 2 /\ ~at_end
    /\ pc = "close" => merge_state = 2
    /\ pc = "reuse" => cur_push_open
    /\ merge_state = 2 => /\ pc \in {"start", "pre_copy", "pre_map", "wait", "close"}
                          /\ mode # "off" /\ (mode = "whole" => active = 0)
    /\ mode # "pipeline" => cur_slot = 0
    /\ cur_push_open => mode = "pipeline" /\ pc \in {"scan", "reuse", "wait", "close"}
    /\ cur_push_open /\ pc \in {"wait", "close"} =>
          cur_slot = 1 - active /\ merge_state = 2 /\ ~at_end
    /\ dynamic_active => mode = "dynamic" /\ merge_state = 2
    /\ seg_parallel_active => mode \in {"group_seg", "seg_parallel"} /\ merge_state = 2

\* The segment dispatch scope of the segment loop.
Scope == pc \in {"reuse", "open_copy", "open_map", "start", "pre_copy", "pre_map", "wait", "close"}

\* A segment that is not the first is left with enough faults.
LoopPosition ==
    LET b == Before(groups)
    IN  /\ pc = "scan" \/ Scope =>
              /\ seg_start <= cursor /\ cursor < n_items
              /\ seg_start > 0 => b[n_items] - b[seg_start] >= seg_fault_threshold
        /\ pc = "scan" => /\ running_faults = b[cursor] - b[seg_start]
                          /\ faults_so_far = b[cursor]
        /\ Scope =>
              /\ batch_groups = seg_start /\ queue_base = seg_start
              /\ seg_num_items = cursor - seg_start + 1
              /\ faults_so_far = b[cursor + 1]
              /\ \/ at_end
                 \/ /\ b[cursor + 1] - b[seg_start] >= seg_fault_threshold
                    /\ b[n_items] - b[cursor + 1] >= seg_fault_threshold

Position ==
    /\ mode \in SegmentedModes => LoopPosition
    /\ mode \notin SegmentedModes /\ pc # "idle" => seg_num_items = n_items
    /\ mode \notin SegmentedModes \/ pc = "idle" => batch_groups = 0

Handed ==
    /\ pc \in {"scan", "reuse", "open_copy", "open_map", "pair_copy", "pair_map", "start"} =>
          \A g \in 0 .. QueueSize - 1 :
              handed[g] = IF mode \in SegmentedModes /\ g < seg_start THEN 1 ELSE 0
    /\ pc \in {"pre_copy", "pre_map", "wait", "close"} =>
          \A g \in 0 .. QueueSize - 1 :
              handed[g] = IF g < batch_groups + seg_num_items THEN 1 ELSE 0
    /\ pc \in {"return", "idle"} /\ status = "NV_OK" =>
          \A g \in 0 .. n_items - 1 : handed[g] = 1

\* The pair opened in advance, and those the workers of the dispatch may use.
Ahead == IF cur_push_open THEN {cur_slot} ELSE {}
InUse == IF mode \in TableModes THEN 0 .. Len(segments) - 1 ELSE {active}

OpenMaps ==
    IF pc \in {"pair_copy", "pair_map"} THEN 0 .. opened_pairs - 1
    ELSE IF merge_state = 2 THEN InUse \cup Ahead
    ELSE Ahead

OpenCopies ==
    OpenMaps \cup (IF pc = "pair_map" THEN {opened_pairs}
                   ELSE IF pc = "open_map" THEN {cur_slot}
                   ELSE IF pc = "pre_map" THEN {1 - active}
                   ELSE {})

Paired ==
    \A p \in Pairs : /\ copy_push[p] = IF p \in OpenCopies THEN 1 ELSE 0
                     /\ map_push[p] = IF p \in OpenMaps THEN 1 ELSE 0

IInv == TypeOK /\ Tables /\ Control /\ Position /\ Handed /\ Paired

-----------------------------------------------------------------------------
(* Recursion on an interval *)

\* Induction: the least element outside T would have a predecessor in T.
LEMMA IntervalInduction ==
    ASSUME NEW n \in Nat, NEW T, 0 \in T, \A i \in 1 .. n : i - 1 \in T => i \in T
    PROVE  0 .. n \subseteq T
  <1> DEFINE Rest == {i \in 0 .. n : i \notin T}
  <1> SUFFICES ASSUME Rest # {} PROVE FALSE
    OBVIOUS
  <1>1. Rest \subseteq Nat
    OBVIOUS
  <1>2. PICK m \in Rest : \A i \in Rest : <<i, m>> \notin OpToRel(<, Nat)
    <2> HIDE DEF Rest
    <2> QED BY <1>1, WFMin, NatLessThanWellFounded
  <1>3. m \in 1 .. n /\ m - 1 \in 0 .. n
    OBVIOUS
  <1>4. m - 1 \notin Rest
    <2>1. <<m - 1, m>> \in OpToRel(<, Nat)
      BY <1>3 DEF OpToRel
    <2> QED BY <1>2, <2>1
  <1> QED BY <1>3, <1>4

\* The functions on 0 .. n that start with z and whose step i is G[i].
Loops(n, S) == [1 .. n -> [S -> S]]
RunsOf(n, S, z, G) ==
    {h \in [0 .. n -> S] : h[0] = z /\ \A i \in 1 .. n : h[i] = G[i][h[i - 1]]}

\* A function whose values are computed from their predecessors exists.
LEMMA RecursionExists ==
    ASSUME NEW n \in Nat, NEW S, NEW z \in S, NEW G \in Loops(n, S)
    PROVE  \E h : h \in RunsOf(n, S, z, G)
  <1> USE DEF Loops
  <1> DEFINE Good(m) == \E h \in [0 .. m -> S] :
                            h[0] = z /\ \A i \in 1 .. m : h[i] = G[i][h[i - 1]]
             T == {m \in 0 .. n : Good(m)}
  <1>1. 0 \in T
    <2> DEFINE h == [i \in 0 .. 0 |-> z]
    <2>1. h \in [0 .. 0 -> S] /\ h[0] = z /\ \A i \in 1 .. 0 : h[i] = G[i][h[i - 1]]
      OBVIOUS
    <2>2. Good(0)
      <3> HIDE DEF h
      <3> QED BY <2>1
    <2> QED BY <2>2
  <1>2. ASSUME NEW m \in 1 .. n, m - 1 \in T PROVE m \in T
    <2>1. PICK g \in [0 .. m - 1 -> S] : g[0] = z /\ \A i \in 1 .. m - 1 : g[i] = G[i][g[i - 1]]
      BY <1>2
    <2> DEFINE h == [i \in 0 .. m |-> IF i = m THEN G[m][g[m - 1]] ELSE g[i]]
    <2>2. g[m - 1] \in S /\ G[m] \in [S -> S]
      OBVIOUS
    <2>3. h \in [0 .. m -> S]
      BY <2>2
    <2>4. /\ h[m] = G[m][g[m - 1]]
          /\ \A i \in 0 .. m - 1 : h[i] = g[i]
      OBVIOUS
    <2> HIDE DEF h
    <2>5. h[0] = z /\ \A i \in 1 .. m : h[i] = G[i][h[i - 1]]
      BY <2>1, <2>4
    <2>6. Good(m) /\ m \in 0 .. n
      BY <2>3, <2>5
    <2> HIDE DEF Good
    <2> QED BY <2>6
  <1>3. 0 .. n \subseteq T
    <2> HIDE DEF T
    <2> QED BY <1>1, <1>2, IntervalInduction
  <1>4. n \in T
    <2> HIDE DEF T
    <2> QED BY <1>3
  <1> QED BY <1>4 DEF RunsOf

\* Before sums up: the equations of the loop that adds up num_faults.
LEMMA BeforeSums ==
    ASSUME NEW f \in Seq(Nat)
    PROVE  /\ Before(f) \in [0 .. Len(f) -> Nat]
           /\ Before(f)[0] = 0
           /\ \A k \in 1 .. Len(f) : Before(f)[k] = Before(f)[k - 1] + f[k]
  <1> DEFINE n == Len(f)
             G == [i \in 1 .. n |-> [x \in Nat |-> x + f[i]]]
             F(h) == [k \in 0 .. n |-> IF k = 0 THEN 0 ELSE h[k - 1] + f[k]]
  <1>1. n \in Nat /\ G \in [1 .. n -> [Nat -> Nat]]
    OBVIOUS
  <1>2. PICK h \in [0 .. n -> Nat] : h[0] = 0 /\ \A i \in 1 .. n : h[i] = G[i][h[i - 1]]
    <2> DEFINE S == Nat
               z == 0
    <2>1. z \in S /\ G \in Loops(n, S)
      BY <1>1 DEF Loops
    <2> HIDE DEF G, n, S, z
    <2>2. PICK h : h \in RunsOf(n, S, z, G)
      BY <1>1, <2>1, RecursionExists
    <2> QED BY <2>2 DEF RunsOf, S, z
  <1>3. h = F(h)
    <2>0. \A i \in 1 .. n : i - 1 \in 0 .. n /\ \A x \in Nat : G[i][x] = x + f[i]
      OBVIOUS
    <2>1. \A i \in 1 .. n : h[i] = h[i - 1] + f[i]
      <3> HIDE DEF G, n
      <3> QED BY <1>2, <2>0
    <2>2. \A k \in 0 .. n : h[k] = F(h)[k]
      BY <1>2, <2>1
    <2> QED BY <2>2
  <1>4. Before(f) = CHOOSE g : g = F(g)
    BY DEF Before
  <1>5. Before(f) = F(Before(f))
    <2> HIDE DEF F
    <2> QED BY <1>3, <1>4
  <1>6. Before(f)[0] = 0 /\ \A k \in 1 .. n : Before(f)[k] = Before(f)[k - 1] + f[k]
    BY <1>5
  <1> DEFINE T == {k \in 0 .. n : Before(f)[k] \in Nat}
  <1>7. 0 .. n \subseteq T
    <2>1. 0 \in T
      BY <1>6
    <2>2. ASSUME NEW i \in 1 .. n, i - 1 \in T PROVE i \in T
      <3>1. Before(f)[i - 1] \in Nat /\ f[i] \in Nat /\ i \in 0 .. n
        BY <2>2
      <3>2. Before(f)[i] \in Nat
        BY <1>6, <3>1
      <3> QED BY <3>1, <3>2
    <2> HIDE DEF T, n
    <2> QED BY <1>1, <2>1, <2>2, IntervalInduction
  <1>8. Before(f) \in [0 .. n -> Nat]
    BY <1>5, <1>7
  <1> QED BY <1>6, <1>8

-----------------------------------------------------------------------------
(* Segments and shares *)

LEMMA DivNat ==
    ASSUME NEW a \in Nat, NEW b \in Nat \ {0}
    PROVE  a \div b \in Nat
  OBVIOUS

\* The threshold of a segment is a count.
LEMMA ThresholdNat ==
    ASSUME NEW f \in Batches, NEW adapt \in BOOLEAN
    PROVE  Threshold(f, adapt) \in Nat
  <1> USE DispatchAssumption
  <1> DEFINE target == Least(Greatest(1, TargetSegments), Len(f))
  <1>1. target \in Nat \ {0}
    BY DEF Least, Greatest
  <1>2. TotalFaults(f) \in Nat
    <2>1. f \in Seq(Nat) /\ Len(f) \in 0 .. Len(f)
      OBVIOUS
    <2> QED BY <2>1, BeforeSums DEF TotalFaults
  <1>3. (TotalFaults(f) + target - 1) \div target \in Nat
    <2> DEFINE t == TotalFaults(f)
    <2> HIDE DEF t, target
    <2>1. t + target - 1 \in Nat
      BY <1>1, <1>2 DEF t
    <2> QED BY <1>1, <2>1, DivNat DEF t
  <1> DEFINE adaptive == (TotalFaults(f) + target - 1) \div target
  <1>4. Threshold(f, adapt) = IF adapt /\ TargetSegments > 0
                              THEN Greatest(Greatest(1, MinSegmentFaults), adaptive)
                              ELSE IF SegmentSize > 0 THEN SegmentSize ELSE DefaultSegmentSize
    BY DEF Threshold
  <1> HIDE DEF adaptive
  <1> QED BY <1>3, <1>4 DEF Greatest, adaptive

\* segs lie end to end from 0 to e.
Chain(segs, e) ==
    /\ segs \in Seq(Segment)
    /\ Len(segs) = 0 => e = 0
    /\ Len(segs) > 0 => /\ segs[1].start = 0
                        /\ segs[Len(segs)].start + segs[Len(segs)].count = e
    /\ \A k \in 1 .. Len(segs) - 1 : segs[k + 1].start = segs[k].start + segs[k].count

\* A segment appended at the end of a chain.
LEMMA ChainAppend ==
    ASSUME NEW segs, NEW e \in Nat, NEW i \in Nat, Chain(segs, e), e < i
    PROVE  Chain(Append(segs, [start |-> e, count |-> i - e]), i)
  <1> DEFINE s == [start |-> e, count |-> i - e]
             t == Append(segs, s)
  <1>1. segs \in Seq(Segment) /\ s \in Segment /\ s.start = e /\ s.count = i - e
    BY DEF Chain, Segment
  <1> HIDE DEF s
  <1>2. /\ t \in Seq(Segment) /\ Len(t) = Len(segs) + 1 /\ Len(segs) \in Nat
        /\ t[Len(t)] = s
        /\ \A k \in 1 .. Len(segs) : t[k] = segs[k]
    BY <1>1
  <1> HIDE DEF t
  <1>3. t[1].start = 0
    <2>1. CASE Len(segs) = 0
      BY <1>1, <1>2, <2>1 DEF Chain
    <2>2. CASE Len(segs) > 0
      BY <1>2, <2>2 DEF Chain
    <2> QED BY <1>2, <2>1, <2>2
  <1>4. ASSUME NEW k \in 1 .. Len(t) - 1
        PROVE  t[k + 1].start = t[k].start + t[k].count
    <2>1. CASE k = Len(segs)
      BY <1>1, <1>2, <2>1 DEF Chain
    <2>2. CASE k \in 1 .. Len(segs) - 1
      <3>1. t[k] = segs[k] /\ t[k + 1] = segs[k + 1]
        BY <1>2, <2>2
      <3> QED BY <2>2, <3>1 DEF Chain
    <2> QED BY <1>2, <2>1, <2>2
  <1>5. Chain(t, i)
    BY <1>1, <1>2, <1>3, <1>4 DEF Chain
  <1> QED BY <1>5 DEF s, t

\* The last segment of a chain takes one more group.
LEMMA ChainGrow ==
    ASSUME NEW segs, NEW e \in Nat, Chain(segs, e), Len(segs) > 0
    PROVE  LET c == Len(segs)
               t == [segs EXCEPT ![c] = [start |-> segs[c].start, count |-> segs[c].count + 1]]
           IN  Chain(t, e + 1) /\ Len(t) = c
  <1> DEFINE c == Len(segs)
             s == [start |-> segs[c].start, count |-> segs[c].count + 1]
             t == [segs EXCEPT ![c] = s]
  <1>1. segs \in Seq(Segment) /\ c \in 1 .. Len(segs) /\ segs[c] \in Segment
    BY DEF Chain
  <1>2. s \in Segment /\ s.start = segs[c].start /\ s.count = segs[c].count + 1
    BY <1>1 DEF Segment
  <1> HIDE DEF s
  <1>3. /\ t \in Seq(Segment) /\ Len(t) = c /\ t[c] = s
        /\ \A k \in 1 .. c - 1 : t[k] = segs[k]
    BY <1>1, <1>2
  <1> HIDE DEF t
  <1>4. t[1].start = 0
    BY <1>1, <1>2, <1>3 DEF Chain
  <1>5. ASSUME NEW k \in 1 .. c - 1
        PROVE  t[k + 1].start = t[k].start + t[k].count
    <2>1. t[k + 1].start = segs[k + 1].start
      BY <1>1, <1>2, <1>3
    <2> QED BY <1>3, <2>1 DEF Chain
  <1>6. t[c].start + t[c].count = e + 1
    <2>1. segs[c].start + segs[c].count = e /\ segs[c].start \in Nat /\ segs[c].count \in Nat
      BY <1>1 DEF Chain, Segment
    <2> QED BY <1>2, <1>3, <2>1
  <1>7. Chain(t, e + 1)
    BY <1>1, <1>3, <1>4, <1>5, <1>6 DEF Chain
  <1> QED BY <1>3, <1>7 DEF t, s

\* What the scan of the table policies knows after i groups of n.
Scanned(p, cap, n, i) ==
    /\ p.start \in Nat /\ p.start <= i /\ p.faults \in Nat
    /\ Len(p.segs) <= cap /\ Len(p.segs) <= i
    /\ Chain(p.segs, IF Len(p.segs) = cap THEN i ELSE p.start)
    /\ i = n => Len(p.segs) = cap \/ p.start = n

\* States of the scan, before anything is known of them.
Scans == [segs : Seq([start : Int, count : Int]), faults : Int, start : Int]

\* At the cap the last segment takes the group.
LEMMA ScanBlockFull ==
    ASSUME NEW f, NEW threshold, NEW cap, NEW i, NEW p \in Scans,
           cap \in 1 .. Len(p.segs), Len(p.segs) = cap
    PROVE  LET s == p.segs
           IN  ScanBlock(f, threshold, cap, p, i)
                  = [p EXCEPT !.segs = [s EXCEPT ![cap] = [start |-> s[cap].start,
                                                           count |-> s[cap].count + 1]]]
  <1> DEFINE r == [p.segs[cap] EXCEPT !.count = @ + 1]
  <1>1. r = [start |-> p.segs[cap].start, count |-> p.segs[cap].count + 1]
    <2> DEFINE R == [start : Int, count : Int]
    <2>1. p.segs[cap] \in R
      <3>1. p.segs \in Seq(R)
        BY DEF Scans
      <3> HIDE DEF R
      <3> QED BY <3>1
    <2> QED BY <2>1
  <1>2. ScanBlock(f, threshold, cap, p, i) = [p EXCEPT !.segs[cap].count = @ + 1]
    BY DEF ScanBlock
  <1>3. [p EXCEPT !.segs[cap].count = @ + 1] = [p EXCEPT !.segs = [p.segs EXCEPT ![cap] = r]]
    BY Zenon
  <1> QED BY <1>1, <1>2, <1>3

LEMMA ScanBlockType ==
    ASSUME NEW f \in Seq(Nat \ {0}), NEW threshold \in Nat, NEW cap \in Nat \ {0},
           NEW i \in 1 .. Len(f), NEW p \in Scans
    PROVE  ScanBlock(f, threshold, cap, p, i) \in Scans
  <1> DEFINE R == [start : Int, count : Int]
  <1>1. p.segs \in Seq(R) /\ p.faults \in Int /\ p.start \in Int /\ f[i] \in Int /\ i \in Int
    BY DEF Scans
  <1>2. CASE Len(p.segs) = cap
    <2> DEFINE r == [start |-> p.segs[cap].start, count |-> p.segs[cap].count + 1]
               t == [p.segs EXCEPT ![cap] = r]
    <2>1. cap \in 1 .. Len(p.segs)
      BY <1>1, <1>2
    <2>2. p.segs[cap] \in R
      <3> HIDE DEF R
      <3> QED BY <1>1, <2>1
    <2>3. r \in R
      BY <2>2
    <2>4. t \in Seq(R)
      <3> HIDE DEF r, R
      <3> QED BY <1>1, <2>1, <2>3
    <2>5. ScanBlock(f, threshold, cap, p, i) = [p EXCEPT !.segs = t]
      BY <1>2, <2>1, ScanBlockFull
    <2> HIDE DEF t
    <2> QED BY <2>4, <2>5 DEF Scans
  <1>3. CASE Len(p.segs) # cap /\ (p.faults + f[i] >= threshold \/ i = Len(f))
    <2> DEFINE t == Append(p.segs, [start |-> p.start, count |-> i - p.start])
    <2>1. t \in Seq(R)
      BY <1>1
    <2>2. ScanBlock(f, threshold, cap, p, i) = [segs |-> t, faults |-> 0, start |-> i]
      BY <1>3 DEF ScanBlock
    <2> HIDE DEF t
    <2> QED BY <1>1, <2>1, <2>2 DEF Scans
  <1>4. CASE Len(p.segs) # cap /\ ~(p.faults + f[i] >= threshold \/ i = Len(f))
    <2>1. ScanBlock(f, threshold, cap, p, i) = [p EXCEPT !.faults = @ + f[i]]
      BY <1>4 DEF ScanBlock
    <2> QED BY <1>1, <2>1 DEF Scans
  <1> QED BY <1>2, <1>3, <1>4

LEMMA ScanBlockStep ==
    ASSUME NEW f \in Seq(Nat \ {0}), NEW threshold \in Nat, NEW cap \in Nat \ {0},
           NEW i \in 1 .. Len(f), NEW p \in Scans, Scanned(p, cap, Len(f), i - 1)
    PROVE  Scanned(ScanBlock(f, threshold, cap, p, i), cap, Len(f), i)
  <1> DEFINE q == ScanBlock(f, threshold, cap, p, i)
             n == Len(f)
  <1>1. /\ p.start \in Nat /\ p.start <= i - 1 /\ p.faults \in Nat
        /\ Len(p.segs) <= cap /\ Len(p.segs) <= i - 1 /\ Len(p.segs) \in Nat
        /\ f[i] \in Nat /\ i \in Nat /\ n \in Nat /\ i <= n /\ i - 1 \in Nat
    BY DEF Scanned, Scans
  <1>2. CASE Len(p.segs) = cap
    <2> DEFINE s == p.segs
               t == [s EXCEPT ![cap] = [start |-> s[cap].start, count |-> s[cap].count + 1]]
    <2>1. Chain(s, i - 1) /\ cap = Len(s) /\ cap \in 1 .. Len(s)
      BY <1>1, <1>2 DEF Scanned
    <2>2. Chain(t, i) /\ Len(t) = cap
      <3> DEFINE e == i - 1
      <3>1. e \in Nat /\ e + 1 = i /\ Chain(s, e) /\ Len(s) > 0
        BY <1>1, <2>1
      <3> HIDE DEF e, s
      <3> QED BY <2>1, <3>1, ChainGrow
    <2>3. q = [p EXCEPT !.segs = t]
      BY <1>2, <2>1, ScanBlockFull
    <2> HIDE DEF t, q
    <2>4. q.segs = t /\ q.faults = p.faults /\ q.start = p.start
      BY <2>3 DEF Scans
    <2>5. Scanned(q, cap, n, i)
      BY <1>1, <1>2, <2>2, <2>4 DEF Scanned
    <2> QED BY <2>5 DEF q
  <1>3. CASE Len(p.segs) # cap /\ (p.faults + f[i] >= threshold \/ i = Len(f))
    <2> DEFINE t == Append(p.segs, [start |-> p.start, count |-> i - p.start])
    <2>1. Chain(p.segs, p.start)
      BY <1>3 DEF Scanned
    <2>2. Chain(t, i)
      BY <1>1, <2>1, ChainAppend
    <2>3. Len(t) = Len(p.segs) + 1
      BY DEF Scans
    <2>4. q = [segs |-> t, faults |-> 0, start |-> i]
      BY <1>3 DEF ScanBlock
    <2> HIDE DEF t, q
    <2>5. q.segs = t /\ q.faults = 0 /\ q.start = i
      BY <2>4
    <2>6. Scanned(q, cap, n, i)
      BY <1>1, <1>3, <2>2, <2>3, <2>5 DEF Scanned
    <2> QED BY <2>6 DEF q
  <1>4. CASE Len(p.segs) # cap /\ ~(p.faults + f[i] >= threshold \/ i = Len(f))
    <2>1. Chain(p.segs, p.start)
      BY <1>4 DEF Scanned
    <2>2. q = [p EXCEPT !.faults = @ + f[i]]
      BY <1>4 DEF ScanBlock
    <2> HIDE DEF q
    <2>3. q.segs = p.segs /\ q.faults = p.faults + f[i] /\ q.start = p.start
      BY <2>2 DEF Scans
    <2>4. Scanned(q, cap, n, i)
      BY <1>1, <1>4, <2>1, <2>3 DEF Scanned
    <2> QED BY <2>4 DEF q
  <1> QED BY <1>2, <1>3, <1>4

\* The segments of the tables cover the batch, within the cap.
LEMMA TableSegmentsCover ==
    ASSUME NEW f \in Seq(Nat \ {0}), Len(f) > 0, NEW threshold \in Nat, NEW cap \in Nat \ {0}
    PROVE  LET segs == TableSegments(f, threshold, cap)
           IN  Covers(segs, Len(f)) /\ Len(segs) <= cap
  <1> DEFINE n == Len(f)
             z == [segs |-> <<>>, faults |-> 0, start |-> 0]
             Step(p, i) == ScanBlock(f, threshold, cap, p, i)
             G == [i \in 1 .. n |-> [p \in Scans |-> Step(p, i)]]
             F(h) == [i \in 0 .. n |-> IF i = 0 THEN z ELSE Step(h[i - 1], i)]
             h == CHOOSE g : g = F(g)
  <1>1. n \in Nat /\ n > 0 /\ z \in Scans
    BY DEF Scans
  <1>2. \A i \in 1 .. n : \A p \in Scans : Step(p, i) \in Scans
    BY ScanBlockType
  <1>3. TableSegments(f, threshold, cap) = h[n].segs
    BY DEF TableSegments
  <1>4. Scanned(z, cap, n, 0)
    BY <1>1 DEF Scanned, Chain
  <1>5. \A i \in 1 .. n : \A p \in Scans : Scanned(p, cap, n, i - 1) => Scanned(Step(p, i), cap, n, i)
    BY ScanBlockStep
  <1>6. PICK r \in [0 .. n -> Scans] : r[0] = z /\ \A i \in 1 .. n : r[i] = Step(r[i - 1], i)
    <2>1. G \in Loops(n, Scans)
      <3> HIDE DEF Step, n
      <3> QED BY <1>2 DEF Loops
    <2>2. PICK r : r \in RunsOf(n, Scans, z, G)
      <3> HIDE DEF G, n, z
      <3> QED BY <1>1, <2>1, RecursionExists
    <2>3. r \in [0 .. n -> Scans] /\ r[0] = z /\ \A i \in 1 .. n : r[i] = G[i][r[i - 1]]
      <3> HIDE DEF G, n, z
      <3> QED BY <2>2 DEF RunsOf
    <2>4. \A i \in 1 .. n : i - 1 \in 0 .. n /\ \A p \in Scans : G[i][p] = Step(p, i)
      <3> HIDE DEF Step, z
      <3> QED BY <1>1
    <2> HIDE DEF G, Step, n, z
    <2> QED BY <2>3, <2>4
  <1> HIDE DEF Step, z, n
  <1>7. r = F(r)
    <2>1. \A i \in 0 .. n : r[i] = F(r)[i]
      BY <1>6
    <2> QED BY <2>1
  <1>8. h = F(h)
    <2> HIDE DEF F
    <2> QED BY <1>7
  <1> HIDE DEF h
  <1>9. h[0] = z /\ \A i \in 1 .. n : h[i] = Step(h[i - 1], i)
    BY <1>1, <1>8
  <1> DEFINE T == {i \in 0 .. n : h[i] \in Scans /\ Scanned(h[i], cap, n, i)}
  <1>10. 0 .. n \subseteq T
    <2>1. 0 \in T
      BY <1>1, <1>4, <1>9
    <2>2. ASSUME NEW i \in 1 .. n, i - 1 \in T PROVE i \in T
      <3>1. h[i - 1] \in Scans /\ Scanned(h[i - 1], cap, n, i - 1) /\ i \in 0 .. n
        BY <1>1, <2>2
      <3>2. Step(h[i - 1], i) \in Scans /\ Scanned(Step(h[i - 1], i), cap, n, i)
        BY <1>2, <1>5, <3>1
      <3> QED BY <1>9, <3>1, <3>2
    <2> HIDE DEF T
    <2> QED BY <1>1, <2>1, <2>2, IntervalInduction
  <1>11. Scanned(h[n], cap, n, n)
    BY <1>1, <1>10
  <1> DEFINE segs == h[n].segs
  <1>12. Chain(segs, n) /\ Len(segs) <= cap /\ Len(segs) <= n
    BY <1>1, <1>11 DEF Scanned
  <1> HIDE DEF segs
  <1>13. Len(segs) \in Nat /\ Len(segs) > 0
    BY <1>1, <1>12 DEF Chain
  <1>14. Covers(segs, n)
    BY <1>1, <1>12, <1>13 DEF Chain, Covers
  <1> QED BY <1>3, <1>12, <1>14 DEF segs, n

\* Worker limits.
LEMMA WorkerLimits ==
    /\ WorkerLimit \in Nat \ {0}
    /\ \A n \in Nat : NumActive(n) \in Nat /\ NumActive(n) <= n
    /\ \A n \in Nat \ {0} : NumActive(n) \in Nat \ {0}
    /\ \A m : SegmentCap(m) \in Nat \ {0} /\ SegmentCap(m) <= KthreadMaxWorkers
    /\ \A m : m # "dynamic" => SegmentCap(m) <= WorkerLimit
  <1>1. WorkerLimit \in Nat \ {0} /\ WorkerLimit <= KthreadMaxWorkers
    BY DispatchAssumption DEF WorkerLimit, Least
  <1>2. \A n \in Nat : NumActive(n) \in Nat /\ NumActive(n) <= n
    BY <1>1 DEF NumActive, Least
  <1>3. \A n \in Nat \ {0} : NumActive(n) \in Nat \ {0}
    BY <1>1 DEF NumActive, Least
  <1>4. ASSUME NEW m PROVE SegmentCap(m) \in Nat \ {0} /\ SegmentCap(m) <= KthreadMaxWorkers
    BY <1>1, DispatchAssumption DEF SegmentCap, Least, Greatest
  <1>5. ASSUME NEW m, m # "dynamic" PROVE SegmentCap(m) <= WorkerLimit
    BY <1>1, <1>5, DispatchAssumption DEF SegmentCap, Least, Greatest
  <1> QED BY <1>1, <1>2, <1>3, <1>4, <1>5

\* Every segment gets a worker.
LEMMA SegmentWorkersPositive ==
    ASSUME NEW segs, NEW n \in Nat \ {0}, Covers(segs, n),
           NEW k \in 1 .. Len(segs), NEW assigned \in Nat
    PROVE  SegmentWorkers(segs, n, k, assigned) \in Nat \ {0}
  <1> DEFINE c == segs[k].count
             a == NumActive(n)
             share == IF k < Len(segs) THEN (c * a) \div n
                      ELSE IF assigned <= a THEN a - assigned ELSE QueueSize
  <1>1. c \in Nat \ {0}
    <2>1. segs[k] \in Segment
      BY DEF Covers
    <2> QED BY <2>1 DEF Segment
  <1>2. a \in Nat
    BY WorkerLimits
  <1>3. SegmentWorkers(segs, n, k, assigned) = Least(Greatest(1, share), c)
    BY DEF SegmentWorkers
  <1> HIDE DEF c, a
  <1>4. (c * a) \div n \in Nat
    <2> DEFINE d == c * a
    <2>1. d \in Nat
      BY <1>1, <1>2
    <2> HIDE DEF d
    <2> QED BY <2>1, DivNat DEF d
  <1>5. share \in Nat
    <2> DEFINE d == (c * a) \div n
    <2> HIDE DEF d
    <2> QED BY <1>2, <1>4, DispatchAssumption DEF d
  <1> HIDE DEF share
  <1> QED BY <1>1, <1>3, <1>5 DEF Least, Greatest

LEMMA ProportionalWorkersType ==
    ASSUME NEW segs, NEW n \in Nat \ {0}, Covers(segs, n)
    PROVE  LET w == ProportionalWorkers(segs, n)
           IN  w \in Seq(Nat \ {0}) /\ Len(w) = Len(segs)
  <1> DEFINE l == Len(segs)
             P == Nat \ {0}
             S == [w : Seq(P), assigned : Nat]
             z == [w |-> <<>>, assigned |-> 0]
             W(p, k) == SegmentWorkers(segs, n, k, p.assigned)
             Step(p, k) == [w |-> Append(p.w, W(p, k)), assigned |-> p.assigned + W(p, k)]
             G == [k \in 1 .. l |-> [p \in S |-> Step(p, k)]]
             F(h) == [k \in 0 .. l |-> IF k = 0 THEN z ELSE Step(h[k - 1], k)]
             h == CHOOSE g : g = F(g)
  <1>1. l \in Nat /\ z \in S /\ Len(z.w) = 0
    BY DEF Covers
  <1>2. ASSUME NEW k \in 1 .. l, NEW p \in S
        PROVE  Step(p, k) \in S /\ Len(Step(p, k).w) = Len(p.w) + 1
    <2>1. p.w \in Seq(P) /\ p.assigned \in Nat
      OBVIOUS
    <2>2. W(p, k) \in P
      BY <2>1, SegmentWorkersPositive
    <2> HIDE DEF W
    <2>3. Append(p.w, W(p, k)) \in Seq(P) /\ Len(Append(p.w, W(p, k))) = Len(p.w) + 1
      BY <2>1, <2>2
    <2>4. p.assigned + W(p, k) \in Nat
      BY <2>1, <2>2
    <2> HIDE DEF P
    <2> QED BY <2>3, <2>4
  <1>3. ProportionalWorkers(segs, n) = h[l].w
    BY DEF ProportionalWorkers
  <1>6. PICK r \in [0 .. l -> S] : r[0] = z /\ \A k \in 1 .. l : r[k] = Step(r[k - 1], k)
    <2> HIDE DEF l, S, Step, z
    <2>1. G \in Loops(l, S)
      BY <1>2 DEF Loops
    <2>2. PICK r : r \in RunsOf(l, S, z, G)
      <3> HIDE DEF G
      <3> QED BY <1>1, <2>1, RecursionExists
    <2>3. r \in [0 .. l -> S] /\ r[0] = z /\ \A k \in 1 .. l : r[k] = G[k][r[k - 1]]
      <3> HIDE DEF G
      <3> QED BY <2>2 DEF RunsOf
    <2>4. \A k \in 1 .. l : k - 1 \in 0 .. l /\ \A p \in S : G[k][p] = Step(p, k)
      BY <1>1
    <2> HIDE DEF G
    <2> QED BY <2>3, <2>4
  <1> HIDE DEF Step, z, l, S
  <1>7. r = F(r)
    <2>1. \A k \in 0 .. l : r[k] = F(r)[k]
      BY <1>6
    <2> QED BY <2>1
  <1>8. h = F(h)
    <2> HIDE DEF F
    <2> QED BY <1>7
  <1> HIDE DEF h
  <1>9. h[0] = z /\ \A k \in 1 .. l : h[k] = Step(h[k - 1], k)
    BY <1>1, <1>8
  <1> DEFINE T == {k \in 0 .. l : h[k] \in S /\ Len(h[k].w) = k}
  <1>10. 0 .. l \subseteq T
    <2>1. 0 \in T
      BY <1>1, <1>9
    <2>2. ASSUME NEW k \in 1 .. l, k - 1 \in T PROVE k \in T
      <3>1. h[k - 1] \in S /\ Len(h[k - 1].w) = k - 1 /\ k \in 0 .. l
        BY <1>1, <2>2
      <3>2. h[k] \in S /\ Len(h[k].w) = Len(h[k - 1].w) + 1
        BY <1>2, <1>9, <3>1
      <3> QED BY <3>1, <3>2
    <2> HIDE DEF T
    <2> QED BY <1>1, <2>1, <2>2, IntervalInduction
  <1>11. h[l] \in S /\ Len(h[l].w) = l
    BY <1>1, <1>10
  <1>12. h[l].w \in Seq(P)
    BY <1>11 DEF S
  <1> QED BY <1>3, <1>11, <1>12 DEF l

-----------------------------------------------------------------------------
(* The inductive invariant *)

USE DispatchAssumption

\* What every step is taken from.
LEMMA InBatch ==
    ASSUME IInv
    PROVE  /\ n_items \in Nat /\ n_items <= QueueSize
           /\ groups \in Seq(Nat \ {0}) /\ groups \in Seq(Nat)
           /\ pc # "idle" => n_items > 0
           /\ Before(groups) \in [0 .. n_items -> Nat] /\ Before(groups)[0] = 0
           /\ \A k \in 1 .. n_items : Before(groups)[k] = Before(groups)[k - 1] + groups[k]
  <1>1. /\ n_items \in Nat /\ n_items <= QueueSize
        /\ groups \in Seq(Nat \ {0}) /\ groups \in Seq(Nat)
        /\ pc # "idle" => n_items > 0
    BY DEF IInv, TypeOK, Control, n_items
  <1> QED BY <1>1, BeforeSums DEF n_items

\* The steps with their parameters; Succeeds is a set of Booleans.
LEMMA Steps ==
    ASSUME Next
    PROVE  \/ \E f \in Batches, m \in Modes, adapt \in DynamicSegments : BeginBatch(f, m, adapt)
           \/ ScanGroup
           \/ ReuseOpenPair
           \/ \E ok \in BOOLEAN : OpenCopy(ok)
           \/ \E ok \in BOOLEAN : OpenMap(ok)
           \/ \E ok \in BOOLEAN : PairCopy(ok)
           \/ \E ok \in BOOLEAN : PairMap(ok)
           \/ \E ok \in BOOLEAN : PreOpenCopy(ok)
           \/ \E ok \in BOOLEAN : PreOpenMap(ok)
           \/ StartDispatch
           \/ \E s \in DispatchStatus : WaitDone(s)
           \/ CloseSegment
           \/ CloseWhole
           \/ CloseTable
           \/ ReturnStatus
  <1>1. Succeeds \subseteq BOOLEAN
    BY DEF Succeeds
  <1> HIDE DispatchAssumption
  <1> QED BY <1>1, Zenon DEF Next

\* The parts of TypeOK: Booleans, pushes, and the rest.
Flags ==
    /\ cur_push_open \in BOOLEAN /\ dynamic_active \in BOOLEAN
    /\ seg_parallel_active \in BOOLEAN /\ merge_dispatch_active \in BOOLEAN

PushTypes == copy_push \in [Pairs -> Int] /\ map_push \in [Pairs -> Int]

Counts ==
    /\ pc \in {"idle", "scan", "reuse", "open_copy", "open_map", "pair_copy",
               "pair_map", "start", "pre_copy", "pre_map", "wait", "close", "return"}
    /\ status \in {"NV_OK"} \cup DispatchStatus
    /\ groups \in Batches \cup {<<>>} /\ mode \in Modes \cup {"none"}
    /\ seg_fault_threshold \in Nat
    /\ cursor \in 0 .. QueueSize /\ seg_start \in 0 .. QueueSize
    /\ running_faults \in Nat /\ faults_so_far \in Nat
    /\ cur_slot \in {0, 1}
    /\ opened_pairs \in 0 .. KthreadMaxWorkers
    /\ merge_state \in {0, 2} /\ active \in {0, 1}
    /\ batch_groups \in 0 .. QueueSize /\ queue_base \in 0 .. QueueSize
    /\ seg_num_items \in 0 .. QueueSize
    /\ handed \in [0 .. QueueSize - 1 -> Nat]

\* The table policies have a pair for every segment.
LEMMA TablePairs ==
    ASSUME IInv, mode \in TableModes
    PROVE  /\ Len(segments) \in Nat /\ Len(segments) \in 1 .. KthreadMaxWorkers
           /\ \A p \in 0 .. Len(segments) - 1 : p \in Pairs
           /\ pc \in {"pair_copy", "pair_map"} => opened_pairs \in Pairs
  <1>1. Covers(segments, n_items) /\ Len(segments) <= SegmentCap(mode)
    BY DEF IInv, Tables
  <1>2. Len(segments) \in Nat /\ Len(segments) >= 1
    BY <1>1, InBatch DEF Covers
  <1>3. SegmentCap(mode) \in Nat /\ SegmentCap(mode) <= KthreadMaxWorkers
    BY WorkerLimits
  <1>4. pc \in {"pair_copy", "pair_map"} => opened_pairs < Len(segments)
    BY DEF IInv, Control
  <1>5. opened_pairs \in Nat
    BY DEF IInv, TypeOK
  <1> QED BY <1>1, <1>2, <1>3, <1>4, <1>5 DEF Pairs

LEMMA TypeParts == TypeOK <=> Flags /\ PushTypes /\ Counts
  BY Zenon DEF TypeOK, Flags, PushTypes, Counts

\* Booleans stay Booleans.
LEMMA FlagStep ==
    ASSUME IInv, [Next]_vars
    PROVE  Flags'
  <1>a. Flags
    BY TypeParts DEF IInv
  <1>1. ASSUME NEW f \in Batches, NEW m \in Modes, NEW adapt \in DynamicSegments, BeginBatch(f, m, adapt)
        PROVE  Flags'
    BY <1>1, <1>a, Zenon DEF BeginBatch, Flags
  <1>2. ASSUME ScanGroup
        PROVE  Flags'
    BY <1>2, <1>a, Zenon DEF ScanGroup, FormSegment, SegmentCloses, Flags
  <1>3. ASSUME ReuseOpenPair
        PROVE  Flags'
    BY <1>3, <1>a, Zenon DEF ReuseOpenPair, Activate, Flags
  <1>4. ASSUME NEW ok \in BOOLEAN, OpenCopy(ok)
        PROVE  Flags'
    BY <1>4, <1>a, Zenon DEF OpenCopy, FallBack, Opened, Flags
  <1>5. ASSUME NEW ok \in BOOLEAN, OpenMap(ok)
        PROVE  Flags'
    BY <1>5, <1>a, Zenon DEF OpenMap, Activate, FallBack, Opened, Ended, Flags
  <1>6. ASSUME NEW ok \in BOOLEAN, PairCopy(ok)
        PROVE  Flags'
    BY <1>6, <1>a, Zenon DEF PairCopy, Unwind, Opened, Flags
  <1>7. ASSUME NEW ok \in BOOLEAN, PairMap(ok)
        PROVE  Flags'
    BY <1>7, <1>a, Zenon DEF PairMap, Unwind, Opened, Flags
  <1>8. ASSUME NEW ok \in BOOLEAN, PreOpenCopy(ok)
        PROVE  Flags'
    BY <1>8, <1>a, Zenon DEF PreOpenCopy, Opened, Flags
  <1>9. ASSUME NEW ok \in BOOLEAN, PreOpenMap(ok)
        PROVE  Flags'
    BY <1>9, <1>a, Zenon DEF PreOpenMap, Opened, Ended, Flags
  <1>10. ASSUME StartDispatch
        PROVE  Flags'
    BY <1>10, <1>a, Zenon DEF StartDispatch, Flags
  <1>11. ASSUME NEW s \in DispatchStatus, WaitDone(s)
        PROVE  Flags'
    BY <1>11, <1>a, Zenon DEF WaitDone, NextSegment, Flags
  <1>12. ASSUME CloseSegment
        PROVE  Flags'
    BY <1>12, <1>a, Zenon DEF CloseSegment, NextSegment, Flags
  <1>13. ASSUME CloseWhole
        PROVE  Flags'
    BY <1>13, <1>a, Zenon DEF CloseWhole, Ended, Flags
  <1>14. ASSUME CloseTable
        PROVE  Flags'
    BY <1>14, <1>a, Zenon DEF CloseTable, Flags
  <1>15. ASSUME ReturnStatus
        PROVE  Flags'
    BY <1>15, <1>a, Zenon DEF ReturnStatus, Flags
  <1>16. CASE UNCHANGED vars
    BY <1>16, <1>a, Zenon DEF Flags
  <1> HIDE DispatchAssumption
  <1> QED BY <1>1, <1>2, <1>3, <1>4, <1>5, <1>6, <1>7, <1>8, <1>9, <1>10, <1>11, <1>12, <1>13, <1>14, <1>15, <1>16, Steps

\* Push counts stay counts.
LEMMA PushTypeStep ==
    ASSUME IInv, [Next]_vars
    PROVE  PushTypes'
  <1>a. PushTypes /\ cur_slot \in Pairs /\ 1 - active \in Pairs /\ 0 \in Pairs
    <2>1. PushTypes /\ cur_slot \in {0, 1} /\ active \in {0, 1}
      BY TypeParts DEF IInv, Counts
    <2>2. 0 \in Pairs /\ 1 \in Pairs
      BY DEF Pairs
    <2> QED BY <2>1, <2>2
  <1>b. pc \in {"pair_copy", "pair_map"} => opened_pairs \in Pairs
    BY TablePairs DEF IInv, Control
  <1>1. ASSUME NEW f \in Batches, NEW m \in Modes, NEW adapt \in DynamicSegments, BeginBatch(f, m, adapt)
        PROVE  PushTypes'
    BY <1>1, <1>a DEF BeginBatch, PushTypes
  <1>2. ASSUME ScanGroup
        PROVE  PushTypes'
    BY <1>2, <1>a DEF ScanGroup, FormSegment, SegmentCloses, PushTypes
  <1>3. ASSUME ReuseOpenPair
        PROVE  PushTypes'
    BY <1>3, <1>a DEF ReuseOpenPair, Activate, PushTypes
  <1>4. ASSUME NEW ok \in BOOLEAN, OpenCopy(ok)
        PROVE  PushTypes'
    BY <1>4, <1>a DEF OpenCopy, FallBack, Opened, PushTypes
  <1>5. ASSUME NEW ok \in BOOLEAN, OpenMap(ok)
        PROVE  PushTypes'
    BY <1>5, <1>a DEF OpenMap, Activate, FallBack, Opened, Ended, PushTypes
  <1>6. ASSUME NEW ok \in BOOLEAN, PairCopy(ok)
        PROVE  PushTypes'
    <2>1. opened_pairs \in Pairs
      BY <1>6, <1>b DEF PairCopy
    <2>2. CASE ok
      BY <1>6, <1>a, <2>1, <2>2 DEF PairCopy, Opened, PushTypes
    <2>3. CASE ~ok
      BY <1>6, <1>a, <2>1, <2>3 DEF PairCopy, Unwind, PushTypes
    <2> QED BY <2>2, <2>3
  <1>7. ASSUME NEW ok \in BOOLEAN, PairMap(ok)
        PROVE  PushTypes'
    <2>1. opened_pairs \in Pairs
      BY <1>7, <1>b DEF PairMap
    <2>2. CASE ok
      BY <1>7, <1>a, <2>1, <2>2 DEF PairMap, Opened, PushTypes
    <2>3. CASE ~ok
      BY <1>7, <1>a, <2>1, <2>3 DEF PairMap, Unwind, PushTypes
    <2> QED BY <2>2, <2>3
  <1>8. ASSUME NEW ok \in BOOLEAN, PreOpenCopy(ok)
        PROVE  PushTypes'
    BY <1>8, <1>a DEF PreOpenCopy, Opened, PushTypes
  <1>9. ASSUME NEW ok \in BOOLEAN, PreOpenMap(ok)
        PROVE  PushTypes'
    BY <1>9, <1>a DEF PreOpenMap, Opened, Ended, PushTypes
  <1>10. ASSUME StartDispatch
        PROVE  PushTypes'
    BY <1>10, <1>a DEF StartDispatch, PushTypes
  <1>11. ASSUME NEW s \in DispatchStatus, WaitDone(s)
        PROVE  PushTypes'
    BY <1>11, <1>a DEF WaitDone, NextSegment, PushTypes
  <1>12. ASSUME CloseSegment
        PROVE  PushTypes'
    BY <1>12, <1>a DEF CloseSegment, NextSegment, PushTypes
  <1>13. ASSUME CloseWhole
        PROVE  PushTypes'
    BY <1>13, <1>a DEF CloseWhole, Ended, PushTypes
  <1>14. ASSUME CloseTable
        PROVE  PushTypes'
    BY <1>14, <1>a DEF CloseTable, PushTypes
  <1>15. ASSUME ReturnStatus
        PROVE  PushTypes'
    BY <1>15, <1>a DEF ReturnStatus, PushTypes
  <1>16. CASE UNCHANGED vars
    BY <1>16, <1>a DEF PushTypes
  <1> HIDE DispatchAssumption
  <1> QED BY <1>1, <1>2, <1>3, <1>4, <1>5, <1>6, <1>7, <1>8, <1>9, <1>10, <1>11, <1>12, <1>13, <1>14, <1>15, <1>16, Steps

\* The counters stay in their ranges.
LEMMA CountStep ==
    ASSUME IInv, [Next]_vars
    PROVE  Counts'
  <1>a. /\ Counts /\ Tables /\ Control /\ Position
        /\ n_items \in Nat /\ n_items <= QueueSize /\ groups \in Seq(Nat)
    BY InBatch, TypeParts DEF IInv
  <1>1. ASSUME NEW f \in Batches, NEW m \in Modes, NEW adapt \in DynamicSegments, BeginBatch(f, m, adapt)
        PROVE  Counts'
    <2>1. Threshold(f, adapt) \in Nat
      BY ThresholdNat
    <2>2. Len(f) \in 0 .. QueueSize
      OBVIOUS
    <2>3. pc' \in {"start", "open_copy", "scan", "pair_copy"}
      BY <1>1 DEF BeginBatch, SegmentedModes, TableModes
    <2>4. /\ groups' = f /\ mode' = m /\ status' = "NV_OK"
          /\ seg_fault_threshold' = Threshold(f, adapt)
          /\ handed' = [g \in 0 .. QueueSize - 1 |-> 0]
          /\ cursor' = 0 /\ seg_start' = 0 /\ running_faults' = 0 /\ faults_so_far' = 0
          /\ cur_slot' = 0 /\ opened_pairs' = 0 /\ seg_num_items' = Len(f)
          /\ (queue_base' = 0 \/ queue_base' = queue_base)
          /\ (merge_state' = 0 \/ merge_state' = merge_state)
          /\ active' = active /\ batch_groups' = batch_groups
      BY <1>1 DEF BeginBatch
    <2> QED BY <1>a, <2>1, <2>2, <2>3, <2>4 DEF Counts
  <1>2. ASSUME ScanGroup
        PROVE  Counts'
    <2>1. pc = "scan" /\ mode \in SegmentedModes /\ LoopPosition
      BY <1>2, <1>a DEF ScanGroup, Control, Position
    <2>2. seg_start <= cursor /\ cursor < n_items
      BY <2>1 DEF LoopPosition
    <2>3. groups[cursor + 1] \in Nat
      BY <1>a, <2>2 DEF Counts, n_items
    <2>4. running_faults' \in Nat /\ faults_so_far' \in Nat
      <3>1. /\ running_faults' = running_faults + groups[cursor + 1]
            /\ faults_so_far' = faults_so_far + groups[cursor + 1]
        BY <1>2, Zenon DEF ScanGroup
      <3>2. running_faults \in Nat /\ faults_so_far \in Nat
        BY <1>a DEF Counts
      <3> QED BY <2>3, <3>1, <3>2
    <2>7. /\ pc' \in {"reuse", "open_copy", "scan"}
          /\ UNCHANGED <<callVars, seg_start, cur_slot, opened_pairs, merge_state, active, handed>>
      BY <1>2, <2>1, Zenon DEF ScanGroup
    <2>5. \/ cursor' = cursor + 1 /\ UNCHANGED dispatchVars
          \/ /\ cursor' = cursor /\ batch_groups' = seg_start /\ queue_base' = seg_start
             /\ seg_num_items' = cursor - seg_start + 1
      BY <1>2 DEF ScanGroup, FormSegment
    <2>6. /\ cursor' \in 0 .. QueueSize /\ batch_groups' \in 0 .. QueueSize
          /\ queue_base' \in 0 .. QueueSize /\ seg_num_items' \in 0 .. QueueSize
      BY <1>a, <2>2, <2>5 DEF Counts
    <2> QED BY <1>a, <2>4, <2>6, <2>7 DEF Counts
  <1>3. ASSUME ReuseOpenPair
        PROVE  Counts'
    BY <1>3, <1>a DEF ReuseOpenPair, Activate, Counts
  <1>4. ASSUME NEW ok \in BOOLEAN, OpenCopy(ok)
        PROVE  Counts'
    BY <1>4, <1>a DEF OpenCopy, FallBack, Opened, Counts
  <1>5. ASSUME NEW ok \in BOOLEAN, OpenMap(ok)
        PROVE  Counts'
    BY <1>5, <1>a DEF OpenMap, Activate, FallBack, Opened, Ended, Counts
  <1>6. ASSUME NEW ok \in BOOLEAN, PairCopy(ok)
        PROVE  Counts'
    BY <1>6, <1>a DEF PairCopy, Unwind, Opened, Counts
  <1>7. ASSUME NEW ok \in BOOLEAN, PairMap(ok)
        PROVE  Counts'
    <2>1. opened_pairs + 1 \in 0 .. KthreadMaxWorkers
      BY <1>7, TablePairs DEF PairMap, IInv, Control, Pairs
    <2>2. /\ pc' \in {"start", "pair_copy"}
          /\ (opened_pairs' = opened_pairs \/ opened_pairs' = opened_pairs + 1)
          /\ (merge_state' = merge_state \/ merge_state' = 2)
          /\ (batch_groups' = batch_groups \/ batch_groups' = 0)
          /\ (queue_base' = queue_base \/ queue_base' = 0)
          /\ UNCHANGED <<callVars, scanVars, cur_slot, active, seg_num_items, handed>>
      BY <1>7, Zenon DEF PairMap, Unwind
    <2>3. 0 \in 0 .. QueueSize
      BY DispatchAssumption
    <2>4. /\ opened_pairs \in 0 .. KthreadMaxWorkers /\ merge_state \in {0, 2}
          /\ batch_groups \in 0 .. QueueSize /\ queue_base \in 0 .. QueueSize
      BY <1>a, Zenon DEF Counts
    <2>5. /\ opened_pairs' \in 0 .. KthreadMaxWorkers /\ merge_state' \in {0, 2}
          /\ batch_groups' \in 0 .. QueueSize /\ queue_base' \in 0 .. QueueSize
      BY <2>1, <2>2, <2>3, <2>4, Zenon
    <2> QED BY <1>a, <2>2, <2>5 DEF Counts
  <1>8. ASSUME NEW ok \in BOOLEAN, PreOpenCopy(ok)
        PROVE  Counts'
    BY <1>8, <1>a DEF PreOpenCopy, Opened, Counts
  <1>9. ASSUME NEW ok \in BOOLEAN, PreOpenMap(ok)
        PROVE  Counts'
    BY <1>9, <1>a DEF PreOpenMap, Opened, Ended, Counts
  <1>10. ASSUME StartDispatch
        PROVE  Counts'
    BY <1>10, <1>a DEF StartDispatch, Counts
  <1>11. ASSUME NEW s \in DispatchStatus, WaitDone(s)
        PROVE  Counts'
    <2>1. mode \in SegmentedModes => cursor + 1 \in 0 .. QueueSize
      BY <1>11, <1>a DEF WaitDone, Position, LoopPosition, Scope, Counts
    <2>2. /\ pc' \in {"close", "return", "scan"} /\ status' = s
          /\ UNCHANGED <<groups, mode, seg_fault_threshold, slotVars, opened_pairs,
                         mergeVars, dispatchVars, handed, faults_so_far>>
      BY <1>11, Zenon DEF WaitDone, NextSegment
    <2>3. \/ UNCHANGED scanVars
          \/ /\ mode \in SegmentedModes /\ cursor' = cursor + 1 /\ seg_start' = cursor + 1
             /\ running_faults' = 0
      BY <1>11, Zenon DEF WaitDone, NextSegment
    <2>4. /\ cursor' \in 0 .. QueueSize /\ seg_start' \in 0 .. QueueSize
          /\ running_faults' \in Nat
      BY <1>a, <2>1, <2>3 DEF Counts
    <2> QED BY <1>a, <2>2, <2>4 DEF Counts
  <1>12. ASSUME CloseSegment
        PROVE  Counts'
    <2>1. mode \in SegmentedModes => cursor < n_items
      BY <1>12, <1>a DEF CloseSegment, Position, LoopPosition, Scope
    <2> QED BY <1>12, <1>a, <2>1 DEF CloseSegment, NextSegment, Counts
  <1>13. ASSUME CloseWhole
        PROVE  Counts'
    BY <1>13, <1>a DEF CloseWhole, Ended, Counts
  <1>14. ASSUME CloseTable
        PROVE  Counts'
    BY <1>14, <1>a DEF CloseTable, Counts
  <1>15. ASSUME ReturnStatus
        PROVE  Counts'
    BY <1>15, <1>a DEF ReturnStatus, Counts
  <1>16. CASE UNCHANGED vars
    BY <1>16, <1>a DEF Counts
  <1> HIDE DispatchAssumption
  <1> QED BY <1>1, <1>2, <1>3, <1>4, <1>5, <1>6, <1>7, <1>8, <1>9, <1>10, <1>11, <1>12, <1>13, <1>14, <1>15, <1>16, Steps

\* Only BeginBatch changes the batch, the policy and the tables.
LEMMA BatchKept ==
    ASSUME [Next]_vars
    PROVE  \/ \E f \in Batches, m \in Modes, adapt \in DynamicSegments : BeginBatch(f, m, adapt)
           \/ UNCHANGED <<groups, mode, seg_fault_threshold, segments, workers_per_seg>>
           \/ ReturnStatus
  <1> HIDE DispatchAssumption
  <1>1. CASE UNCHANGED vars
    BY <1>1
  <1>2. CASE Next
    BY <1>2, Steps, Zenon DEF ScanGroup, ReuseOpenPair, OpenCopy, OpenMap, PairCopy, PairMap,
       PreOpenCopy, PreOpenMap, StartDispatch, WaitDone, CloseSegment, CloseWhole, CloseTable
  <1> QED BY <1>1, <1>2

\* The tables of a new batch.
LEMMA TablesBegin ==
    ASSUME NEW f \in Batches, NEW m \in Modes, NEW adapt \in DynamicSegments, BeginBatch(f, m, adapt)
    PROVE  Tables'
  <1>1. f \in Seq(Nat \ {0}) /\ Len(f) \in Nat \ {0} /\ Len(f) > 0
    OBVIOUS
  <1>2. /\ groups' = f /\ mode' = m
        /\ m \in TableModes => segments' = TableSegments(f, Threshold(f, adapt), SegmentCap(m))
        /\ m = "group_seg" => workers_per_seg' = ProportionalWorkers(segments', Len(f))
    BY DEF BeginBatch
  <1>3. Threshold(f, adapt) \in Nat
    BY ThresholdNat
  <1>4. SegmentCap(m) \in Nat \ {0}
    BY WorkerLimits
  <1>5. m \in TableModes => Covers(segments', Len(f)) /\ Len(segments') <= SegmentCap(m)
    BY <1>1, <1>2, <1>3, <1>4, TableSegmentsCover
  <1>6. m = "group_seg" => /\ workers_per_seg' \in Seq(Nat \ {0})
                           /\ Len(workers_per_seg') = Len(segments')
    BY <1>1, <1>2, <1>5, ProportionalWorkersType DEF TableModes
  <1> HIDE DispatchAssumption
  <1> QED BY <1>2, <1>5, <1>6 DEF Tables, n_items

LEMMA TablesStep ==
    ASSUME IInv, [Next]_vars
    PROVE  Tables'
  <1>1. CASE UNCHANGED <<groups, mode, seg_fault_threshold, segments, workers_per_seg>>
    BY <1>1 DEF IInv, Tables, n_items
  <1>2. CASE ReturnStatus
    BY <1>2 DEF ReturnStatus, Tables, TableModes
  <1> QED BY <1>1, <1>2, BatchKept, TablesBegin

\* Where the call may be.
LEMMA ControlStep ==
    ASSUME IInv, [Next]_vars
    PROVE  Control'
  <1>a. Control /\ Counts /\ Flags
    BY TypeParts DEF IInv
  <1>1. ASSUME NEW f \in Batches, NEW m \in Modes, NEW adapt \in DynamicSegments, BeginBatch(f, m, adapt)
        PROVE  Control'
    <2>1. pc = "idle" /\ merge_state = 0 /\ ~dynamic_active /\ ~seg_parallel_active
      BY <1>1, <1>a DEF BeginBatch, Control, Counts
    <2>2. m \in TableModes => Len(segments') > 0
      <3>1. Tables' /\ mode' = m
        BY <1>1, TablesBegin DEF BeginBatch
      <3>2. m \in TableModes => Covers(segments', Len(groups'))
        BY <3>1 DEF Tables, n_items
      <3> QED BY <3>2 DEF Covers
    <2> QED BY <1>1, <1>a, <2>1, <2>2 DEF BeginBatch, Control, SegmentedModes, TableModes
  <1>2. ASSUME ScanGroup
        PROVE  Control'
    BY <1>2, <1>a DEF ScanGroup, FormSegment, SegmentCloses, Control, Counts, Flags, n_items, at_end, SegmentedModes, TableModes
  <1>3. ASSUME ReuseOpenPair
        PROVE  Control'
    BY <1>3, <1>a DEF ReuseOpenPair, Activate, Control, Counts, Flags, n_items, at_end, SegmentedModes, TableModes
  <1>4. ASSUME NEW ok \in BOOLEAN, OpenCopy(ok)
        PROVE  Control'
    BY <1>4, <1>a DEF OpenCopy, FallBack, Opened, Control, Counts, Flags, n_items, at_end, SegmentedModes, TableModes
  <1>5. ASSUME NEW ok \in BOOLEAN, OpenMap(ok)
        PROVE  Control'
    BY <1>5, <1>a DEF OpenMap, Activate, FallBack, Opened, Ended, Control, Counts, Flags, n_items, at_end, SegmentedModes, TableModes
  <1>6. ASSUME NEW ok \in BOOLEAN, PairCopy(ok)
        PROVE  Control'
    BY <1>6, <1>a DEF PairCopy, Unwind, Opened, Control, Counts, Flags, n_items, at_end, SegmentedModes, TableModes
  <1>7. ASSUME NEW ok \in BOOLEAN, PairMap(ok)
        PROVE  Control'
    BY <1>7, <1>a DEF PairMap, Unwind, Opened, Control, Counts, Flags, n_items, at_end, SegmentedModes, TableModes
  <1>8. ASSUME NEW ok \in BOOLEAN, PreOpenCopy(ok)
        PROVE  Control'
    BY <1>8, <1>a DEF PreOpenCopy, Opened, Control, Counts, Flags, n_items, at_end, SegmentedModes, TableModes
  <1>9. ASSUME NEW ok \in BOOLEAN, PreOpenMap(ok)
        PROVE  Control'
    BY <1>9, <1>a DEF PreOpenMap, Opened, Ended, Control, Counts, Flags, n_items, at_end, SegmentedModes, TableModes
  <1>10. ASSUME StartDispatch
        PROVE  Control'
    BY <1>10, <1>a DEF StartDispatch, Control, Counts, Flags, n_items, at_end, SegmentedModes, TableModes
  <1>11. ASSUME NEW s \in DispatchStatus, WaitDone(s)
        PROVE  Control'
    BY <1>11, <1>a DEF WaitDone, NextSegment, Control, Counts, Flags, n_items, at_end, SegmentedModes, TableModes
  <1>12. ASSUME CloseSegment
        PROVE  Control'
    BY <1>12, <1>a DEF CloseSegment, NextSegment, Control, Counts, Flags, n_items, at_end, SegmentedModes, TableModes
  <1>13. ASSUME CloseWhole
        PROVE  Control'
    BY <1>13, <1>a DEF CloseWhole, Ended, Control, Counts, Flags, n_items, at_end, SegmentedModes, TableModes
  <1>14. ASSUME CloseTable
        PROVE  Control'
    BY <1>14, <1>a DEF CloseTable, Control, Counts, Flags, n_items, at_end, SegmentedModes, TableModes
  <1>15. ASSUME ReturnStatus
        PROVE  Control'
    BY <1>15, <1>a DEF ReturnStatus, Control, Counts, Flags, n_items, at_end, SegmentedModes, TableModes
  <1>16. CASE UNCHANGED vars
    BY <1>16, <1>a DEF Control, Counts, Flags, n_items, at_end, SegmentedModes, TableModes
  <1> HIDE DispatchAssumption
  <1> QED BY <1>1, <1>2, <1>3, <1>4, <1>5, <1>6, <1>7, <1>8, <1>9, <1>10, <1>11, <1>12, <1>13, <1>14, <1>15, <1>16, Steps

\* Where the segment loop is, and which part of the batch is dispatched.
LEMMA PositionStep ==
    ASSUME IInv, [Next]_vars
    PROVE  Position'
  <1>a. /\ Control /\ Counts /\ Position
        /\ n_items \in Nat /\ n_items <= QueueSize /\ groups \in Seq(Nat)
        /\ Before(groups) \in [0 .. n_items -> Nat]
        /\ \A k \in 1 .. n_items : Before(groups)[k] = Before(groups)[k - 1] + groups[k]
    BY TypeParts, InBatch DEF IInv
  <1>1. ASSUME NEW f \in Batches, NEW m \in Modes, NEW adapt \in DynamicSegments, BeginBatch(f, m, adapt)
        PROVE  Position'
    <2>1. pc = "idle" /\ batch_groups = 0
      BY <1>1, <1>a DEF BeginBatch, Position
    <2>2. Len(f) > 0 /\ Len(f) \in Nat /\ "none" \notin SegmentedModes
      BY DEF SegmentedModes
    <2>3. Before(f)[0] = 0
      BY BeforeSums
    <2>4. /\ groups' = f /\ mode' = m /\ cursor' = 0 /\ seg_start' = 0
          /\ running_faults' = 0 /\ faults_so_far' = 0 /\ seg_num_items' = Len(f)
          /\ batch_groups' = batch_groups
      BY <1>1 DEF BeginBatch
    <2>5. m \in SegmentedModes => pc' = "scan"
      <3>1. pc' = CASE m = "off" -> "start"
                    [] m = "whole" -> "open_copy"
                    [] m \in SegmentedModes -> "scan"
                    [] m \in TableModes -> "pair_copy"
        BY <1>1 DEF BeginBatch
      <3> QED BY <3>1 DEF SegmentedModes, TableModes
    <2> QED BY <2>1, <2>2, <2>3, <2>4, <2>5 DEF Position, LoopPosition, Scope, n_items
  <1>2. ASSUME ScanGroup
        PROVE  Position'
    <2> DEFINE b == Before(groups)
    <2>1. pc = "scan" /\ mode \in SegmentedModes
      BY <1>2, <1>a DEF ScanGroup, Control
    <2>2. /\ seg_start <= cursor /\ cursor < n_items
          /\ seg_start > 0 => b[n_items] - b[seg_start] >= seg_fault_threshold
          /\ running_faults = b[cursor] - b[seg_start] /\ faults_so_far = b[cursor]
      BY <1>a, <2>1 DEF Position, LoopPosition
    <2>3. /\ b[cursor] \in Nat /\ b[seg_start] \in Nat /\ b[cursor + 1] \in Nat /\ b[n_items] \in Nat
          /\ b[cursor + 1] = b[cursor] + groups[cursor + 1] /\ groups[cursor + 1] \in Nat
      <3>1. /\ cursor \in 0 .. n_items /\ seg_start \in 0 .. n_items /\ n_items \in 0 .. n_items
            /\ cursor + 1 \in 1 .. n_items /\ cursor + 1 \in 0 .. n_items /\ cursor + 1 - 1 = cursor
        BY <1>a, <2>2 DEF Counts
      <3>2. groups[cursor + 1] \in Nat
        BY <1>a, <3>1 DEF n_items
      <3>3. b[cursor + 1] = b[cursor] + groups[cursor + 1]
        BY <1>a, <3>1
      <3> HIDE DEF n_items
      <3> QED BY <1>a, <3>1, <3>2, <3>3
    <2>4. /\ running_faults' = running_faults + groups[cursor + 1]
          /\ faults_so_far' = faults_so_far + groups[cursor + 1]
          /\ UNCHANGED <<groups, mode, seg_fault_threshold, seg_start>>
      BY <1>2, Zenon DEF ScanGroup
    <2>5. running_faults' = b[cursor + 1] - b[seg_start] /\ faults_so_far' = b[cursor + 1]
      BY <2>2, <2>3, <2>4
    <2>6. CASE SegmentCloses(running_faults', b[n_items] - faults_so_far')
      <3>1. /\ batch_groups' = seg_start /\ queue_base' = seg_start
            /\ seg_num_items' = cursor - seg_start + 1
            /\ pc' \in {"reuse", "open_copy"} /\ cursor' = cursor
        BY <1>2, <2>4, <2>6 DEF ScanGroup, FormSegment, TotalFaults, n_items
      <3>2. \/ cursor = n_items - 1
            \/ /\ b[cursor + 1] - b[seg_start] >= seg_fault_threshold
               /\ b[n_items] - b[cursor + 1] >= seg_fault_threshold
        BY <2>5, <2>6 DEF SegmentCloses, at_end
      <3> QED BY <2>1, <2>2, <2>4, <2>5, <3>1, <3>2 DEF Position, LoopPosition, Scope, n_items, at_end
    <2>7. CASE ~SegmentCloses(running_faults', b[n_items] - faults_so_far')
      <3>1. pc' = "scan" /\ cursor' = cursor + 1
        BY <1>2, <2>1, <2>4, <2>7 DEF ScanGroup, TotalFaults, n_items
      <3>2. cursor # n_items - 1
        BY <2>7 DEF SegmentCloses, at_end
      <3>3. cursor \in Nat /\ seg_start \in Nat /\ n_items \in Nat
        BY <1>a DEF Counts
      <3> QED BY <2>1, <2>2, <2>4, <2>5, <3>1, <3>2, <3>3 DEF Position, LoopPosition, Scope, n_items
    <2> QED BY <2>6, <2>7
  <1>3. ASSUME ReuseOpenPair
        PROVE  Position'
    BY <1>3, <1>a DEF ReuseOpenPair, Activate, Position, LoopPosition, Scope, Control, n_items, at_end, SegmentedModes, TableModes
  <1>4. ASSUME NEW ok \in BOOLEAN, OpenCopy(ok)
        PROVE  Position'
    BY <1>4, <1>a DEF OpenCopy, FallBack, Opened, Position, LoopPosition, Scope, Control, n_items, at_end, SegmentedModes, TableModes
  <1>5. ASSUME NEW ok \in BOOLEAN, OpenMap(ok)
        PROVE  Position'
    BY <1>5, <1>a DEF OpenMap, Activate, FallBack, Opened, Ended, Position, LoopPosition, Scope, Control, n_items, at_end, SegmentedModes, TableModes
  <1>6. ASSUME NEW ok \in BOOLEAN, PairCopy(ok)
        PROVE  Position'
    BY <1>6, <1>a DEF PairCopy, Unwind, Opened, Position, LoopPosition, Scope, Control, n_items, at_end, SegmentedModes, TableModes
  <1>7. ASSUME NEW ok \in BOOLEAN, PairMap(ok)
        PROVE  Position'
    BY <1>7, <1>a DEF PairMap, Unwind, Opened, Position, LoopPosition, Scope, Control, n_items, at_end, SegmentedModes, TableModes
  <1>8. ASSUME NEW ok \in BOOLEAN, PreOpenCopy(ok)
        PROVE  Position'
    BY <1>8, <1>a DEF PreOpenCopy, Opened, Position, LoopPosition, Scope, Control, n_items, at_end, SegmentedModes, TableModes
  <1>9. ASSUME NEW ok \in BOOLEAN, PreOpenMap(ok)
        PROVE  Position'
    BY <1>9, <1>a DEF PreOpenMap, Opened, Ended, Position, LoopPosition, Scope, Control, n_items, at_end, SegmentedModes, TableModes
  <1>10. ASSUME StartDispatch
        PROVE  Position'
    BY <1>10, <1>a DEF StartDispatch, Position, LoopPosition, Scope, Control, n_items, at_end, SegmentedModes, TableModes
  <1>11. ASSUME NEW s \in DispatchStatus, WaitDone(s)
        PROVE  Position'
    <2>1. ASSUME mode \in SegmentedModes, NextSegment(s)
          PROVE  Position'
      <3> DEFINE b == Before(groups)
      <3>1. /\ seg_start <= cursor /\ cursor < n_items
            /\ \/ at_end
               \/ b[n_items] - b[cursor + 1] >= seg_fault_threshold
        BY <1>11, <1>a, <2>1 DEF WaitDone, Position, LoopPosition, Scope
      <3>2. /\ seg_start' = cursor + 1 /\ cursor' = cursor + 1 /\ running_faults' = 0
            /\ pc' \in {"return", "scan"} /\ (at_end => pc' = "return")
            /\ faults_so_far' = faults_so_far
        BY <2>1 DEF NextSegment
      <3>3. faults_so_far = b[cursor + 1] /\ b[cursor + 1] \in Nat
        <4>1. faults_so_far = b[cursor + 1]
          BY <1>11, <1>a, <2>1 DEF WaitDone, Position, LoopPosition, Scope
        <4> QED BY <1>a, <3>1, <4>1 DEF Counts
      <3>4. UNCHANGED <<groups, mode, seg_fault_threshold>>
        BY <1>11, Zenon DEF WaitDone
      <3>5. cursor \in Nat /\ n_items \in Nat
        BY <1>a DEF Counts
      <3>6. pc' = "scan" => /\ cursor + 1 < n_items
                            /\ b[n_items] - b[cursor + 1] >= seg_fault_threshold
        BY <3>1, <3>2, <3>5 DEF at_end
      <3> QED BY <2>1, <3>2, <3>3, <3>4, <3>5, <3>6 DEF Position, LoopPosition, Scope, n_items
    <2>3. /\ UNCHANGED <<groups, mode, seg_fault_threshold, dispatchVars>>
          /\ IF merge_state = 2 THEN pc' = "close" /\ UNCHANGED scanVars
             ELSE IF mode \in SegmentedModes THEN NextSegment(s)
             ELSE pc' = "return" /\ UNCHANGED scanVars
      BY <1>11, Zenon DEF WaitDone
    <2>4. CASE merge_state # 2 /\ mode \in SegmentedModes
      <3>1. NextSegment(s)
        BY <2>3, <2>4
      <3> HIDE DispatchAssumption
      <3> QED BY <2>1, <2>4, <3>1
    <2>5. CASE merge_state = 2 \/ mode \notin SegmentedModes
      <3>1. /\ UNCHANGED <<groups, mode, seg_fault_threshold, dispatchVars>>
            /\ UNCHANGED scanVars
            /\ (pc' = "close" \/ (pc' = "return" /\ mode \notin SegmentedModes))
        BY <2>3, <2>5
      <3>2. pc = "wait"
        BY <1>11 DEF WaitDone
      <3> QED BY <1>a, <3>1, <3>2 DEF Position, LoopPosition, Scope, n_items, at_end
    <2> QED BY <2>4, <2>5
  <1>12. ASSUME CloseSegment
        PROVE  Position'
    <2>1. ASSUME mode \in SegmentedModes, NextSegment(status)
          PROVE  Position'
      <3> DEFINE b == Before(groups)
      <3>1. /\ seg_start <= cursor /\ cursor < n_items
            /\ \/ at_end
               \/ b[n_items] - b[cursor + 1] >= seg_fault_threshold
        BY <1>12, <1>a, <2>1 DEF CloseSegment, Position, LoopPosition, Scope
      <3>2. /\ seg_start' = cursor + 1 /\ cursor' = cursor + 1 /\ running_faults' = 0
            /\ pc' \in {"return", "scan"} /\ (at_end => pc' = "return")
            /\ faults_so_far' = faults_so_far
        BY <2>1 DEF NextSegment
      <3>3. faults_so_far = b[cursor + 1] /\ b[cursor + 1] \in Nat
        <4>1. faults_so_far = b[cursor + 1]
          BY <1>12, <1>a, <2>1 DEF CloseSegment, Position, LoopPosition, Scope
        <4> QED BY <1>a, <3>1, <4>1 DEF Counts
      <3>4. UNCHANGED <<groups, mode, seg_fault_threshold>>
        BY <1>12, Zenon DEF CloseSegment
      <3>5. cursor \in Nat /\ n_items \in Nat
        BY <1>a DEF Counts
      <3>6. pc' = "scan" => /\ cursor + 1 < n_items
                            /\ b[n_items] - b[cursor + 1] >= seg_fault_threshold
        BY <3>1, <3>2, <3>5 DEF at_end
      <3> QED BY <2>1, <3>2, <3>3, <3>4, <3>5, <3>6 DEF Position, LoopPosition, Scope, n_items
    <2> QED BY <1>12, <2>1 DEF CloseSegment
  <1>13. ASSUME CloseWhole
        PROVE  Position'
    BY <1>13, <1>a DEF CloseWhole, Ended, Position, LoopPosition, Scope, Control, n_items, at_end, SegmentedModes, TableModes
  <1>14. ASSUME CloseTable
        PROVE  Position'
    BY <1>14, <1>a DEF CloseTable, Position, LoopPosition, Scope, Control, n_items, at_end, SegmentedModes, TableModes
  <1>15. ASSUME ReturnStatus
        PROVE  Position'
    BY <1>15, <1>a DEF ReturnStatus, Position, LoopPosition, Scope, Control, n_items, at_end, SegmentedModes, TableModes
  <1>16. CASE UNCHANGED vars
    BY <1>16, <1>a DEF Position, LoopPosition, Scope, Control, n_items, at_end, SegmentedModes, TableModes
  <1> HIDE DispatchAssumption
  <1> QED BY <1>1, <1>2, <1>3, <1>4, <1>5, <1>6, <1>7, <1>8, <1>9, <1>10, <1>11, <1>12, <1>13, <1>14, <1>15, <1>16, Steps

\* Which groups have been dispatched.
LEMMA HandedStep ==
    ASSUME IInv, [Next]_vars
    PROVE  Handed'
  <1>a. Control /\ Counts /\ Position /\ Handed /\ n_items \in Nat /\ n_items <= QueueSize
    BY TypeParts, InBatch DEF IInv
  <1>1. ASSUME NEW f \in Batches, NEW m \in Modes, NEW adapt \in DynamicSegments, BeginBatch(f, m, adapt)
        PROVE  Handed'
    <2>1. handed' = [g \in 0 .. QueueSize - 1 |-> 0] /\ seg_start' = 0
      BY <1>1 DEF BeginBatch
    <2>2. pc' \in {"start", "open_copy", "scan", "pair_copy"}
      BY <1>1 DEF BeginBatch, SegmentedModes, TableModes
    <2> QED BY <2>1, <2>2 DEF Handed
  <1>2. ASSUME ScanGroup
        PROVE  Handed'
    BY <1>2, <1>a DEF ScanGroup, FormSegment, SegmentCloses, Handed, Control, n_items
  <1>3. ASSUME ReuseOpenPair
        PROVE  Handed'
    BY <1>3, <1>a DEF ReuseOpenPair, Activate, Handed, Control, n_items
  <1>4. ASSUME NEW ok \in BOOLEAN, OpenCopy(ok)
        PROVE  Handed'
    BY <1>4, <1>a DEF OpenCopy, FallBack, Opened, Handed, Control, n_items
  <1>5. ASSUME NEW ok \in BOOLEAN, OpenMap(ok)
        PROVE  Handed'
    BY <1>5, <1>a DEF OpenMap, Activate, FallBack, Opened, Ended, Handed, Control, n_items
  <1>6. ASSUME NEW ok \in BOOLEAN, PairCopy(ok)
        PROVE  Handed'
    BY <1>6, <1>a DEF PairCopy, Unwind, Opened, Handed, Control, n_items
  <1>7. ASSUME NEW ok \in BOOLEAN, PairMap(ok)
        PROVE  Handed'
    BY <1>7, <1>a DEF PairMap, Unwind, Opened, Handed, Control, n_items
  <1>8. ASSUME NEW ok \in BOOLEAN, PreOpenCopy(ok)
        PROVE  Handed'
    BY <1>8, <1>a DEF PreOpenCopy, Opened, Handed, Control, n_items
  <1>9. ASSUME NEW ok \in BOOLEAN, PreOpenMap(ok)
        PROVE  Handed'
    BY <1>9, <1>a DEF PreOpenMap, Opened, Ended, Handed, Control, n_items
  <1>10. ASSUME StartDispatch
        PROVE  Handed'
    <2>1. /\ pc = "start" /\ pc' \in {"pre_copy", "wait"}
          /\ UNCHANGED <<mode, batch_groups, seg_num_items>>
          /\ handed' = [g \in DOMAIN handed |->
                           IF g \in batch_groups .. batch_groups + seg_num_items - 1
                           THEN handed[g] + 1 ELSE handed[g]]
      BY <1>10 DEF StartDispatch
    <2>2. IF mode \in SegmentedModes THEN batch_groups = seg_start ELSE batch_groups = 0
      BY <1>a, <2>1 DEF Position, LoopPosition, Scope
    <2>3. DOMAIN handed = 0 .. QueueSize - 1 /\ batch_groups \in Nat /\ seg_num_items \in Nat
      BY <1>a DEF Counts
    <2>4. \A g \in 0 .. QueueSize - 1 :
              handed[g] = IF mode \in SegmentedModes /\ g < seg_start THEN 1 ELSE 0
      BY <1>a, <2>1 DEF Handed
    <2>5. \A g \in 0 .. QueueSize - 1 :
              handed'[g] = IF g < batch_groups + seg_num_items THEN 1 ELSE 0
      BY <2>1, <2>2, <2>3, <2>4
    <2> QED BY <2>1, <2>5 DEF Handed
  <1>11. ASSUME NEW s \in DispatchStatus, WaitDone(s)
        PROVE  Handed'
    <2>1. \A g \in 0 .. QueueSize - 1 :
              handed[g] = IF g < batch_groups + seg_num_items THEN 1 ELSE 0
      BY <1>11, <1>a DEF WaitDone, Handed
    <2>2. UNCHANGED <<groups, mode, handed, dispatchVars>> /\ status' = s
      BY <1>11, Zenon DEF WaitDone
    <2>3. ASSUME mode \in SegmentedModes, NextSegment(s)
          PROVE  Handed'
      <3>1. batch_groups + seg_num_items = cursor + 1
        BY <1>11, <1>a, <2>3 DEF WaitDone, Position, LoopPosition, Scope, Counts
      <3>2. /\ seg_start' = cursor + 1
            /\ \/ pc' = "scan"
               \/ pc' = "return" /\ (s # "NV_OK" \/ cursor + 1 = n_items)
        BY <1>a, <2>3 DEF NextSegment, at_end, Counts
      <3> QED BY <1>a, <2>1, <2>2, <2>3, <3>1, <3>2 DEF Handed, n_items
    <2>4. IF merge_state = 2 THEN pc' = "close"
          ELSE IF mode \in SegmentedModes THEN NextSegment(s)
          ELSE pc' = "return"
      BY <1>11, Zenon DEF WaitDone
    <2>5. CASE pc' = "close"
      BY <2>1, <2>2, <2>5 DEF Handed
    <2>6. CASE mode \notin SegmentedModes /\ pc' = "return"
      <3>1. batch_groups + seg_num_items = n_items
        BY <1>11, <1>a, <2>6 DEF WaitDone, Position, Counts
      <3> QED BY <1>a, <2>1, <2>2, <2>6, <3>1 DEF Handed, n_items
    <2> HIDE DispatchAssumption
    <2> QED BY <2>3, <2>4, <2>5, <2>6
  <1>12. ASSUME CloseSegment
        PROVE  Handed'
    <2>1. \A g \in 0 .. QueueSize - 1 :
              handed[g] = IF g < batch_groups + seg_num_items THEN 1 ELSE 0
      BY <1>12, <1>a DEF CloseSegment, Handed
    <2>2. UNCHANGED <<groups, mode, handed, dispatchVars>> /\ status' = status
      BY <1>12, Zenon DEF CloseSegment
    <2>3. ASSUME mode \in SegmentedModes, NextSegment(status)
          PROVE  Handed'
      <3>1. batch_groups + seg_num_items = cursor + 1
        BY <1>12, <1>a, <2>3 DEF CloseSegment, Position, LoopPosition, Scope, Counts
      <3>2. /\ seg_start' = cursor + 1
            /\ \/ pc' = "scan"
               \/ pc' = "return" /\ (status # "NV_OK" \/ cursor + 1 = n_items)
        BY <1>a, <2>3 DEF NextSegment, at_end, Counts
      <3> QED BY <1>a, <2>1, <2>2, <2>3, <3>1, <3>2 DEF Handed, n_items
    <2> QED BY <1>12, <2>3 DEF CloseSegment
  <1>13. ASSUME CloseWhole
        PROVE  Handed'
    <2>1. batch_groups + seg_num_items = n_items
      BY <1>13, <1>a DEF CloseWhole, Position, Counts, SegmentedModes, TableModes
    <2> QED BY <1>13, <1>a, <2>1 DEF CloseWhole, Handed, n_items
  <1>14. ASSUME CloseTable
        PROVE  Handed'
    <2>1. batch_groups + seg_num_items = n_items
      BY <1>14, <1>a DEF CloseTable, Position, Counts, SegmentedModes, TableModes
    <2> QED BY <1>14, <1>a, <2>1 DEF CloseTable, Handed, n_items
  <1>15. ASSUME ReturnStatus
        PROVE  Handed'
    BY <1>15, <1>a DEF ReturnStatus, Handed, Control, n_items
  <1>16. CASE UNCHANGED vars
    BY <1>16, <1>a DEF Handed, Control, n_items
  <1> HIDE DispatchAssumption
  <1> QED BY <1>1, <1>2, <1>3, <1>4, <1>5, <1>6, <1>7, <1>8, <1>9, <1>10, <1>11, <1>12, <1>13, <1>14, <1>15, <1>16, Steps

\* Which pushes are open.
LEMMA PairedStep ==
    ASSUME IInv, [Next]_vars
    PROVE  Paired'
  <1>a. Control /\ Counts /\ Flags /\ PushTypes /\ Paired
    BY TypeParts DEF IInv
  <1>b. mode \in TableModes => Len(segments) \in Nat
    BY TablePairs
  <1>1. ASSUME NEW f \in Batches, NEW m \in Modes, NEW adapt \in DynamicSegments, BeginBatch(f, m, adapt)
        PROVE  Paired'
    BY <1>1, <1>a DEF BeginBatch, Paired, OpenMaps, OpenCopies, InUse, Ahead, Control, SegmentedModes, TableModes, at_end, n_items
  <1>2. ASSUME ScanGroup
        PROVE  Paired'
    BY <1>2, <1>a DEF ScanGroup, FormSegment, SegmentCloses, Paired, OpenMaps, OpenCopies, InUse, Ahead, Control, SegmentedModes, TableModes, at_end, n_items
  <1>3. ASSUME ReuseOpenPair
        PROVE  Paired'
    BY <1>3, <1>a DEF ReuseOpenPair, Activate, Paired, OpenMaps, OpenCopies, InUse, Ahead, Control, SegmentedModes, TableModes, at_end, n_items
  <1>4. ASSUME NEW ok \in BOOLEAN, OpenCopy(ok)
        PROVE  Paired'
    <2>1. OpenMaps = {} /\ OpenCopies = {}
      BY <1>4, <1>a DEF OpenCopy, Control, Counts, OpenMaps, OpenCopies, InUse, Ahead, SegmentedModes, TableModes
    <2>2. OpenMaps' = {} /\ OpenCopies' = IF ok THEN {cur_slot} ELSE {}
      BY <1>4, <1>a DEF OpenCopy, FallBack, Control, Counts, OpenMaps, OpenCopies, InUse, Ahead, SegmentedModes, TableModes
    <2>3. map_push' = map_push /\ copy_push' = IF ok THEN Opened(copy_push, cur_slot) ELSE copy_push
      BY <1>4, Zenon DEF OpenCopy, FallBack
    <2> QED BY <1>a, <2>1, <2>2, <2>3 DEF Paired, PushTypes, Pairs, Counts, Opened
  <1>5. ASSUME NEW ok \in BOOLEAN, OpenMap(ok)
        PROVE  Paired'
    <2>1. OpenMaps = {} /\ OpenCopies = {cur_slot}
      BY <1>5, <1>a DEF OpenMap, Control, Counts, OpenMaps, OpenCopies, InUse, Ahead, SegmentedModes, TableModes
    <2>2. OpenMaps' = (IF ok THEN {cur_slot} ELSE {}) /\ OpenCopies' = (IF ok THEN {cur_slot} ELSE {})
      BY <1>5, <1>a DEF OpenMap, Activate, FallBack, Control, Counts, OpenMaps, OpenCopies, InUse, Ahead, SegmentedModes, TableModes
    <2>3. /\ map_push' = IF ok THEN Opened(map_push, cur_slot) ELSE map_push
          /\ copy_push' = IF ok THEN copy_push ELSE Ended(copy_push, cur_slot)
      BY <1>5, Zenon DEF OpenMap, Activate, FallBack
    <2> QED BY <1>a, <2>1, <2>2, <2>3 DEF Paired, PushTypes, Pairs, Counts, Opened, Ended
  <1>6. ASSUME NEW ok \in BOOLEAN, PairCopy(ok)
        PROVE  Paired'
    <2> DEFINE before == 0 .. opened_pairs - 1
    <2>1. OpenMaps = before /\ OpenCopies = before
      BY <1>6, <1>a DEF PairCopy, OpenMaps, OpenCopies
    <2>2. CASE ok
      <3>1. OpenMaps' = before /\ OpenCopies' = before \cup {opened_pairs}
        BY <1>6, <2>2 DEF PairCopy, OpenMaps, OpenCopies
      <3>2. map_push' = map_push /\ copy_push' = Opened(copy_push, opened_pairs)
        BY <1>6, <2>2, Zenon DEF PairCopy
      <3> QED BY <1>a, <2>1, <3>1, <3>2 DEF Paired, PushTypes, Counts, Opened
    <2>3. CASE ~ok
      <3>1. OpenMaps' = {} /\ OpenCopies' = {}
        BY <1>6, <1>a, <2>3 DEF PairCopy, Unwind, Control, OpenMaps, OpenCopies, Ahead, TableModes
      <3>2. Unwind(before)
        BY <1>6, <2>3, Zenon DEF PairCopy
      <3> QED BY <1>a, <2>1, <3>1, <3>2 DEF Paired, PushTypes, Counts, Pairs, Unwind
    <2> QED BY <2>2, <2>3
  <1>7. ASSUME NEW ok \in BOOLEAN, PairMap(ok)
        PROVE  Paired'
    <2> DEFINE before == 0 .. opened_pairs - 1
               upto == 0 .. opened_pairs
    <2>1. OpenMaps = before /\ OpenCopies = upto
      BY <1>7, <1>a DEF PairMap, OpenMaps, OpenCopies, Counts
    <2>2. CASE ok
      <3>1. OpenMaps' = upto
        <4>1. CASE opened_pairs + 1 < Len(segments)
          BY <1>7, <1>a, <2>2, <4>1 DEF PairMap, OpenMaps, Counts
        <4>2. CASE ~(opened_pairs + 1 < Len(segments))
          <5>1. opened_pairs = Len(segments) - 1 /\ mode \in TableModes /\ ~cur_push_open
            BY <1>7, <1>a, <1>b, <4>2 DEF PairMap, Control, Counts, TableModes
          <5>2. merge_state' = 2 /\ pc' = "start" /\ UNCHANGED <<mode, segments, cur_push_open>>
            BY <1>7, <2>2, <4>2 DEF PairMap
          <5> QED BY <5>1, <5>2 DEF OpenMaps, InUse, Ahead
        <4> QED BY <4>1, <4>2
      <3>2. OpenCopies' = OpenMaps'
        BY <1>7, <2>2 DEF PairMap, OpenCopies
      <3>3. copy_push' = copy_push /\ map_push' = Opened(map_push, opened_pairs)
        BY <1>7, <2>2, Zenon DEF PairMap
      <3> QED BY <1>a, <2>1, <3>1, <3>2, <3>3 DEF Paired, PushTypes, Counts, Opened
    <2>3. CASE ~ok
      <3>1. OpenMaps' = {} /\ OpenCopies' = {}
        BY <1>7, <1>a, <2>3 DEF PairMap, Unwind, Control, OpenMaps, OpenCopies, Ahead, TableModes
      <3>2. Unwind(upto)
        BY <1>7, <2>3, Zenon DEF PairMap
      <3> QED BY <1>a, <2>1, <3>1, <3>2 DEF Paired, PushTypes, Counts, Pairs, Unwind
    <2> QED BY <2>2, <2>3
  <1>8. ASSUME NEW ok \in BOOLEAN, PreOpenCopy(ok)
        PROVE  Paired'
    <2>1. OpenMaps = {active} /\ OpenCopies = {active}
      BY <1>8, <1>a DEF PreOpenCopy, Control, Counts, OpenMaps, OpenCopies, InUse, Ahead, SegmentedModes, TableModes
    <2>2. OpenMaps' = {active} /\ OpenCopies' = IF ok THEN {active, 1 - active} ELSE {active}
      BY <1>8, <1>a DEF PreOpenCopy, Control, Counts, OpenMaps, OpenCopies, InUse, Ahead, SegmentedModes, TableModes
    <2>3. map_push' = map_push /\ copy_push' = IF ok THEN Opened(copy_push, 1 - active) ELSE copy_push
      BY <1>8, Zenon DEF PreOpenCopy
    <2> QED BY <1>a, <2>1, <2>2, <2>3 DEF Paired, PushTypes, Pairs, Counts, Opened
  <1>9. ASSUME NEW ok \in BOOLEAN, PreOpenMap(ok)
        PROVE  Paired'
    <2>1. OpenMaps = {active} /\ OpenCopies = {active, 1 - active}
      BY <1>9, <1>a DEF PreOpenMap, Control, Counts, OpenMaps, OpenCopies, InUse, Ahead, SegmentedModes, TableModes
    <2>2. OpenMaps' = (IF ok THEN {active, 1 - active} ELSE {active}) /\ OpenCopies' = (IF ok THEN {active, 1 - active} ELSE {active})
      BY <1>9, <1>a DEF PreOpenMap, Control, Counts, OpenMaps, OpenCopies, InUse, Ahead, SegmentedModes, TableModes
    <2>3. /\ map_push' = IF ok THEN Opened(map_push, 1 - active) ELSE map_push
          /\ copy_push' = IF ok THEN copy_push ELSE Ended(copy_push, 1 - active)
      BY <1>9, Zenon DEF PreOpenMap
    <2> QED BY <1>a, <2>1, <2>2, <2>3 DEF Paired, PushTypes, Pairs, Counts, Opened, Ended
  <1>10. ASSUME StartDispatch
        PROVE  Paired'
    BY <1>10, <1>a DEF StartDispatch, Paired, OpenMaps, OpenCopies, InUse, Ahead, Control, SegmentedModes, TableModes, at_end, n_items
  <1>11. ASSUME NEW s \in DispatchStatus, WaitDone(s)
        PROVE  Paired'
    BY <1>11, <1>a DEF WaitDone, NextSegment, Paired, OpenMaps, OpenCopies, InUse, Ahead, Control, SegmentedModes, TableModes, at_end, n_items
  <1>12. ASSUME CloseSegment
        PROVE  Paired'
    <2> DEFINE ended == {active} \cup (IF status # "NV_OK" /\ cur_push_open THEN {cur_slot} ELSE {})
    <2>1. OpenMaps = {active} \cup Ahead /\ OpenCopies = {active} \cup Ahead
      BY <1>12, <1>a DEF CloseSegment, Control, Counts, OpenMaps, OpenCopies, InUse, SegmentedModes, TableModes
    <2>2. OpenMaps' = Ahead' /\ OpenCopies' = Ahead'
      BY <1>12, <1>a DEF CloseSegment, NextSegment, OpenMaps, OpenCopies
    <2>3. /\ copy_push' = [p \in Pairs |-> IF p \in ended THEN copy_push[p] - 1 ELSE copy_push[p]]
          /\ map_push' = [p \in Pairs |-> IF p \in ended THEN map_push[p] - 1 ELSE map_push[p]]
      BY <1>12, Zenon DEF CloseSegment
    <2>4. Ahead' = IF status = "NV_OK" THEN Ahead ELSE {}
      BY <1>12 DEF CloseSegment, Ahead
    <2>5. cur_push_open => cur_slot # active
      BY <1>12, <1>a DEF CloseSegment, Control, Counts
    <2>6. active \notin Ahead
      BY <2>5 DEF Ahead
    <2>7. ended = {active} \cup (IF status = "NV_OK" THEN {} ELSE Ahead)
      BY DEF Ahead
    <2>8. \A p \in Pairs : /\ copy_push[p] = IF p \in {active} \cup Ahead THEN 1 ELSE 0
                           /\ map_push[p] = IF p \in {active} \cup Ahead THEN 1 ELSE 0
      BY <1>a, <2>1 DEF Paired
    <2> HIDE DEF ended
    <2>9. \A p \in Pairs : /\ copy_push'[p] = IF p \in Ahead' THEN 1 ELSE 0
                           /\ map_push'[p] = IF p \in Ahead' THEN 1 ELSE 0
      BY <2>3, <2>4, <2>6, <2>7, <2>8
    <2> QED BY <2>2, <2>9 DEF Paired
  <1>13. ASSUME CloseWhole
        PROVE  Paired'
    <2>1. OpenMaps = {0} /\ OpenCopies = {0}
      BY <1>13, <1>a DEF CloseWhole, Control, Counts, OpenMaps, OpenCopies, InUse, Ahead, SegmentedModes, TableModes
    <2>2. OpenMaps' = {} /\ OpenCopies' = {}
      BY <1>13, <1>a DEF CloseWhole, Control, Counts, OpenMaps, OpenCopies, InUse, Ahead, SegmentedModes, TableModes
    <2>3. copy_push' = Ended(copy_push, 0) /\ map_push' = Ended(map_push, 0)
      BY <1>13, Zenon DEF CloseWhole
    <2> QED BY <1>a, <2>1, <2>2, <2>3 DEF Paired, PushTypes, Pairs, Counts, Ended
  <1>14. ASSUME CloseTable
        PROVE  Paired'
    <2>1. OpenMaps = 0 .. Len(segments) - 1 /\ OpenCopies = 0 .. Len(segments) - 1
      BY <1>14, <1>a DEF CloseTable, Control, Counts, OpenMaps, OpenCopies, InUse, Ahead, TableModes
    <2>2. OpenMaps' = {} /\ OpenCopies' = {}
      BY <1>14, <1>a DEF CloseTable, Control, Counts, OpenMaps, OpenCopies, InUse, Ahead, TableModes
    <2>3. \A p \in Pairs : /\ copy_push'[p] = IF p < Len(segments) THEN copy_push[p] - 1 ELSE copy_push[p]
                           /\ map_push'[p] = IF p < Len(segments) THEN map_push[p] - 1 ELSE map_push[p]
      BY <1>14 DEF CloseTable
    <2>4. \A p \in Pairs : p \in 0 .. Len(segments) - 1 <=> p < Len(segments)
      <3>1. Len(segments) \in Nat
        BY <1>14, <1>a, TablePairs DEF CloseTable
      <3> QED BY <3>1 DEF Pairs
    <2> QED BY <1>a, <2>1, <2>2, <2>3, <2>4 DEF Paired
  <1>15. ASSUME ReturnStatus
        PROVE  Paired'
    BY <1>15, <1>a DEF ReturnStatus, Paired, OpenMaps, OpenCopies, InUse, Ahead, Control, SegmentedModes, TableModes, at_end, n_items
  <1>16. CASE UNCHANGED vars
    BY <1>16, <1>a DEF Paired, OpenMaps, OpenCopies, InUse, Ahead, Control, SegmentedModes, TableModes, at_end, n_items
  <1> HIDE DispatchAssumption
  <1> QED BY <1>1, <1>2, <1>3, <1>4, <1>5, <1>6, <1>7, <1>8, <1>9, <1>10, <1>11, <1>12, <1>13, <1>14, <1>15, <1>16, Steps

-----------------------------------------------------------------------------
(* Theorems *)

LEMMA InitInvariant ==
    ASSUME Init
    PROVE  IInv
  <1>1. Flags /\ Counts
    BY DEF Init, Flags, Counts
  <1>2. PushTypes
    BY DEF Init, PushTypes
  <1>3. Tables /\ Control
    BY DEF Init, Tables, Control, TableModes, SegmentedModes
  <1>4. Position
    BY DEF Init, Position, SegmentedModes
  <1>5. Handed
    BY DEF Init, Handed, n_items
  <1>6. Paired
    BY DEF Init, Paired, OpenMaps, OpenCopies, Ahead
  <1> QED BY <1>1, <1>2, <1>3, <1>4, <1>5, <1>6, TypeParts DEF IInv

\* The inductive invariant holds in every behaviour of uvm_kthread_dispatch_and_wait.
THEOREM DispatchInvariance == Spec => []IInv
  <1>1. Init => IInv
    BY InitInvariant
  <1>2. IInv /\ [Next]_vars => IInv'
    <2> SUFFICES ASSUME IInv, [Next]_vars PROVE IInv'
      OBVIOUS
    <2>1. TypeOK'
      <3>1. Flags' /\ PushTypes' /\ Counts'
        BY FlagStep, PushTypeStep, CountStep
      <3> QED BY <3>1 DEF Flags, PushTypes, Counts, TypeOK
    <2>2. Tables' /\ Control' /\ Position' /\ Handed' /\ Paired'
      BY TablesStep, ControlStep, PositionStep, HandedStep, PairedStep
    <2> QED BY <2>1, <2>2 DEF IInv
  <1> QED BY <1>1, <1>2, PTL DEF Spec

\* The locals of uvm_kthread_dispatch_and_wait and the merge fields of the pool keep
\* their types: indexes stay inside the queue and the push arrays.
THEOREM DispatchTypes == Spec => []TypeOK
  <1>1. IInv => TypeOK
    BY DEF IInv
  <1> QED BY <1>1, DispatchInvariance, PTL

\* Whatever the policy and wherever uvm_push_begin fails, every push is begun and
\* ended alternately and none is open when the call returns.
THEOREM PushesArePaired == Spec => []PushesPaired
  <1>1. IInv => PushesPaired
    <2> SUFFICES ASSUME IInv, NEW p \in Pairs
                 PROVE  /\ copy_push[p] \in {0, 1} /\ map_push[p] \in {0, 1}
                        /\ pc = "idle" => copy_push[p] = 0 /\ map_push[p] = 0
      BY DEF PushesPaired
    <2>1. /\ copy_push[p] = IF p \in OpenCopies THEN 1 ELSE 0
          /\ map_push[p] = IF p \in OpenMaps THEN 1 ELSE 0
      BY DEF IInv, Paired
    <2>2. pc = "idle" => OpenMaps = {} /\ OpenCopies = {}
      BY DEF IInv, Control, OpenMaps, OpenCopies, Ahead
    <2> QED BY <2>1, <2>2
  <1> QED BY <1>1, DispatchInvariance, PTL

\* While workers run with an open merge state, the pushes their blocks are attached
\* to are open.
THEOREM WorkersAttachToOpenPushes == Spec => []WorkersSeeOpenPushes
  <1>1. IInv => WorkersSeeOpenPushes
    <2> SUFFICES ASSUME IInv, Dispatching, merge_state = 2, NEW p \in InUse
                 PROVE  copy_push[p] = 1 /\ map_push[p] = 1
      BY DEF WorkersSeeOpenPushes, InUse
    <2>1. p \in Pairs
      <3>1. CASE mode \in TableModes
        BY <3>1, TablePairs DEF InUse
      <3>2. CASE mode \notin TableModes
        BY <3>2 DEF InUse, IInv, TypeOK, Pairs
      <3> QED BY <3>1, <3>2
    <2>2. p \in OpenMaps /\ p \in OpenCopies
      BY DEF Dispatching, OpenMaps, OpenCopies
    <2> QED BY <2>1, <2>2 DEF IInv, Paired
  <1> QED BY <1>1, DispatchInvariance, PTL

\* A batch that returns NV_OK was dispatched group by group exactly once, and the
\* segment loop dispatches no segment below the threshold.
THEOREM SegmentsArePartition == Spec => []SegmentsPartition
  <1>1. IInv => SegmentsPartition
    <2> SUFFICES ASSUME IInv PROVE SegmentsPartition
      OBVIOUS
    <2>1. pc = "return" /\ status = "NV_OK" => \A g \in 0 .. n_items - 1 : handed[g] = 1
      BY DEF IInv, Handed
    <2>2. ASSUME mode \in SegmentedModes, Dispatching
          PROVE  \/ Before(groups)[batch_groups + seg_num_items] - Before(groups)[batch_groups]
                        >= seg_fault_threshold
                 \/ seg_num_items = n_items
      <3> DEFINE b == Before(groups)
      <3>1. /\ batch_groups = seg_start /\ seg_num_items = cursor - seg_start + 1
            /\ seg_start > 0 => b[n_items] - b[seg_start] >= seg_fault_threshold
            /\ \/ cursor = n_items - 1
               \/ b[cursor + 1] - b[seg_start] >= seg_fault_threshold
        BY <2>2 DEF IInv, Position, LoopPosition, Scope, Dispatching, at_end
      <3>2. cursor \in Nat /\ seg_start \in Nat /\ n_items \in Nat
        BY InBatch DEF IInv, TypeOK
      <3>3. batch_groups + seg_num_items = cursor + 1
        BY <3>1, <3>2
      <3>4. CASE cursor = n_items - 1 /\ seg_start = 0
        BY <3>1, <3>2, <3>4
      <3>5. CASE cursor = n_items - 1 /\ seg_start > 0
        <4>1. cursor + 1 = n_items
          BY <3>2, <3>5
        <4> QED BY <3>1, <3>3, <3>5, <4>1
      <3>6. CASE cursor # n_items - 1
        BY <3>1, <3>3, <3>6
      <3> QED BY <3>2, <3>4, <3>5, <3>6
    <2> QED BY <2>1, <2>2 DEF SegmentsPartition
  <1> QED BY <1>1, DispatchInvariance, PTL

-----------------------------------------------------------------------------
(* Who services what *)

LEMMA ProductGap ==
    ASSUME NEW x \in Int, NEW y \in Int, NEW n \in Nat, x < y
    PROVE  n * x + n <= n * y
  <1> DEFINE d == y - x - 1
  <1>1. d \in Nat /\ y = x + 1 + d
    OBVIOUS
  <1>2. n * d >= 0
    <2> HIDE DEF d
    <2> QED BY <1>1
  <1>3. n * y = n * x + n + n * d
    <2> HIDE DEF d
    <2> QED BY <1>1
  <1> HIDE DEF d
  <1>4. n * x \in Int /\ n * d \in Int
    BY <1>1
  <1> QED BY <1>2, <1>3, <1>4

\* Quotient and remainder are unique.
LEMMA DivisionUnique ==
    ASSUME NEW a \in Nat \ {0}, NEW q \in Int, NEW p \in Int,
           NEW t \in 0 .. a - 1, NEW r \in 0 .. a - 1, a * q + t = a * p + r
    PROVE  q = p /\ t = r
  <1>1. ~(q < p)
    <2> SUFFICES ASSUME q < p PROVE FALSE
      OBVIOUS
    <2>1. a * q + a <= a * p /\ a * q \in Int /\ a * p \in Int
      BY ProductGap
    <2> QED BY <2>1
  <1>2. ~(p < q)
    <2> SUFFICES ASSUME p < q PROVE FALSE
      OBVIOUS
    <2>1. a * p + a <= a * q /\ a * q \in Int /\ a * p \in Int
      BY ProductGap
    <2> QED BY <2>1
  <1>3. q = p
    BY <1>1, <1>2
  <1> QED BY <1>3

LEMMA Division ==
    ASSUME NEW i \in Nat, NEW a \in Nat \ {0}
    PROVE  /\ i \div a \in Int /\ i \div a >= 0 /\ i % a \in 0 .. a - 1
           /\ i = a * (i \div a) + (i % a)
  <1>1. i \div a \in Int /\ i \div a >= 0 /\ i % a \in 0 .. a - 1
    OBVIOUS
  <1>2. i = a * (i \div a) + (i % a)
    OBVIOUS
  <1> QED BY <1>1, <1>2

\* for (i = id; i < n; i += a): item i belongs to the id i % a.
LEMMA StrideOwner ==
    ASSUME NEW i \in Nat, NEW a \in Nat \ {0}, NEW r \in 0 .. a - 1
    PROVE  /\ i % a \in 0 .. a - 1
           /\ r <= i /\ (i - r) % a = 0 <=> r = i % a
  <1> DEFINE q == i \div a
             t == i % a
  <1>1. q \in Int /\ t \in 0 .. a - 1 /\ i = a * q + t
    BY Division
  <1>2. ASSUME r <= i, (i - r) % a = 0 PROVE r = t
    <2> DEFINE p == (i - r) \div a
    <2>1. p \in Int /\ i - r = a * p
      <3>1. i - r \in Nat
        BY <1>2
      <3>2. p \in Int /\ i - r = a * p + ((i - r) % a)
        <4> DEFINE d == i - r
        <4>1. d \in Nat
          BY <3>1
        <4> HIDE DEF d
        <4>2. d \div a \in Int /\ d = a * (d \div a) + (d % a)
          BY <4>1, Division
        <4> QED BY <4>2 DEF d
      <3> QED BY <1>2, <3>2
    <2> HIDE DEF p, q, t
    <2>2. a * q + t = a * p + r /\ a * q \in Int
      BY <1>1, <2>1
    <2> QED BY <1>1, <2>1, <2>2, DivisionUnique
  <1>3. ASSUME r = t PROVE r <= i /\ (i - r) % a = 0
    <2> DEFINE d == i - r
               p == d \div a
               s == d % a
    <2>1. q >= 0
      OBVIOUS
    <2>2. d = a * q /\ d \in Nat
      <3> HIDE DEF q, t
      <3>1. a * q \in Nat
        BY <1>1, <2>1
      <3> QED BY <1>1, <1>3, <3>1
    <2> HIDE DEF d, q, t
    <2>3. p \in Int /\ s \in 0 .. a - 1 /\ d = a * p + s
      BY <2>2, Division
    <2> HIDE DEF p, s
    <2>4. a * q + 0 = a * p + s /\ 0 \in 0 .. a - 1
      BY <1>1, <2>2, <2>3
    <2>5. s = 0
      BY <1>1, <2>3, <2>4, DivisionUnique
    <2> QED BY <1>1, <2>2, <2>5 DEF d, s
  <1> QED BY <1>1, <1>2, <1>3

\* The groups of segment k.
Extent(segs, k) == segs[k].start .. segs[k].start + segs[k].count - 1

\* Segments that lie end to end are disjoint.
LEMMA SegmentsOrdered ==
    ASSUME NEW segs, NEW n \in Nat, Covers(segs, n)
    PROVE  \A k \in 1 .. Len(segs) : \A j \in 1 .. k - 1 :
               segs[j].start + segs[j].count <= segs[k].start
  <1> DEFINE l == Len(segs)
             T == {k \in 0 .. l : \A j \in 1 .. k - 1 :
                                      segs[j].start + segs[j].count <= segs[k].start}
  <1>1. l \in Nat /\ 0 \in T
    BY DEF Covers
  <1>2. ASSUME NEW k \in 1 .. l, k - 1 \in T PROVE k \in T
    <2> SUFFICES ASSUME NEW j \in 1 .. k - 1
                 PROVE  segs[j].start + segs[j].count <= segs[k].start
      BY <1>1
    <2>1. k - 1 \in 1 .. l - 1 /\ k - 1 \in 1 .. l /\ j \in 1 .. l
      BY <1>1
    <2>2. segs[k].start = segs[k - 1].start + segs[k - 1].count
      <3>1. segs[(k - 1) + 1].start = segs[k - 1].start + segs[k - 1].count
        BY <2>1 DEF Covers
      <3> QED BY <3>1
    <2>3. segs[k - 1] \in Segment /\ segs[j] \in Segment
      BY <2>1 DEF Covers
    <2>4. /\ segs[k - 1].start \in Nat /\ segs[k - 1].count \in Nat
          /\ segs[j].start \in Nat /\ segs[j].count \in Nat
      BY <2>3 DEF Segment
    <2>5. CASE j = k - 1
      BY <2>2, <2>4, <2>5
    <2>6. CASE j < k - 1
      <3>1. segs[j].start + segs[j].count <= segs[k - 1].start
        BY <1>1, <1>2, <2>6
      <3> QED BY <2>2, <2>4, <3>1
    <2> QED BY <1>1, <2>5, <2>6
  <1>3. 0 .. l \subseteq T
    <2> HIDE DEF T, l
    <2> QED BY <1>1, <1>2, IntervalInduction
  <1> QED BY <1>1, <1>3

\* Every group lies in exactly one segment.
LEMMA SegmentOf ==
    ASSUME NEW segs, NEW n \in Nat, Covers(segs, n), NEW i \in 0 .. n - 1
    PROVE  \E k \in 1 .. Len(segs) :
               /\ i \in Extent(segs, k)
               /\ \A j \in 1 .. Len(segs) : i \in Extent(segs, j) => j = k
  <1> DEFINE l == Len(segs)
             Found(k) == \E j \in 1 .. k : i \in Extent(segs, j)
             T == {k \in 0 .. l : k > 0 /\ i < segs[k].start + segs[k].count => Found(k)}
  <1>1. l \in Nat /\ l >= 1 /\ 0 \in T
    BY DEF Covers
  <1>0. \A k \in 1 .. l : segs[k].start \in Nat /\ segs[k].count \in Nat
    <2>1. \A k \in 1 .. l : segs[k] \in Segment
      BY DEF Covers
    <2> QED BY <2>1 DEF Segment
  <1>2. ASSUME NEW k \in 1 .. l, k - 1 \in T PROVE k \in T
    <2> SUFFICES ASSUME i < segs[k].start + segs[k].count PROVE Found(k)
      BY <1>1
    <2>1. CASE segs[k].start <= i
      BY <1>0, <1>1, <2>1 DEF Extent
    <2>2. CASE i < segs[k].start
      <3>1. k # 1
        BY <2>2 DEF Covers
      <3>2. k - 1 \in 1 .. l - 1 /\ k - 1 > 0
        BY <1>1, <3>1
      <3>3. segs[(k - 1) + 1].start = segs[k - 1].start + segs[k - 1].count
        BY <3>2 DEF Covers
      <3>4. i < segs[k - 1].start + segs[k - 1].count
        BY <2>2, <3>3
      <3>5. Found(k - 1)
        BY <1>2, <3>2, <3>4
      <3> QED BY <1>1, <3>5
    <2> QED BY <1>0, <2>1, <2>2
  <1>3. l \in T
    <2>1. 0 .. l \subseteq T
      <3> HIDE DEF T, l
      <3> QED BY <1>1, <1>2, IntervalInduction
    <2> QED BY <1>1, <2>1
  <1>4. Found(l)
    <2>1. i < segs[l].start + segs[l].count
      BY DEF Covers
    <2> HIDE DEF Found
    <2> QED BY <1>1, <1>3, <2>1
  <1>5. PICK k \in 1 .. l : i \in Extent(segs, k)
    BY <1>4
  <1>6. ASSUME NEW j \in 1 .. l, i \in Extent(segs, j) PROVE j = k
    <2>1. segs[j].start <= i /\ i < segs[j].start + segs[j].count
      BY <1>0, <1>6 DEF Extent
    <2>2. segs[k].start <= i /\ i < segs[k].start + segs[k].count
      BY <1>0, <1>5 DEF Extent
    <2>3. ~(j < k)
      <3> SUFFICES ASSUME j < k PROVE FALSE
        OBVIOUS
      <3>1. segs[j].start + segs[j].count <= segs[k].start
        BY <1>1, SegmentsOrdered
      <3> QED BY <1>0, <2>1, <2>2, <3>1
    <2>4. ~(k < j)
      <3> SUFFICES ASSUME k < j PROVE FALSE
        OBVIOUS
      <3>1. segs[k].start + segs[k].count <= segs[j].start
        BY <1>1, SegmentsOrdered
      <3> QED BY <1>0, <2>1, <2>2, <3>1
    <2> QED BY <1>1, <2>3, <2>4
  <1> QED BY <1>5, <1>6

\* Prefix sums grow.
LEMMA BeforeGrows ==
    ASSUME NEW f \in Seq(Nat), NEW k \in 0 .. Len(f)
    PROVE  Before(f)[k] <= Before(f)[Len(f)]
  <1> DEFINE n == Len(f)
             b == Before(f)
             T == {m \in 0 .. n : \A j \in 0 .. m : b[j] <= b[m]}
  <1>1. /\ n \in Nat /\ b \in [0 .. n -> Nat]
        /\ \A m \in 1 .. n : b[m] = b[m - 1] + f[m]
    BY BeforeSums
  <1>2. \A m \in 1 .. n : f[m] \in Nat
    OBVIOUS
  <1> HIDE DEF n, b
  <1>3. 0 \in T
    BY <1>1
  <1>4. ASSUME NEW m \in 1 .. n, m - 1 \in T PROVE m \in T
    <2> SUFFICES ASSUME NEW j \in 0 .. m PROVE b[j] <= b[m]
      BY <1>1
    <2>1. b[m] = b[m - 1] + f[m] /\ f[m] \in Nat /\ b[m - 1] \in Nat /\ b[j] \in Nat
      BY <1>1, <1>2
    <2>2. j = m \/ b[j] <= b[m - 1]
      BY <1>1, <1>4
    <2> QED BY <1>1, <2>1, <2>2
  <1>5. n \in T
    <2>1. 0 .. n \subseteq T
      <3> HIDE DEF T
      <3> QED BY <1>1, <1>3, <1>4, IntervalInduction
    <2> QED BY <1>1, <2>1
  <1> QED BY <1>5 DEF n, b

\* Plain dispatch: item i belongs to the id i % num_active.
LEMMA StrideShares ==
    ASSUME IInv, Dispatching, ~seg_parallel_active, NEW i \in 0 .. seg_num_items - 1
    PROVE  \E x \in Ids : \A id \in Ids : i \in Share(id) <=> id = x
  <1> DEFINE n == seg_num_items
             a == NumActive(n)
  <1>1. n \in Nat \ {0} /\ i \in Nat
    BY DEF IInv, TypeOK
  <1>2. a \in Nat \ {0}
    BY <1>1, WorkerLimits
  <1>3. Ids = 0 .. a - 1 /\ \A id \in Ids : Share(id) = Stride(id, n, a)
    BY DEF Ids, Share
  <1> HIDE DEF n, a
  <1>4. i % a \in Ids
    BY <1>1, <1>2, <1>3, Division
  <1>5. ASSUME NEW id \in Ids PROVE i \in Share(id) <=> id = i % a
    <2>1. id \in 0 .. a - 1
      BY <1>3
    <2>2. i \in Share(id) <=> (id <= i /\ (i - id) % a = 0)
      <3>1. i <= n - 1 /\ n \in Nat
        BY <1>1 DEF n
      <3> QED BY <1>1, <1>3, <2>1, <3>1 DEF Stride
    <2>3. (id <= i /\ (i - id) % a = 0) <=> id = i % a
      BY <1>1, <1>2, <2>1, StrideOwner
    <2> QED BY <2>2, <2>3
  <1> QED BY <1>4, <1>5

\* seg_parallel: the id is the index of the segment.
LEMMA SegmentShares ==
    ASSUME IInv, Dispatching, seg_parallel_active, mode # "group_seg",
           NEW i \in 0 .. seg_num_items - 1
    PROVE  \E x \in Ids : \A id \in Ids : i \in Share(id) <=> id = x
  <1> DEFINE l == Len(segments)
  <1>1. /\ mode = "seg_parallel" /\ mode \in TableModes /\ seg_num_items = n_items
        /\ n_items \in Nat \ {0}
    <2>1. mode = "seg_parallel" /\ mode \in TableModes /\ mode \notin SegmentedModes /\ pc # "idle"
      BY DEF IInv, Control, TableModes, SegmentedModes, Dispatching
    <2> QED BY <2>1, InBatch DEF IInv, Position
  <1>2. Covers(segments, n_items) /\ l <= SegmentCap(mode)
    BY <1>1 DEF IInv, Tables
  <1>3. l \in Nat /\ l >= 1 /\ l <= n_items
    BY <1>1, <1>2 DEF Covers
  <1>4. l <= NumActive(n_items) /\ NumActive(n_items) \in Nat
    <2>1. SegmentCap(mode) <= WorkerLimit /\ WorkerLimit \in Nat /\ SegmentCap(mode) \in Nat
      BY <1>1, WorkerLimits
    <2> QED BY <1>1, <1>2, <1>3, <2>1 DEF NumActive, Least
  <1>5. PICK k \in 1 .. l : /\ i \in Extent(segments, k)
                            /\ \A j \in 1 .. l : i \in Extent(segments, j) => j = k
    <2>1. i \in 0 .. n_items - 1 /\ n_items \in Nat
      BY <1>1
    <2> QED BY <1>2, <2>1, SegmentOf
  <1>6. Ids = 0 .. NumActive(n_items) - 1
    BY <1>1 DEF Ids
  <1>7. \A id \in Ids : Share(id) = IF id < l THEN Extent(segments, id + 1) ELSE {}
    BY <1>1 DEF Share, Extent
  <1> HIDE DEF l
  <1>8. k - 1 \in Ids
    BY <1>3, <1>4, <1>6
  <1>9. ASSUME NEW id \in Ids PROVE i \in Share(id) <=> id = k - 1
    <2>1. id \in Nat
      BY <1>4, <1>6
    <2>2. CASE id < l
      <3>1. id + 1 \in 1 .. l
        BY <1>3, <2>1, <2>2
      <3>2. i \in Share(id) <=> i \in Extent(segments, id + 1)
        BY <1>7, <2>2
      <3>3. i \in Extent(segments, id + 1) <=> id + 1 = k
        BY <1>5, <3>1
      <3> QED BY <2>1, <3>2, <3>3
    <2>3. CASE ~(id < l)
      BY <1>3, <1>5, <1>7, <2>1, <2>3
    <2> QED BY <2>2, <2>3
  <1> QED BY <1>8, <1>9

\* group_seg: the id's segment first, its stride in the segment then.
LEMMA ProportionalShares ==
    ASSUME IInv, Dispatching, seg_parallel_active, mode = "group_seg",
           NEW i \in 0 .. seg_num_items - 1
    PROVE  \E x \in GivenIds : \A id \in Nat : i \in Share(id) <=> id = x
  <1> DEFINE l == Len(segments)
             w == workers_per_seg
             b == Before(workers_per_seg)
  <1>1. /\ mode \in TableModes /\ seg_num_items = n_items /\ n_items \in Nat \ {0}
    <2>1. mode \in TableModes /\ mode \notin SegmentedModes /\ pc # "idle"
      BY DEF TableModes, SegmentedModes, Dispatching
    <2> QED BY <2>1, InBatch DEF IInv, Position
  <1>2. Covers(segments, n_items) /\ w \in Seq(Nat \ {0}) /\ w \in Seq(Nat) /\ Len(w) = l
    BY <1>1 DEF IInv, Tables
  <1>3. l \in Nat /\ DOMAIN segments = 1 .. l
    BY <1>1, <1>2 DEF Covers
  <1>4. /\ b \in [0 .. l -> Nat]
        /\ \A j \in 1 .. l : b[j] = b[j - 1] + w[j] /\ w[j] \in Nat \ {0}
    BY <1>2, BeforeSums
  <1>5. PICK k \in 1 .. l : /\ i \in Extent(segments, k)
                            /\ \A j \in 1 .. l : i \in Extent(segments, j) => j = k
    <2>1. i \in 0 .. n_items - 1 /\ n_items \in Nat
      BY <1>1
    <2> QED BY <1>2, <2>1, SegmentOf
  <1>6. GivenIds = 0 .. b[l] - 1
    BY <1>3 DEF GivenIds, FirstId
  <1> DEFINE Own(j, id) == id \in b[j - 1] .. b[j - 1] + w[j] - 1
             Part(j, id) == Stride(segments[j].start + id - b[j - 1],
                                   segments[j].start + segments[j].count, w[j])
  <1>7. \A id \in Nat : Share(id) = UNION {Part(j, id) : j \in {m \in 1 .. l : Own(m, id)}}
    BY <1>3 DEF Share, FirstId
  <1>8. \A j \in 1 .. l : /\ segments[j].start \in Nat /\ segments[j].count \in Nat
                          /\ b[j - 1] \in Nat /\ b[j] \in Nat
    <2>1. \A j \in 1 .. l : segments[j] \in Segment
      BY <1>2 DEF Covers
    <2>2. \A j \in 1 .. l : j - 1 \in 0 .. l /\ j \in 0 .. l
      BY <1>3
    <2> QED BY <1>4, <2>1, <2>2 DEF Segment
  <1> HIDE DEF l, w, b
  <1>9. ASSUME NEW id \in Nat, NEW j \in 1 .. l, Own(j, id), i \in Part(j, id)
        PROVE  j = k
    <2>1. b[j - 1] <= id /\ segments[j].start \in Nat /\ segments[j].count \in Nat /\ b[j - 1] \in Nat
      BY <1>4, <1>8, <1>9
    <2>2. i \in segments[j].start + id - b[j - 1] .. segments[j].start + segments[j].count - 1
      <3> DEFINE lo == segments[j].start + id - b[j - 1]
                 hi == segments[j].start + segments[j].count
      <3>1. i \in Stride(lo, hi, w[j])
        BY <1>9
      <3> HIDE DEF lo, hi
      <3>2. i \in lo .. hi - 1
        BY <3>1 DEF Stride
      <3> QED BY <2>1, <3>2 DEF lo, hi
    <2>3. i \in Extent(segments, j)
      BY <2>1, <2>2 DEF Extent
    <2> QED BY <1>5, <2>3
  <1> DEFINE first == b[k - 1]
             c == i - segments[k].start
             x == first + (c % w[k])
  <1>10. /\ c \in Nat /\ i = segments[k].start + c /\ w[k] \in Nat \ {0}
         /\ first \in Nat /\ segments[k].start \in Nat /\ segments[k].count \in Nat
         /\ i <= segments[k].start + segments[k].count - 1
    BY <1>4, <1>5, <1>8 DEF Extent
  <1>11. b[k] = first + w[k] /\ b[k] <= b[l] /\ b[l] \in Nat
    <2>1. k \in 0 .. Len(w) /\ l \in 0 .. l
      BY <1>2, <1>3
    <2>2. b[k] <= b[l]
      BY <1>2, <2>1, BeforeGrows DEF b, w
    <2> QED BY <1>4, <2>1, <2>2
  <1> HIDE DEF first, c
  <1>12. c % w[k] \in 0 .. w[k] - 1
    BY <1>10, Division
  <1>13. x \in GivenIds /\ Own(k, x)
    <2> DEFINE r == c % w[k]
    <2>1. r \in 0 .. w[k] - 1 /\ x = first + r
      BY <1>12
    <2> HIDE DEF r, x
    <2>2. x \in first .. first + w[k] - 1
      BY <1>10, <2>1
    <2>3. x \in 0 .. b[l] - 1
      BY <1>10, <1>11, <2>2
    <2> QED BY <1>6, <2>2, <2>3 DEF first
  <1>14. ASSUME NEW id \in Nat PROVE i \in Share(id) <=> Own(k, id) /\ i \in Part(k, id)
    <2>2. i \in Share(id) <=> \E j \in 1 .. l : Own(j, id) /\ i \in Part(j, id)
      <3> HIDE DEF Own, Part
      <3> QED BY <1>7
    <2> HIDE DEF Own, Part
    <2> QED BY <1>9, <2>2
  <1>15. ASSUME NEW id \in Nat, Own(k, id) PROVE i \in Part(k, id) <=> id = x
    <2> DEFINE r == id - first
    <2>1. r \in 0 .. w[k] - 1 /\ id = first + r /\ id \in Nat
      <3>1. id \in first .. first + w[k] - 1
        BY <1>15 DEF first
      <3> QED BY <1>10, <3>1
    <2>2. i \in Part(k, id) <=> (r <= c /\ (c - r) % w[k] = 0)
      <3>1. segments[k].start + id - b[k - 1] = segments[k].start + r
        BY <1>10, <2>1 DEF first
      <3>2. i - (segments[k].start + r) = c - r
        BY <1>10, <2>1
      <3>3. Part(k, id) = Stride(segments[k].start + r, segments[k].start + segments[k].count, w[k])
        BY <3>1
      <3> HIDE DEF Part, r
      <3>4. i \in segments[k].start + r .. segments[k].start + segments[k].count - 1 <=> r <= c
        BY <1>10, <2>1
      <3> DEFINE lo == segments[k].start + r
                 hi == segments[k].start + segments[k].count
      <3>5. i - lo = c - r /\ Part(k, id) = Stride(lo, hi, w[k])
        BY <3>2, <3>3
      <3>7. i \in lo .. hi - 1 <=> r <= c
        BY <1>10, <2>1, <3>4
      <3> HIDE DEF lo, hi
      <3>6. i \in Stride(lo, hi, w[k]) <=> i \in lo .. hi - 1 /\ (i - lo) % w[k] = 0
        BY Zenon DEF Stride
      <3> QED BY <3>5, <3>6, <3>7
    <2>3. (r <= c /\ (c - r) % w[k] = 0) <=> r = c % w[k]
      BY <1>10, <2>1, StrideOwner
    <2>4. r = c % w[k] <=> id = x
      <3> DEFINE t == c % w[k]
      <3>1. t \in Nat /\ x = first + t
        BY <1>10, <1>12
      <3> HIDE DEF t, r, x
      <3> QED BY <1>10, <2>1, <3>1 DEF t
    <2> HIDE DEF r, x
    <2> QED BY <2>2, <2>3, <2>4
  <1> HIDE DEF x, Own, Part
  <1>16. ASSUME NEW id \in Nat PROVE i \in Share(id) <=> id = x
    BY <1>13, <1>14, <1>15
  <1> QED BY <1>13, <1>16

\* No item is the share of two workers that pass the gate, and an item without a
\* worker means that group_seg gave out more ids than workers: for the strided, the
\* seg_parallel and the group_seg policy.
THEOREM SharesArePartition == Spec => []SharesPartition
  <1>1. IInv => SharesPartition
    <2> SUFFICES ASSUME IInv, Dispatching, NEW i \in 0 .. seg_num_items - 1
                 PROVE  Cardinality(Owners(i)) <= 1 /\ (Owners(i) = {} => Starved)
      BY DEF SharesPartition
    <2>1. PICK x \in GivenIds : \A id \in Ids : i \in Share(id) <=> id = x
      <3>1. CASE ~seg_parallel_active
        BY <3>1, StrideShares DEF GivenIds, Ids
      <3>2. CASE seg_parallel_active /\ mode # "group_seg"
        BY <3>2, SegmentShares DEF GivenIds, Ids
      <3>3. CASE seg_parallel_active /\ mode = "group_seg"
        BY <3>3, ProportionalShares DEF Ids
      <3> QED BY <3>1, <3>2, <3>3
    <2>2. CASE x \in Ids
      <3>1. Owners(i) = {x}
        BY <2>1, <2>2 DEF Owners
      <3>2. Cardinality({x}) = 1
        BY FS_Singleton
      <3> QED BY <3>1, <3>2
    <2>3. CASE x \notin Ids
      <3>1. Owners(i) = {}
        BY <2>1, <2>3 DEF Owners
      <3>2. Starved
        BY <2>3 DEF Starved
      <3> QED BY <3>1, <3>2, FS_EmptySet
    <2> QED BY <2>2, <2>3
  <1> QED BY <1>1, DispatchInvariance, PTL

=============================================================================
