--------------------------- MODULE SharedPushProofs ---------------------------
(***************************************************************************)
(* Proofs about the shared pushes of a segment, for any set of workers and *)
(* any finite set of blocks, any push size and any number of retries.      *)
(*                                                                         *)
(* The inductive invariant has seven parts, each inductive relative to the  *)
(* ones before it:                                                         *)
(*   Shape      types, and that a block is serviced by one worker;         *)
(*   Progress   what is copied and mapped when a worker is where it is;    *)
(*   Closed     how often each push was ended, and by whom;                *)
(*   Tracked    what was submitted privately is tracked, and what acquires *)
(*              a tracker waits for it;                                    *)
(*   Submitted  what is copied or mapped is in a push or was late;         *)
(*   Waiting    pushes wait only for pushes ended before them;             *)
(*   FirstPass  as long as the dispatch has not timed out and no block was *)
(*              serviced again after it counted, copy_done_counter is not  *)
(*              below the number of blocks that may still append copies.   *)
(***************************************************************************)
EXTENDS SharedPush, FiniteSetTheorems, TLAPS

USE DEF vars, modeVars, pushVars, segVars, blockVars, workVars, coordVars

Busy(w) == pc[w] # "idle"

\* Each block is in the hands of at most one worker, and of none after a dispatch
\* that has not timed out.
Owned ==
    /\ \A w \in Workers :
          /\ ~Busy(w) => blk[w] = NoBlock /\ phase[w] = 1 /\ ~extUsed[w] /\ ~decremented[w]
          /\ Busy(w) => /\ coord = "dispatch" \/ timedOut
                        /\ blk[w] \in Blocks /\ blk[w] \notin todo
                        /\ phase[w] \in 1 .. Residencies[blk[w]]
                        /\ \A v \in Workers : Busy(v) /\ v # w => blk[v] # blk[w]
    /\ coord # "dispatch" => todo = {} \/ timedOut
    /\ timedOut => failed /\ coord # "dispatch"

Shape == TypeOK /\ Owned

\* What is copied and mapped around a worker: a residency is begun when those before
\* it are mapped.
Progress ==
    /\ \A w \in Workers :
          /\ pc[w] \in {"acquire", "pages"} =>
                /\ Item(w) \notin copied
                /\ ext[w] => shareCopy /\ blk[w] \in Merged
          /\ pc[w] = "acquire" => left[w] = CopyPages
          /\ pc[w] \in {"copied", "map", "write"} => Item(w) \in copied
          /\ pc[w] = "write" => Item(w) \notin mapped
          /\ Busy(w) => \A n \in 1 .. phase[w] - 1 : <<blk[w], n>> \in mapped
          /\ decremented[w] => /\ pc[w] \in {"map", "write", "leave"}
                               /\ phase[w] = Residencies[blk[w]]
    /\ mapped \subseteq copied
    /\ \A b \in Blocks : \A m \in 1 .. Residencies[b] :
          <<b, m>> \in copied => \A n \in 1 .. m - 1 : <<b, n>> \in mapped

\* The shared copy push is ended by the worker that takes the counter to 0 or by the
\* coordinator, by both only after a timeout, a private one when its item is copied or
\* mapped.
Closed ==
    /\ pushedEnd => counter <= 0 /\ split /\ Merged # {}
    /\ coord \in {"dispatch", "copy"} =>
          ends[Shared("copy")] = IF pushedEnd THEN 1 ELSE 0
    /\ coord \notin {"dispatch", "copy"} =>
          \/ ends[Shared("copy")] = 1
          \/ ends[Shared("copy")] = 2 /\ timedOut /\ pushedEnd
    /\ ends[Shared("map")] = IF coord \in {"replay", "done"} THEN 1 ELSE 0
    /\ ends[ReplayPush] \in {0, 1} /\ (ends[ReplayPush] = 1 => coord = "done" /\ ~timedOut)
    /\ coord = "done" => failed \/ ends[ReplayPush] = 1
    /\ \A i \in Items :
          /\ ends[Private("copy", i)] \in {0, 1}
          /\ ends[Private("copy", i)] = 1 => i \in copied
          /\ ends[Private("map", i)] \in {0, 1}
          /\ ends[Private("map", i)] = 1 => i \in mapped

\* Privately submitted commands are tracked, unless the worker is still writing them;
\* a PTE write waits for the private copy of its page, the replay for all trackers.
ItemsTracked ==
    \A i \in Items :
        /\ work[Private("copy", i)] \subseteq {i} /\ work[Private("map", i)] \subseteq {i}
        /\ i \in work[Private("copy", i)] =>
              \/ i \in copied /\ Private("copy", i) \in tracker[i[1]]
              \/ /\ i \notin copied
                 /\ \E w \in Workers : pc[w] = "pages" /\ ~ext[w] /\ Item(w) = i
        /\ i \in work[Private("map", i)] => Private("map", i) \in tracker[i[1]]
        /\ i \in work[Shared("map")] \/ i \in work[Private("map", i)] => i \in mapped
        /\ i \in work[Private("copy", i)] /\ i \in work[Shared("map")] =>
              Private("copy", i) \in acquired[Shared("map")]
        /\ i \in work[Private("copy", i)] /\ i \in work[Private("map", i)] =>
              Private("copy", i) \in acquired[Private("map", i)]

PushesTracked ==
    /\ \A b \in Blocks : \A p \in tracker[b] : ends[p] > 0
    /\ \A p \in executed : ends[p] > 0 /\ acquired[p] \subseteq executed
    /\ ends[ReplayPush] > 0 => \A b \in Blocks : tracker[b] \subseteq acquired[ReplayPush]

Tracked == ItemsTracked /\ PushesTracked

\* Blocks that may still append copies.
Pending == {b \in Merged : b \in todo \/ \E w \in Workers : blk[w] = b /\ ~decremented[w]}

\* Every block that may still append copies is in the counter.
Counting == late = {} /\ (split => counter >= Cardinality(Pending))

FirstPass == again = {} /\ ~timedOut => Counting

\* What was to go to a push of a kind is there, or it came late.
Given(k, i) == i \in work[Shared(k)] \/ i \in work[Private(k, i)] \/ i \in late

\* What is copied or mapped was submitted.
Submitted ==
    /\ \A i \in copied : Given("copy", i)
    /\ \A i \in mapped : Given("map", i)
    /\ \A w \in Workers :
          pc[w] = "pages" /\ left[w] < CopyPages =>
              Item(w) \in work[CopyPush(w)] \/ Item(w) \in late

\* A push waits for ended pushes only; of any ended pushes one waits for none of the
\* others.
Ended == {p \in Pushes : ends[p] > 0}

Waiting ==
    /\ \A p \in Pushes : acquired[p] \subseteq Ended
    /\ \A S \in SUBSET Ended : S # {} => \E p \in S : acquired[p] \cap S = {}

\* The pushes of single items.
PrivatePushes == Kinds \X Items

IInv == Shape /\ Progress /\ Closed /\ Tracked /\ Submitted /\ Waiting /\ FirstPass

-----------------------------------------------------------------------------
(* Names of items and pushes *)

\* An item is a block and a residency of it, and not the missing item.
LEMMA ItemNames ==
    /\ \A b \in Blocks : \A n \in 1 .. Residencies[b] : <<b, n>> \in Items
    /\ \A i \in Items : /\ i[1] \in Blocks /\ i[2] \in 1 .. Residencies[i[1]]
                        /\ i = <<i[1], i[2]>> /\ i # NoItem
                        /\ Residencies[i[1]] \in Nat \ {0}
  <1>1. \A b \in Blocks : \A n \in 1 .. Residencies[b] : <<b, n>> \in Items
    BY DEF Items
  <1>2. ASSUME NEW i \in Items
        PROVE  /\ i[1] \in Blocks /\ i[2] \in 1 .. Residencies[i[1]]
               /\ i = <<i[1], i[2]>> /\ i # NoItem
    <2>1. PICK b \in Blocks : i \in {b} \X (1 .. Residencies[b])
      BY DEF Items
    <2>2. PICK n \in 1 .. Residencies[b] : i = <<b, n>>
      BY <2>1
    <2> QED BY <2>2 DEF NoItem
  <1> QED BY <1>1, <1>2, SharedPushAssumption

\* The pushes of the segment, of the items and of the replay are different pushes.
LEMMA PushNames ==
    /\ Shared("copy") \in Pushes /\ Shared("map") \in Pushes /\ ReplayPush \in Pushes
    /\ Shared("copy") # Shared("map") /\ Shared("copy") # ReplayPush
    /\ Shared("map") # ReplayPush
    /\ Shared("copy")[1] = "copy" /\ Shared("map")[1] = "map" /\ ReplayPush[1] = "replay"
    /\ \A i \in Items : \A k \in Kinds :
          /\ Private(k, i) \in Pushes /\ Private(k, i)[1] = k /\ Private(k, i)[2] = i
          /\ Private(k, i) # Shared("copy") /\ Private(k, i) # Shared("map")
          /\ Private(k, i) # ReplayPush
          /\ Private(k, i) \in PrivatePushes
    /\ \A i, j \in Items : \A k, l \in Kinds :
          Private(k, i) = Private(l, j) => i = j /\ k = l
    /\ \A p \in Pushes : \/ p \in {Shared("copy"), Shared("map"), ReplayPush}
                         \/ p \in PrivatePushes
    /\ \A p \in PrivatePushes : /\ p[1] \in Kinds /\ p[2] \in Items /\ p \in Pushes
                                /\ p = Private(p[1], p[2])
    /\ {Shared(k) : k \in Kinds} = {Shared("copy"), Shared("map")}
  BY ItemNames DEF Shared, Private, ReplayPush, Pushes, Kinds, PrivatePushes

-----------------------------------------------------------------------------
(* Shape *)

\* What an append changes: the contents of the push, or nothing but late.
LEMMA Appended ==
    ASSUME TypeOK, NEW w \in Workers, Item(w) \in Items, NEW p \in Pushes, NEW n \in Nat,
           NEW S \in SUBSET Pushes, Append(w, p, n, S)
    PROVE  /\ used' \in [Kinds -> Nat]
           /\ used'["map"] = IF p = Shared("map") THEN used["map"] + n ELSE used["map"]
           /\ work' \in [Pushes -> SUBSET Items] /\ acquired' \in [Pushes -> SUBSET Pushes]
           /\ late' \subseteq Items
           /\ \A q \in Pushes : q # p => work'[q] = work[q] /\ acquired'[q] = acquired[q]
           /\ ends[p] > 0 => /\ work' = work /\ acquired' = acquired
                             /\ late' = late \cup {Item(w)}
           /\ ends[p] = 0 => /\ late' = late /\ acquired'[p] = acquired[p] \cup S
                             /\ n = 0 => work'[p] = work[p]
                             /\ n > 0 => work'[p] = work[p] \cup {Item(w)}
  <1>1. /\ used \in [Kinds -> Nat] /\ ends \in [Pushes -> Nat]
        /\ work \in [Pushes -> SUBSET Items] /\ acquired \in [Pushes -> SUBSET Pushes]
        /\ late \subseteq Items
    BY DEF TypeOK
  <1>2. used' \in [Kinds -> Nat]
        /\ used'["map"] = IF p = Shared("map") THEN used["map"] + n ELSE used["map"]
    <2>1. CASE p = Shared("map")
      BY <1>1, <2>1, PushNames DEF Append, Kinds
    <2>2. CASE p = Shared("copy")
      BY <1>1, <2>2, PushNames DEF Append, Kinds
    <2>3. CASE p # Shared("map") /\ p # Shared("copy")
      BY <1>1, <2>3, PushNames DEF Append, Kinds
    <2> QED BY <2>1, <2>2, <2>3
  <1>3. CASE ends[p] > 0
    BY <1>1, <1>2, <1>3 DEF Append
  <1>4. CASE ~(ends[p] > 0)
    <2>1. /\ work' = [work EXCEPT ![p] = @ \cup (IF n > 0 THEN {Item(w)} ELSE {})]
          /\ acquired' = [acquired EXCEPT ![p] = @ \cup S]
          /\ late' = late /\ ends[p] = 0
      BY <1>1, <1>4 DEF Append
    <2> HIDE DEF Item
    <2> QED BY <1>1, <1>2, <1>4, <2>1
  <1> QED BY <1>3, <1>4

\* The item of a busy worker, and the push it writes its copies to.
LEMMA BusyItem ==
    ASSUME Shape, NEW w \in Workers, pc[w] # "idle"
    PROVE  /\ Item(w) \in Items /\ blk[w] \in Blocks /\ blk[w] \notin todo
           /\ phase[w] \in 1 .. Residencies[blk[w]] /\ Residencies[blk[w]] \in Nat \ {0}
           /\ (coord = "dispatch" \/ timedOut) /\ Item(w)[1] = blk[w] /\ Item(w)[2] = phase[w]
           /\ CopyPush(w) \in Pushes /\ Private("copy", Item(w)) \in Pushes
           /\ Private("map", Item(w)) \in Pushes
           /\ Dependencies(w) \in SUBSET Pushes
  <1>1. /\ Item(w) \in Items /\ blk[w] \in Blocks /\ blk[w] \notin todo
        /\ phase[w] \in 1 .. Residencies[blk[w]] /\ (coord = "dispatch" \/ timedOut)
    BY DEF Shape, TypeOK, Owned, Busy
  <1>2. Item(w)[1] = blk[w] /\ Item(w)[2] = phase[w]
    BY DEF Item
  <1> QED BY <1>1, <1>2, PushNames, SharedPushAssumption
          DEF CopyPush, Kinds, Dependencies, Shape, TypeOK

LEMMA CopyDoneTypes ==
    ASSUME TypeOK, CopyDone
    PROVE  ends' \in [Pushes -> Nat] /\ counter' \in Int /\ pushedEnd' \in BOOLEAN
  <1>1. ends \in [Pushes -> Nat] /\ counter \in Int /\ pushedEnd \in BOOLEAN
    BY DEF TypeOK
  <1>2. CASE counter = 1
    BY <1>1, <1>2, PushNames DEF CopyDone
  <1>3. CASE counter # 1
    BY <1>1, <1>3 DEF CopyDone
  <1> QED BY <1>2, <1>3

\* The worker goes on with the next residency or leaves the block.
LEMMA NextPhaseShape ==
    ASSUME Shape, NEW w \in Workers, pc[w] \in {"map", "write"}, NextPhase(w),
           UNCHANGED <<todo, blk, extUsed, decremented, coordVars>>
    PROVE  /\ pc' \in [Workers -> {"idle", "copy", "acquire", "pages", "copied", "map",
                                   "write", "leave"}]
           /\ phase' \in [Workers -> Nat]
           /\ status' \in [Workers -> {"ok", "more", "error"}]
           /\ \A v \in Workers : pc'[v] # "idle" => Item(v)' \in Items
           /\ Owned'
  <1>1. CASE LastPhase(w)
    BY <1>1, BusyItem, ItemNames DEF Shape, TypeOK, Owned, Busy, NextPhase, Break, Item
  <1>2. CASE ~LastPhase(w)
    <2>1. phase[w] + 1 \in 1 .. Residencies[blk[w]]
      BY <1>2, BusyItem DEF LastPhase
    <2>2. /\ pc' = [pc EXCEPT ![w] = "copy"] /\ phase' = [phase EXCEPT ![w] = phase[w] + 1]
          /\ status' = status
      BY <1>2 DEF NextPhase
    <2>3. Owned'
      BY <2>1, <2>2 DEF Shape, TypeOK, Owned, Busy
    <2>4. /\ pc' \in [Workers -> {"idle", "copy", "acquire", "pages", "copied", "map",
                                  "write", "leave"}]
          /\ phase' \in [Workers -> Nat]
          /\ status' \in [Workers -> {"ok", "more", "error"}]
      BY <2>1, <2>2 DEF Shape, TypeOK
    <2>5. \A v \in Workers : pc'[v] # "idle" => Item(v)' \in Items
      BY <2>3, ItemNames DEF Owned, Busy, Item
    <2> QED BY <2>3, <2>4, <2>5
  <1> QED BY <1>1, <1>2

LEMMA ShapeStep == Shape /\ [Next]_vars => Shape'
  <1> SUFFICES ASSUME Shape, [Next]_vars PROVE Shape'
    OBVIOUS
  <1> USE SharedPushAssumption
  <1>u. CASE UNCHANGED vars
    BY <1>u DEF Shape, TypeOK, Owned, Item, Busy
  <1>1. ASSUME NEW w \in Workers, Claim(w) PROVE Shape'
    BY <1>1, BusyItem, ItemNames DEF Shape, TypeOK, Owned, Item, Busy, Claim
  <1>2. ASSUME NEW w \in Workers, SkipDead(w) PROVE Shape'
    BY <1>2, BusyItem, ItemNames DEF Shape, TypeOK, Owned, Item, Busy, SkipDead
  <1>3. ASSUME NEW w \in Workers, NeedsRetry(w) PROVE Shape'
    BY <1>3, BusyItem, ItemNames DEF Shape, TypeOK, Owned, Item, Busy, NeedsRetry, Break
  <1>4. ASSUME NEW w \in Workers, Fails(w) PROVE Shape'
    BY <1>4, BusyItem, ItemNames DEF Shape, TypeOK, Owned, Item, Busy, Fails, Break
  <1>5. ASSUME NEW w \in Workers, AlreadyCopied(w) PROVE Shape'
    BY <1>5, BusyItem, ItemNames DEF Shape, TypeOK, Owned, Item, Busy, AlreadyCopied
  <1>6. ASSUME NEW w \in Workers, ChooseCopy(w) PROVE Shape'
    BY <1>6, BusyItem, ItemNames DEF Shape, TypeOK, Owned, Item, Busy, ChooseCopy
  <1>7. ASSUME NEW w \in Workers, AcquireCopy(w) PROVE Shape'
    <2>1. Append(w, CopyPush(w), 0, Dependencies(w)) /\ pc[w] # "idle"
      BY <1>7 DEF AcquireCopy
    <2>2. /\ used' \in [Kinds -> Nat] /\ work' \in [Pushes -> SUBSET Items]
          /\ acquired' \in [Pushes -> SUBSET Pushes] /\ late' \subseteq Items
      BY <2>1, BusyItem, Appended DEF Shape
    <2> QED BY <1>7, <2>2 DEF Shape, TypeOK, Owned, Item, Busy, AcquireCopy
  <1>8. ASSUME NEW w \in Workers, FallBack(w) PROVE Shape'
    BY <1>8, BusyItem, ItemNames DEF Shape, TypeOK, Owned, Item, Busy, FallBack
  <1>9. ASSUME NEW w \in Workers, CopyPage(w) PROVE Shape'
    <2>1. Append(w, CopyPush(w), 1, {}) /\ pc[w] # "idle"
      BY <1>9 DEF CopyPage
    <2>2. /\ used' \in [Kinds -> Nat] /\ work' \in [Pushes -> SUBSET Items]
          /\ acquired' \in [Pushes -> SUBSET Pushes] /\ late' \subseteq Items
      BY <2>1, BusyItem, Appended DEF Shape
    <2> QED BY <1>9, <2>2 DEF Shape, TypeOK, Owned, Item, Busy, CopyPage
  <1>10. ASSUME NEW w \in Workers, TrackCopy(w) PROVE Shape'
    <2>1. pc[w] = "pages"
      BY <1>10 DEF TrackCopy
    <2>2. ends' \in [Pushes -> Nat]
      BY <1>10, <2>1, BusyItem DEF TrackCopy, Shape, TypeOK
    <2>3. tracker' \in [Blocks -> SUBSET Pushes]
      BY <1>10, <2>1, BusyItem DEF TrackCopy, Entry, Shape, TypeOK
    <2>4. copied' \subseteq Items
      BY <1>10, <2>1, BusyItem DEF TrackCopy, Shape, TypeOK
    <2>5. /\ pc' = [pc EXCEPT ![w] = "copied"]
          /\ UNCHANGED <<modeVars, used, work, acquired, late, executed, segVars,
                         todo, mapped, again, blk, phase, left, ext, extUsed,
                         decremented, status, coordVars>>
      BY <1>10 DEF TrackCopy
    <2> QED BY <2>1, <2>2, <2>3, <2>4, <2>5 DEF Shape, TypeOK, Owned, Item, Busy
  <1>11. ASSUME NEW w \in Workers, CountCopy(w) PROVE Shape'
    <2>1. ends' \in [Pushes -> Nat] /\ counter' \in Int /\ pushedEnd' \in BOOLEAN
      BY <1>11, CopyDoneTypes DEF CountCopy, Shape, TypeOK
    <2>2. decremented' \in [Workers -> BOOLEAN]
      BY <1>11 DEF CountCopy, Shape, TypeOK
    <2>3. ~Busy(w) => FALSE
      BY <1>11 DEF CountCopy, Busy
    <2>4. \A v \in Workers : v # w => decremented'[v] = decremented[v]
      BY <1>11 DEF CountCopy, Shape, TypeOK
    <2>5. /\ pc' = [pc EXCEPT ![w] = "map"]
          /\ UNCHANGED <<modeVars, used, work, acquired, late, executed, todo,
                         blockVars, again, blk, phase, left, ext, extUsed, status,
                         coordVars>>
      BY <1>11 DEF CountCopy
    <2>6. TypeOK'
      BY <2>1, <2>2, <2>3, <2>5 DEF Shape, TypeOK, Busy, Item
    <2>7. Owned'
      BY <2>3, <2>4, <2>5 DEF Shape, TypeOK, Busy, Owned
    <2> QED BY <2>6, <2>7 DEF Shape
  <1>12. ASSUME NEW w \in Workers, ChooseMap(w) PROVE Shape'
    BY <1>12, BusyItem, ItemNames DEF Shape, TypeOK, Owned, Item, Busy, ChooseMap
  <1>13. ASSUME NEW w \in Workers, WriteMap(w) PROVE Shape'
    <2> DEFINE p == IF ext[w] /\ Fits("map") THEN Shared("map") ELSE Private("map", Item(w))
    <2>1. Append(w, p, MapUnits, Dependencies(w)) /\ pc[w] = "write"
      BY <1>13 DEF WriteMap
    <2>2. p \in Pushes
      BY <2>1, BusyItem, PushNames
    <2>3. /\ ends' \in [Pushes -> Nat] /\ tracker' \in [Blocks -> SUBSET Pushes]
          /\ mapped' \subseteq Items
      BY <1>13, <2>1, <2>2, BusyItem DEF WriteMap, Entry, Shape, TypeOK
    <2>4. /\ used' \in [Kinds -> Nat] /\ work' \in [Pushes -> SUBSET Items]
          /\ acquired' \in [Pushes -> SUBSET Pushes] /\ late' \subseteq Items
      <3> HIDE DEF p
      <3> QED BY <2>1, <2>2, BusyItem, Appended DEF Shape
    <2>5. /\ NextPhase(w)
          /\ UNCHANGED <<modeVars, executed, segVars, todo, copied, again, blk,
                         left, ext, extUsed, decremented, coordVars>>
      BY <1>13 DEF WriteMap
    <2> QED BY <2>1, <2>3, <2>4, <2>5, NextPhaseShape DEF Shape, TypeOK
  <1>14. ASSUME NEW w \in Workers, AlreadyMapped(w) PROVE Shape'
    BY <1>14, NextPhaseShape DEF AlreadyMapped, Shape, TypeOK
  <1>15. ASSUME NEW w \in Workers, Leave(w) PROVE Shape'
    <2>1. ends' \in [Pushes -> Nat] /\ counter' \in Int /\ pushedEnd' \in BOOLEAN
      BY <1>15, CopyDoneTypes DEF Leave, Shape, TypeOK
    <2>2. /\ extUsed' \in [Workers -> BOOLEAN] /\ decremented' \in [Workers -> BOOLEAN]
          /\ ext' \in [Workers -> BOOLEAN]
      BY <1>15 DEF Leave, Shape, TypeOK
    <2>3. again' \subseteq Blocks /\ blk[w] \in Blocks
      BY <1>15, BusyItem DEF Leave, Shape, TypeOK
    <2>4. failed' \in BOOLEAN
      BY <1>15, Zenon DEF Leave
    <2>5. CASE status[w] = "more"
      BY <1>15, <2>1, <2>2, <2>3, <2>4, <2>5, BusyItem, ItemNames
         DEF Shape, TypeOK, Owned, Item, Busy, Leave
    <2>6. CASE status[w] # "more"
      BY <1>15, <2>1, <2>2, <2>3, <2>4, <2>6, BusyItem, ItemNames
         DEF Shape, TypeOK, Owned, Item, Busy, Leave
    <2> QED BY <2>5, <2>6
  <1>16. ASSUME CloseCopy PROVE Shape'
    BY <1>16, PushNames DEF Shape, TypeOK, Owned, Item, Busy, CloseCopy
  <1>17. ASSUME CloseMap PROVE Shape'
    BY <1>17, PushNames DEF Shape, TypeOK, Owned, Item, Busy, CloseMap
  <1>18. ASSUME PushReplay PROVE Shape'
    <2>1. UNION {tracker[b] : b \in Blocks} \in SUBSET Pushes
      BY DEF Shape, TypeOK
    <2>2. ends' \in [Pushes -> Nat] /\ acquired' \in [Pushes -> SUBSET Pushes]
      <3> DEFINE U == UNION {tracker[b] : b \in Blocks}
      <3>1. \/ UNCHANGED <<ends, acquired>>
            \/ /\ ends' = [ends EXCEPT ![ReplayPush] = @ + 1]
               /\ acquired' = [acquired EXCEPT ![ReplayPush] = U]
        BY <1>18 DEF PushReplay
      <3>2. U \in SUBSET Pushes
        BY <2>1
      <3> HIDE DEF U
      <3> QED BY <3>1, <3>2, PushNames DEF Shape, TypeOK
    <2> QED BY <1>18, <2>2 DEF Shape, TypeOK, Owned, Item, Busy, PushReplay
  <1>19. ASSUME NEW p \in Pushes, Execute(p) PROVE Shape'
    BY <1>19 DEF Shape, TypeOK, Owned, Item, Busy, Execute
  <1>20. ASSUME DispatchDone PROVE Shape'
    BY <1>20 DEF Shape, TypeOK, Owned, Item, Busy, DispatchDone, Unfinished
  <1>21. ASSUME TimeOut PROVE Shape'
    BY <1>21 DEF Shape, TypeOK, Owned, Item, Busy, TimeOut
  <1> QED BY <1>u, <1>1, <1>2, <1>3, <1>4, <1>5, <1>6, <1>7, <1>8, <1>9, <1>10, <1>11, <1>12, <1>13, <1>14, <1>15, <1>16, <1>17, <1>18, <1>19,
             <1>20, <1>21
          DEF Next, Worker, Coordinator

LEMMA ShapeInit == Init => Shape
  <1> SUFFICES ASSUME Init PROVE Shape
    OBVIOUS
  <1> USE SharedPushAssumption
  <1>1. shareCopy \in BOOLEAN /\ split \in BOOLEAN /\ heavy \subseteq Blocks
    BY DEF Init
  <1>2. used \in [Kinds -> Nat]
    BY DEF Init
  <1>3. counter \in Int
    <2>1. IsFiniteSet(Merged)
      BY FS_Subset DEF Merged
    <2> QED BY <2>1, FS_CardinalityType DEF Init
  <1>4. /\ ext \in [Workers -> BOOLEAN] /\ extUsed \in [Workers -> BOOLEAN]
        /\ decremented \in [Workers -> BOOLEAN]
        /\ pushedEnd \in BOOLEAN /\ failed \in BOOLEAN /\ timedOut \in BOOLEAN
    BY Zenon DEF Init
  <1>5. (\A w \in Workers : ~extUsed[w] /\ ~decremented[w]) /\ ~timedOut
    BY DEF Init
  <1> QED BY <1>1, <1>2, <1>3, <1>4, <1>5 DEF Init, Shape, TypeOK, Owned, Busy, Item

\* The types and the ownership of the blocks are an invariant.
THEOREM SharedPushTypes == Spec => []TypeOK
  <1>1. Shape => TypeOK
    BY DEF Shape
  <1> QED BY ShapeInit, ShapeStep, <1>1, PTL DEF Spec

-----------------------------------------------------------------------------
(* The shared map push *)

\* Only the test under the lock counts: it leaves a quarter of the push for the PTE
\* writes of one residency.
LEMMA FitsStep == Shape /\ MapPushFits /\ [Next]_vars => MapPushFits'
  <1> SUFFICES ASSUME Shape, MapPushFits, [Next]_vars PROVE MapPushFits'
    OBVIOUS
  <1>u. CASE UNCHANGED vars
    BY <1>u DEF MapPushFits
  <1>1. ASSUME NEW w \in Workers, Claim(w) PROVE MapPushFits'
    BY <1>1 DEF MapPushFits, Claim
  <1>2. ASSUME NEW w \in Workers, SkipDead(w) PROVE MapPushFits'
    BY <1>2 DEF MapPushFits, SkipDead
  <1>3. ASSUME NEW w \in Workers, NeedsRetry(w) PROVE MapPushFits'
    BY <1>3 DEF MapPushFits, NeedsRetry
  <1>4. ASSUME NEW w \in Workers, Fails(w) PROVE MapPushFits'
    BY <1>4 DEF MapPushFits, Fails
  <1>5. ASSUME NEW w \in Workers, AlreadyCopied(w) PROVE MapPushFits'
    BY <1>5 DEF MapPushFits, AlreadyCopied
  <1>6. ASSUME NEW w \in Workers, ChooseCopy(w) PROVE MapPushFits'
    BY <1>6 DEF MapPushFits, ChooseCopy
  <1>7. ASSUME NEW w \in Workers, AcquireCopy(w) PROVE MapPushFits'
    <2>1. Append(w, CopyPush(w), 0, Dependencies(w)) /\ pc[w] # "idle"
      BY <1>7 DEF AcquireCopy
    <2>2. CopyPush(w) # Shared("map")
      BY <2>1, BusyItem, PushNames DEF CopyPush, Kinds
    <2> QED BY <2>1, <2>2, BusyItem, Appended DEF MapPushFits, Shape
  <1>8. ASSUME NEW w \in Workers, FallBack(w) PROVE MapPushFits'
    BY <1>8 DEF MapPushFits, FallBack
  <1>9. ASSUME NEW w \in Workers, CopyPage(w) PROVE MapPushFits'
    <2>1. Append(w, CopyPush(w), 1, {}) /\ pc[w] # "idle"
      BY <1>9 DEF CopyPage
    <2>2. CopyPush(w) # Shared("map")
      BY <2>1, BusyItem, PushNames DEF CopyPush, Kinds
    <2> QED BY <2>1, <2>2, BusyItem, Appended DEF MapPushFits, Shape
  <1>10. ASSUME NEW w \in Workers, TrackCopy(w) PROVE MapPushFits'
    BY <1>10 DEF MapPushFits, TrackCopy
  <1>11. ASSUME NEW w \in Workers, CountCopy(w) PROVE MapPushFits'
    BY <1>11 DEF MapPushFits, CountCopy
  <1>12. ASSUME NEW w \in Workers, ChooseMap(w) PROVE MapPushFits'
    BY <1>12 DEF MapPushFits, ChooseMap
  <1>13. ASSUME NEW w \in Workers, WriteMap(w) PROVE MapPushFits'
    <2> DEFINE p == IF ext[w] /\ Fits("map") THEN Shared("map") ELSE Private("map", Item(w))
    <2>1. Append(w, p, MapUnits, Dependencies(w)) /\ pc[w] # "idle"
      BY <1>13 DEF WriteMap
    <2>2. p \in Pushes /\ (p = Shared("map") => Fits("map"))
      BY <2>1, BusyItem, PushNames DEF Kinds
    <2>3. Fits("map") => used["map"] + MapUnits <= PushSize
      BY SharedPushAssumption DEF Fits, HasSpace, Shape, TypeOK, Kinds
    <2> HIDE DEF p
    <2>4. used'["map"] = IF p = Shared("map") THEN used["map"] + MapUnits ELSE used["map"]
      BY <2>1, <2>2, BusyItem, Appended, SharedPushAssumption DEF Shape
    <2> QED BY <2>2, <2>3, <2>4 DEF MapPushFits
  <1>14. ASSUME NEW w \in Workers, AlreadyMapped(w) PROVE MapPushFits'
    BY <1>14 DEF MapPushFits, AlreadyMapped
  <1>15. ASSUME NEW w \in Workers, Leave(w) PROVE MapPushFits'
    BY <1>15 DEF MapPushFits, Leave
  <1>16. ASSUME CloseCopy PROVE MapPushFits'
    BY <1>16 DEF MapPushFits, CloseCopy
  <1>17. ASSUME CloseMap PROVE MapPushFits'
    BY <1>17 DEF MapPushFits, CloseMap
  <1>18. ASSUME PushReplay PROVE MapPushFits'
    BY <1>18 DEF MapPushFits, PushReplay
  <1>19. ASSUME NEW p \in Pushes, Execute(p) PROVE MapPushFits'
    BY <1>19 DEF MapPushFits, Execute
  <1>20. ASSUME DispatchDone PROVE MapPushFits'
    BY <1>20 DEF MapPushFits, DispatchDone
  <1>21. ASSUME TimeOut PROVE MapPushFits'
    BY <1>21 DEF MapPushFits, TimeOut
  <1> QED BY <1>u, <1>1, <1>2, <1>3, <1>4, <1>5, <1>6, <1>7, <1>8, <1>9, <1>10, <1>11, <1>12, <1>13, <1>14, <1>15, <1>16, <1>17, <1>18, <1>19,
             <1>20, <1>21
          DEF Next, Worker, Coordinator

\* The PTE writes never run over the end of the shared map push.
THEOREM MapPushHasRoom == Spec => []MapPushFits
  <1>1. Init => MapPushFits
    BY SharedPushAssumption DEF Init, MapPushFits, Kinds
  <1> QED BY <1>1, ShapeInit, ShapeStep, FitsStep, PTL DEF Spec

-----------------------------------------------------------------------------
(* Progress *)

\* The residency of the worker is copied and mapped when the next one is begun.
LEMMA NextPhaseProgress ==
    ASSUME Shape, Progress, NEW w \in Workers, pc[w] \in {"map", "write"}, NextPhase(w),
           mapped' = mapped \cup {Item(w)},
           UNCHANGED <<shareCopy, heavy, blk, left, ext, decremented, copied>>
    PROVE  Progress'
  <1>1. /\ Item(w) \in Items /\ blk[w] \in Blocks /\ Item(w) \in copied
        /\ phase[w] \in 1 .. Residencies[blk[w]] /\ Residencies[blk[w]] \in Nat
        /\ \A v \in Workers : Busy(v) /\ v # w => blk[v] # blk[w]
        /\ Item(w) = <<blk[w], phase[w]>>
    BY BusyItem DEF Progress, Shape, Owned, Busy, Item
  <1>2. /\ mapped' \subseteq copied'
        /\ \A b \in Blocks : \A m \in 1 .. Residencies[b] :
              <<b, m>> \in copied' => \A n \in 1 .. m - 1 : <<b, n>> \in mapped'
    BY <1>1 DEF Progress
  <1>3. CASE LastPhase(w)
    BY <1>1, <1>2, <1>3 DEF Shape, TypeOK, Progress, Busy, NextPhase, Break, Item, Merged
  <1>4. CASE ~LastPhase(w)
    <2>1. ~decremented[w]
      BY <1>4 DEF Progress, LastPhase
    <2>2. /\ pc' = [pc EXCEPT ![w] = "copy"] /\ phase' = [phase EXCEPT ![w] = phase[w] + 1]
      BY <1>4 DEF NextPhase
    <2>3. \A n \in 1 .. phase[w] : <<blk[w], n>> \in mapped'
      BY <1>1 DEF Progress, Busy
    <2> QED BY <1>1, <1>2, <2>1, <2>2, <2>3 DEF Shape, TypeOK, Progress, Busy, Item, Merged
  <1> QED BY <1>3, <1>4

LEMMA ProgressStep == Shape /\ Progress /\ [Next]_vars => Progress'
  <1> SUFFICES ASSUME Shape, Progress, [Next]_vars PROVE Progress'
    OBVIOUS
  <1>u. CASE UNCHANGED vars
    BY <1>u DEF Shape, TypeOK, Owned, Progress, Busy, Item, Merged
  <1>1. ASSUME NEW w \in Workers, Claim(w) PROVE Progress'
    BY <1>1, BusyItem, ItemNames DEF Shape, TypeOK, Owned, Progress, Busy, Item, Merged, Claim
  <1>2. ASSUME NEW w \in Workers, SkipDead(w) PROVE Progress'
    BY <1>2, BusyItem, ItemNames DEF Shape, TypeOK, Owned, Progress, Busy, Item, Merged, SkipDead
  <1>3. ASSUME NEW w \in Workers, NeedsRetry(w) PROVE Progress'
    BY <1>3, BusyItem, ItemNames DEF Shape, TypeOK, Owned, Progress, Busy, Item, Merged, NeedsRetry, Break
  <1>4. ASSUME NEW w \in Workers, Fails(w) PROVE Progress'
    BY <1>4, BusyItem, ItemNames DEF Shape, TypeOK, Owned, Progress, Busy, Item, Merged, Fails, Break
  <1>5. ASSUME NEW w \in Workers, AlreadyCopied(w) PROVE Progress'
    <2>1. pc' = [pc EXCEPT ![w] = "copied"] /\ Item(w) \in copied /\ pc[w] = "copy"
      BY <1>5 DEF AlreadyCopied
    <2>2. UNCHANGED <<shareCopy, heavy, blk, phase, left, ext, decremented, copied, mapped>>
      BY <1>5 DEF AlreadyCopied
    <2>3. ~decremented[w]
      BY <2>1 DEF Progress
    <2>4. pc \in [Workers -> {"idle", "copy", "acquire", "pages", "copied", "map", "write",
                              "leave"}]
      BY DEF Shape, TypeOK
    <2> QED BY <2>1, <2>2, <2>3, <2>4 DEF Progress, Busy, Item, Merged
  <1>6. ASSUME NEW w \in Workers, ChooseCopy(w) PROVE Progress'
    <2> DEFINE e == Shares(w, "copy") /\ HasSpace("copy", PushSize \div 2)
    <2>1. /\ pc' = [pc EXCEPT ![w] = "acquire"] /\ Item(w) \notin copied /\ pc[w] = "copy"
          /\ left' = [left EXCEPT ![w] = CopyPages]
      BY <1>6 DEF ChooseCopy
    <2>2. UNCHANGED <<shareCopy, heavy, blk, phase, decremented, copied, mapped>>
      BY <1>6 DEF ChooseCopy
    <2>3. \A v \in Workers : v # w => ext'[v] = ext[v]
      BY <1>6 DEF ChooseCopy, Shape, TypeOK
    <2>4. ext'[w] => shareCopy /\ blk[w] \in Merged
      <3>1. ext'[w] = e
        BY <1>6 DEF ChooseCopy, Shape, TypeOK
      <3> QED BY <3>1 DEF Shares
    <2>5. ~decremented[w]
      BY <2>1 DEF Progress
    <2>6. /\ pc \in [Workers -> {"idle", "copy", "acquire", "pages", "copied", "map",
                                 "write", "leave"}]
          /\ left \in [Workers -> 0 .. CopyPages]
      BY DEF Shape, TypeOK
    <2> QED BY <2>1, <2>2, <2>3, <2>4, <2>5, <2>6 DEF Progress, Busy, Item, Merged
  <1>7. ASSUME NEW w \in Workers, AcquireCopy(w) PROVE Progress'
    BY <1>7, BusyItem, ItemNames DEF Shape, TypeOK, Owned, Progress, Busy, Item, Merged, AcquireCopy
  <1>8. ASSUME NEW w \in Workers, FallBack(w) PROVE Progress'
    BY <1>8, BusyItem, ItemNames DEF Shape, TypeOK, Owned, Progress, Busy, Item, Merged, FallBack
  <1>9. ASSUME NEW w \in Workers, CopyPage(w) PROVE Progress'
    BY <1>9, BusyItem, ItemNames DEF Shape, TypeOK, Owned, Progress, Busy, Item, Merged, CopyPage
  <1>10. ASSUME NEW w \in Workers, TrackCopy(w) PROVE Progress'
    BY <1>10, BusyItem, ItemNames DEF Shape, TypeOK, Owned, Progress, Busy, Item, Merged, TrackCopy
  <1>11. ASSUME NEW w \in Workers, CountCopy(w) PROVE Progress'
    <2>1. pc' = [pc EXCEPT ![w] = "map"] /\ pc[w] = "copied"
      BY <1>11 DEF CountCopy
    <2>2. UNCHANGED <<shareCopy, heavy, blk, phase, left, ext, copied, mapped>>
      BY <1>11 DEF CountCopy
    <2>3. \A v \in Workers : v # w => decremented'[v] = decremented[v]
      BY <1>11 DEF CountCopy, Shape, TypeOK
    <2>4. decremented'[w] => phase[w] = Residencies[blk[w]]
      <3>1. decremented'[w] = (decremented[w] \/ CopiesDone(w))
        BY <1>11 DEF CountCopy, Shape, TypeOK
      <3>2. CopiesDone(w) => phase[w] = Residencies[blk[w]]
        BY DEF CopiesDone, LastPhase
      <3> QED BY <3>1, <3>2 DEF Progress
    <2> QED BY <2>1, <2>2, <2>3, <2>4 DEF Shape, TypeOK, Progress, Busy, Item, Merged
  <1>12. ASSUME NEW w \in Workers, ChooseMap(w) PROVE Progress'
    BY <1>12, BusyItem, ItemNames DEF Shape, TypeOK, Owned, Progress, Busy, Item, Merged, ChooseMap
  <1>13. ASSUME NEW w \in Workers, WriteMap(w) PROVE Progress'
    <2>1. pc[w] = "write" /\ NextPhase(w) /\ mapped' = mapped \cup {Item(w)}
      BY <1>13 DEF WriteMap
    <2>2. UNCHANGED <<shareCopy, heavy, blk, left, ext, decremented, copied>>
      BY <1>13 DEF WriteMap
    <2> QED BY <2>1, <2>2, NextPhaseProgress
  <1>14. ASSUME NEW w \in Workers, AlreadyMapped(w) PROVE Progress'
    <2>1. pc[w] = "map" /\ NextPhase(w) /\ mapped' = mapped \cup {Item(w)}
      BY <1>14 DEF AlreadyMapped
    <2>2. UNCHANGED <<shareCopy, heavy, blk, left, ext, decremented, copied>>
      BY <1>14 DEF AlreadyMapped
    <2> QED BY <2>1, <2>2, NextPhaseProgress
  <1>15. ASSUME NEW w \in Workers, Leave(w) PROVE Progress'
    BY <1>15, BusyItem, ItemNames DEF Shape, TypeOK, Owned, Progress, Busy, Item, Merged, Leave
  <1>16. ASSUME CloseCopy PROVE Progress'
    BY <1>16, BusyItem, ItemNames DEF Shape, TypeOK, Owned, Progress, Busy, Item, Merged, CloseCopy
  <1>17. ASSUME CloseMap PROVE Progress'
    BY <1>17, BusyItem, ItemNames DEF Shape, TypeOK, Owned, Progress, Busy, Item, Merged, CloseMap
  <1>18. ASSUME PushReplay PROVE Progress'
    BY <1>18, BusyItem, ItemNames DEF Shape, TypeOK, Owned, Progress, Busy, Item, Merged, PushReplay
  <1>19. ASSUME NEW p \in Pushes, Execute(p) PROVE Progress'
    BY <1>19, BusyItem, ItemNames DEF Shape, TypeOK, Owned, Progress, Busy, Item, Merged, Execute
  <1>20. ASSUME DispatchDone PROVE Progress'
    BY <1>20 DEF Progress, Busy, Item, Merged, DispatchDone
  <1>21. ASSUME TimeOut PROVE Progress'
    BY <1>21 DEF Progress, Busy, Item, Merged, TimeOut
  <1> QED BY <1>u, <1>1, <1>2, <1>3, <1>4, <1>5, <1>6, <1>7, <1>8, <1>9, <1>10, <1>11, <1>12, <1>13, <1>14, <1>15, <1>16, <1>17, <1>18, <1>19,
             <1>20, <1>21
          DEF Next, Worker, Coordinator

-----------------------------------------------------------------------------
(* Closed *)

LEMMA ClosedFrame ==
    ASSUME Closed, UNCHANGED <<pushedEnd, counter, split, heavy, ends, coord, timedOut>>,
           copied \subseteq copied', mapped \subseteq mapped',
           coord = "done" => (failed => failed')
    PROVE  Closed'
  BY DEF Closed, Merged

\* The counter passes 1 once, on the way down.
LEMMA CopyDoneClosed ==
    ASSUME Shape, Closed, CopyDone, split, Merged # {},
           coord = "dispatch" \/ timedOut,
           UNCHANGED <<split, heavy, coord, timedOut, copied, mapped>>, failed => failed'
    PROVE  Closed'
  <1>1. CASE counter = 1
    <2>1. /\ ~pushedEnd
          /\ ends[Shared("copy")] = IF coord \in {"dispatch", "copy"} THEN 0 ELSE 1
      BY <1>1 DEF Closed
    <2>2. /\ ends'[Shared("copy")] = IF coord \in {"dispatch", "copy"} THEN 1 ELSE 2
          /\ pushedEnd' /\ counter' = 0
          /\ \A p \in Pushes : p # Shared("copy") => ends'[p] = ends[p]
      BY <1>1, <2>1, PushNames DEF CopyDone, Shape, TypeOK
    <2> QED BY <2>2, PushNames DEF Closed, Merged, Kinds
  <1>2. CASE counter # 1
    <2>1. ends' = ends /\ pushedEnd' = pushedEnd /\ counter' = counter - 1
      BY <1>2 DEF CopyDone
    <2> QED BY <2>1 DEF Closed, Merged, Shape, TypeOK
  <1> QED BY <1>1, <1>2

LEMMA ClosedStep == Shape /\ Progress /\ Closed /\ [Next]_vars => Closed'
  <1> SUFFICES ASSUME Shape, Progress, Closed, [Next]_vars PROVE Closed'
    OBVIOUS
  <1>u. CASE UNCHANGED vars
    BY <1>u, ClosedFrame
  <1>1. ASSUME NEW w \in Workers, Claim(w) PROVE Closed'
    BY <1>1, ClosedFrame DEF Claim
  <1>2. ASSUME NEW w \in Workers, SkipDead(w) PROVE Closed'
    BY <1>2, ClosedFrame DEF SkipDead
  <1>3. ASSUME NEW w \in Workers, NeedsRetry(w) PROVE Closed'
    BY <1>3, ClosedFrame DEF NeedsRetry
  <1>4. ASSUME NEW w \in Workers, Fails(w) PROVE Closed'
    BY <1>4, ClosedFrame DEF Fails
  <1>5. ASSUME NEW w \in Workers, AlreadyCopied(w) PROVE Closed'
    BY <1>5, ClosedFrame DEF AlreadyCopied
  <1>6. ASSUME NEW w \in Workers, ChooseCopy(w) PROVE Closed'
    BY <1>6, ClosedFrame DEF ChooseCopy
  <1>7. ASSUME NEW w \in Workers, AcquireCopy(w) PROVE Closed'
    BY <1>7, ClosedFrame DEF AcquireCopy
  <1>8. ASSUME NEW w \in Workers, FallBack(w) PROVE Closed'
    BY <1>8, ClosedFrame DEF FallBack
  <1>9. ASSUME NEW w \in Workers, CopyPage(w) PROVE Closed'
    BY <1>9, ClosedFrame DEF CopyPage
  <1>10. ASSUME NEW w \in Workers, TrackCopy(w) PROVE Closed'
    <2>1. /\ pc[w] = "pages" /\ copied' = copied \cup {Item(w)}
          /\ ends' = IF ext[w] THEN ends ELSE [ends EXCEPT ![CopyPush(w)] = @ + 1]
          /\ UNCHANGED <<pushedEnd, counter, split, heavy, coord, timedOut, failed, mapped>>
      BY <1>10 DEF TrackCopy
    <2>2. CASE ext[w]
      BY <2>1, <2>2, ClosedFrame
    <2>3. CASE ~ext[w]
      <3>1. CopyPush(w) = Private("copy", Item(w)) /\ Item(w) \in Items
        BY <2>1, <2>3, BusyItem DEF CopyPush
      <3>2. ends[CopyPush(w)] = 0
        BY <2>1, <3>1 DEF Progress, Closed
      <3> HIDE DEF Item
      <3>3. /\ ends'[CopyPush(w)] = 1
            /\ \A p \in Pushes : p # CopyPush(w) => ends'[p] = ends[p]
        BY <2>1, <2>3, <3>2, <3>1, PushNames DEF Shape, TypeOK, Kinds
      <3> QED BY <2>1, <3>1, <3>3, PushNames DEF Closed, Kinds, Merged
    <2> QED BY <2>2, <2>3
  <1>11. ASSUME NEW w \in Workers, CountCopy(w) PROVE Closed'
    <2>1. CASE CopiesDone(w)
      <3>1. /\ CopyDone /\ pc[w] # "idle"
            /\ UNCHANGED <<split, heavy, coord, timedOut, copied, mapped>> /\ (failed => failed')
        BY <1>11, <2>1 DEF CountCopy
      <3>2. split /\ Merged # {}
        BY <2>1 DEF CopiesDone, Participates, Counts, Shares
      <3> QED BY <3>1, <3>2, BusyItem, CopyDoneClosed
    <2>2. CASE ~CopiesDone(w)
      BY <1>11, <2>2, ClosedFrame DEF CountCopy
    <2> QED BY <2>1, <2>2
  <1>12. ASSUME NEW w \in Workers, ChooseMap(w) PROVE Closed'
    BY <1>12, ClosedFrame DEF ChooseMap
  <1>13. ASSUME NEW w \in Workers, WriteMap(w) PROVE Closed'
    <2> DEFINE p == IF ext[w] /\ Fits("map") THEN Shared("map") ELSE Private("map", Item(w))
    <2>1. /\ pc[w] = "write" /\ mapped' = mapped \cup {Item(w)}
          /\ ends' = IF p = Shared("map") THEN ends ELSE [ends EXCEPT ![p] = @ + 1]
          /\ UNCHANGED <<pushedEnd, counter, split, heavy, coord, timedOut, failed, copied>>
      BY <1>13 DEF WriteMap
    <2>2. CASE p = Shared("map")
      BY <2>1, <2>2, ClosedFrame
    <2>3. CASE p # Shared("map")
      <3>1. p = Private("map", Item(w)) /\ Item(w) \in Items
        BY <2>1, <2>3, BusyItem
      <3>2. ends[p] = 0
        BY <2>1, <3>1 DEF Progress, Closed
      <3> HIDE DEF Item, p
      <3>3. /\ ends'[p] = 1
            /\ \A q \in Pushes : q # p => ends'[q] = ends[q]
        BY <2>1, <2>3, <3>2, <3>1, PushNames DEF Shape, TypeOK, Kinds
      <3> QED BY <2>1, <3>1, <3>3, PushNames DEF Closed, Kinds, Merged
    <2> QED BY <2>2, <2>3
  <1>14. ASSUME NEW w \in Workers, AlreadyMapped(w) PROVE Closed'
    BY <1>14, ClosedFrame DEF AlreadyMapped
  <1>15. ASSUME NEW w \in Workers, Leave(w) PROVE Closed'
    <2>1. CASE Participates(w) /\ ~decremented[w]
      <3>1. /\ CopyDone /\ pc[w] # "idle"
            /\ UNCHANGED <<split, heavy, coord, timedOut, copied, mapped>> /\ (failed => failed')
        BY <1>15, <2>1 DEF Leave
      <3>2. split /\ Merged # {}
        BY <2>1 DEF Participates, Counts, Shares
      <3> QED BY <3>1, <3>2, BusyItem, CopyDoneClosed
    <2>2. CASE ~(Participates(w) /\ ~decremented[w])
      BY <1>15, <2>2, ClosedFrame DEF Leave
    <2> QED BY <2>1, <2>2
  <1>16. ASSUME CloseCopy PROVE Closed'
    BY <1>16, PushNames DEF CloseCopy, Shape, TypeOK, Closed, Merged, Kinds
  <1>17. ASSUME CloseMap PROVE Closed'
    BY <1>17, PushNames DEF CloseMap, Shape, TypeOK, Closed, Merged, Kinds
  <1>18. ASSUME PushReplay PROVE Closed'
    <2>1. /\ coord' = "done" /\ coord = "replay"
          /\ UNCHANGED <<pushedEnd, counter, split, heavy, failed, timedOut, copied, mapped>>
          /\ \A p \in Pushes : p # ReplayPush => ends'[p] = ends[p]
      BY <1>18, PushNames DEF PushReplay, Shape, TypeOK
    <2>2. /\ failed => ends'[ReplayPush] = ends[ReplayPush]
          /\ ~failed => ends'[ReplayPush] = ends[ReplayPush] + 1
      BY <1>18, PushNames DEF PushReplay, Shape, TypeOK
    <2>3. (timedOut => failed) /\ ends[ReplayPush] = 0
      BY <2>1 DEF Shape, Owned, Closed
    <2> QED BY <2>1, <2>2, <2>3, PushNames DEF Closed, Merged, Kinds
  <1>19. ASSUME NEW p \in Pushes, Execute(p) PROVE Closed'
    BY <1>19, ClosedFrame DEF Execute
  <1>20. ASSUME DispatchDone PROVE Closed'
    BY <1>20 DEF DispatchDone, Shape, Owned, Closed, Merged
  <1>21. ASSUME TimeOut PROVE Closed'
    BY <1>21 DEF TimeOut, Shape, Owned, Closed, Merged
  <1> QED BY <1>u, <1>1, <1>2, <1>3, <1>4, <1>5, <1>6, <1>7, <1>8, <1>9, <1>10, <1>11, <1>12, <1>13, <1>14, <1>15, <1>16, <1>17, <1>18, <1>19,
             <1>20, <1>21
          DEF Next, Worker, Coordinator

LEMMA ProgressInit == Init => Progress
  BY SharedPushAssumption DEF Init, Progress, Busy

LEMMA ClosedInit == Init => Closed
  BY PushNames DEF Init, Closed, Kinds

\* No push of the segment is left open, and none is ended twice, but for the shared copy
\* push of a timed-out dispatch with copy/map split.
THEOREM EveryPushEndsOnce == Spec => []PushesEndedOnce
  <1>1. ASSUME Shape, Closed PROVE PushesEndedOnce
    <2>1. ASSUME NEW p \in Pushes
          PROVE  ends[p] <= IF p = Shared("copy") /\ split /\ timedOut THEN 2 ELSE 1
      <3>1. CASE p \in PrivatePushes
        BY <1>1, <3>1, PushNames DEF Closed, Kinds
      <3>2. CASE p = Shared("copy")
        BY <1>1, <3>2 DEF Closed
      <3>3. CASE p \in {Shared("map"), ReplayPush}
        BY <1>1, <3>3, PushNames DEF Closed
      <3> QED BY <3>1, <3>2, <3>3, PushNames
    <2>2. coord \in {"replay", "done"} => ends[Shared("copy")] >= 1 /\ ends[Shared("map")] >= 1
      BY <1>1 DEF Closed
    <2> QED BY <2>1, <2>2 DEF PushesEndedOnce, Kinds
  <1> QED BY <1>1, ShapeInit, ProgressInit, ClosedInit, ShapeStep, ProgressStep, ClosedStep,
             PTL DEF Spec

-----------------------------------------------------------------------------
(* Tracked *)

\* No push is opened again, and the replay is not ended.
EndsGrow ==
    /\ \A p \in Pushes : ends[p] > 0 => ends'[p] > 0
    /\ ends'[ReplayPush] = ends[ReplayPush]

LEMMA CopyDoneGrows ==
    ASSUME Shape
    PROVE  (CopyDone => EndsGrow) /\ (UNCHANGED ends => EndsGrow)
  <1>1. ASSUME CopyDone PROVE EndsGrow
    <2>1. ends' = ends \/ ends' = [ends EXCEPT ![Shared("copy")] = @ + 1]
      BY <1>1 DEF CopyDone
    <2> QED BY <2>1, PushNames DEF EndsGrow, Shape, TypeOK
  <1> QED BY <1>1 DEF EndsGrow

LEMMA TrackedFrame ==
    ASSUME Shape, Tracked, UNCHANGED <<work, acquired, tracker, copied, mapped, executed>>,
           EndsGrow \/ UNCHANGED ends,
           \A v \in Workers : pc[v] = "pages" =>
               pc'[v] = "pages" /\ ext'[v] = ext[v] /\ Item(v)' = Item(v)
    PROVE  Tracked'
  <1>1. ItemsTracked'
    BY DEF Tracked, ItemsTracked
  <1>2. PushesTracked'
    BY DEF Tracked, PushesTracked, EndsGrow, Shape, TypeOK
  <1> QED BY <1>1, <1>2 DEF Tracked

LEMMA TrackedStep == Shape /\ Progress /\ Closed /\ Tracked /\ [Next]_vars => Tracked'
  <1> SUFFICES ASSUME Shape, Progress, Closed, Tracked, [Next]_vars PROVE Tracked'
    OBVIOUS
  <1>u. CASE UNCHANGED vars
    BY <1>u, TrackedFrame DEF Item
  <1>1. ASSUME NEW w \in Workers, Claim(w) PROVE Tracked'
    BY <1>1, TrackedFrame DEF Claim, Shape, TypeOK, Item
  <1>2. ASSUME NEW w \in Workers, SkipDead(w) PROVE Tracked'
    BY <1>2, TrackedFrame DEF SkipDead, Shape, TypeOK, Item
  <1>3. ASSUME NEW w \in Workers, NeedsRetry(w) PROVE Tracked'
    BY <1>3, TrackedFrame DEF NeedsRetry, Break, Shape, TypeOK, Item
  <1>4. ASSUME NEW w \in Workers, Fails(w) PROVE Tracked'
    BY <1>4, TrackedFrame DEF Fails, Break, Shape, TypeOK, Item
  <1>5. ASSUME NEW w \in Workers, AlreadyCopied(w) PROVE Tracked'
    BY <1>5, TrackedFrame DEF AlreadyCopied, Shape, TypeOK, Item
  <1>6. ASSUME NEW w \in Workers, ChooseCopy(w) PROVE Tracked'
    <2>1. /\ pc[w] = "copy" /\ UNCHANGED <<work, acquired, tracker, copied, mapped, executed>>
          /\ UNCHANGED <<ends, blk, phase>>
      BY <1>6 DEF ChooseCopy
    <2>2. \A v \in Workers : v # w => pc'[v] = pc[v] /\ ext'[v] = ext[v]
      BY <1>6 DEF ChooseCopy, Shape, TypeOK
    <2>3. \A v \in Workers : pc[v] = "pages" =>
              pc'[v] = "pages" /\ ext'[v] = ext[v] /\ Item(v)' = Item(v)
      BY <2>1, <2>2 DEF Item
    <2> QED BY <2>1, <2>3, TrackedFrame
  <1>7. ASSUME NEW w \in Workers, AcquireCopy(w) PROVE Tracked'
    <2>1. /\ pc[w] = "acquire" /\ pc' = [pc EXCEPT ![w] = "pages"]
          /\ Append(w, CopyPush(w), 0, Dependencies(w))
          /\ UNCHANGED <<ends, tracker, copied, mapped, executed, ext, blk, phase>>
      BY <1>7 DEF AcquireCopy
    <2>2. /\ CopyPush(w) \in Pushes /\ CopyPush(w) # ReplayPush
      BY <2>1, BusyItem, PushNames DEF CopyPush, Kinds
    <2>3. /\ \A q \in Pushes : work'[q] = work[q] /\ acquired[q] \subseteq acquired'[q]
          /\ \A q \in Pushes : ends[q] > 0 => acquired'[q] = acquired[q]
      <3>1. ends[CopyPush(w)] > 0 \/ ends[CopyPush(w)] = 0
        BY <2>2 DEF Shape, TypeOK
      <3>2. /\ \A q \in Pushes : q # CopyPush(w) => work'[q] = work[q] /\ acquired'[q] = acquired[q]
            /\ ends[CopyPush(w)] > 0 => work' = work /\ acquired' = acquired
            /\ ends[CopyPush(w)] = 0 =>
                  /\ acquired'[CopyPush(w)] = acquired[CopyPush(w)] \cup Dependencies(w)
                  /\ work'[CopyPush(w)] = work[CopyPush(w)]
        BY <2>1, <2>2, BusyItem, Appended DEF Shape
      <3> HIDE DEF CopyPush, Dependencies
      <3> QED BY <3>1, <3>2
    <2>4. ItemsTracked'
      <3>1. \A v \in Workers : pc[v] = "pages" => pc'[v] = "pages" /\ Item(v)' = Item(v)
        BY <2>1 DEF Item, Shape, TypeOK
      <3> QED BY <2>1, <2>3, <3>1, PushNames DEF Tracked, ItemsTracked, Kinds
    <2>5. PushesTracked'
      BY <2>1, <2>3, PushNames DEF Tracked, PushesTracked, Shape, TypeOK
    <2> QED BY <2>4, <2>5 DEF Tracked
  <1>8. ASSUME NEW w \in Workers, FallBack(w) PROVE Tracked'
    BY <1>8, TrackedFrame DEF FallBack, Shape, TypeOK, Item
  <1>9. ASSUME NEW w \in Workers, CopyPage(w) PROVE Tracked'
    <2>1. /\ pc[w] = "pages" /\ Append(w, CopyPush(w), 1, {})
          /\ UNCHANGED <<ends, tracker, copied, mapped, executed, pc, ext, blk, phase>>
      BY <1>9 DEF CopyPage
    <2>2. /\ Item(w) \in Items /\ Item(w) \notin copied /\ CopyPush(w) \in Pushes
          /\ CopyPush(w) # Shared("map")
          /\ \A i \in Items : CopyPush(w) # Private("map", i)
          /\ ~ext[w] => CopyPush(w) = Private("copy", Item(w))
          /\ \A i \in Items : CopyPush(w) = Private("copy", i) => i = Item(w) /\ ~ext[w]
      BY <2>1, BusyItem, PushNames DEF CopyPush, Kinds, Progress
    <2>3. /\ \A q \in Pushes : acquired'[q] = acquired[q]
          /\ \A q \in Pushes : q # CopyPush(w) => work'[q] = work[q]
          /\ work'[CopyPush(w)] \subseteq work[CopyPush(w)] \cup {Item(w)}
      <3>1. ends[CopyPush(w)] \in Nat
        BY <2>2 DEF Shape, TypeOK
      <3> HIDE DEF Item
      <3>2. CASE ends[CopyPush(w)] > 0
        BY <2>1, <2>2, <3>2, Appended DEF Shape
      <3>3. CASE ends[CopyPush(w)] = 0
        <4>1. /\ acquired'[CopyPush(w)] = acquired[CopyPush(w)] \cup {}
              /\ work'[CopyPush(w)] = work[CopyPush(w)] \cup {Item(w)}
              /\ \A q \in Pushes : q # CopyPush(w) => work'[q] = work[q] /\ acquired'[q] = acquired[q]
          <5>1. TypeOK /\ {} \in SUBSET Pushes /\ 1 \in Nat /\ 1 > 0 /\ 1 # 0
            BY DEF Shape
          <5>2. Append(w, CopyPush(w), 1, {}) /\ Item(w) \in Items /\ CopyPush(w) \in Pushes
            BY <2>1, <2>2
          <5> QED BY ONLY <5>1, <5>2, <3>3, w \in Workers, Appended
        <4>2. acquired[CopyPush(w)] \cup {} = acquired[CopyPush(w)]
          OBVIOUS
        <4> QED BY <4>1, <4>2
      <3> QED BY <3>1, <3>2, <3>3
    <2>4. ItemsTracked'
      <3> HIDE DEF Item
      <3>1. \A v \in Workers : Item(v)' = Item(v)
        BY <2>1 DEF Item
      <3> SUFFICES ASSUME NEW i \in Items
                   PROVE  /\ work'[Private("copy", i)] \subseteq {i}
                          /\ i \in work'[Private("copy", i)] =>
                                \/ i \in copied /\ Private("copy", i) \in tracker[i[1]]
                                \/ /\ i \notin copied
                                   /\ \E v \in Workers : pc[v] = "pages" /\ ~ext[v] /\ Item(v) = i
                          /\ i = Item(w) => /\ i \notin work[Shared("map")]
                                            /\ i \notin work[Private("map", i)]
        BY <2>1, <2>2, <2>3, <3>1, PushNames DEF Tracked, ItemsTracked, Kinds
      <3>2. CASE CopyPush(w) = Private("copy", i)
        BY <2>1, <2>2, <2>3, <3>2, PushNames DEF Tracked, ItemsTracked, Kinds, Progress
      <3>3. CASE CopyPush(w) # Private("copy", i)
        BY <2>1, <2>2, <2>3, <3>3, PushNames DEF Tracked, ItemsTracked, Kinds, Progress
      <3> QED BY <3>2, <3>3
    <2>5. PushesTracked'
      BY <2>1, <2>3, PushNames DEF Tracked, PushesTracked, Shape, TypeOK
    <2> QED BY <2>4, <2>5 DEF Tracked
  <1>10. ASSUME NEW w \in Workers, TrackCopy(w) PROVE Tracked'
    <2> DEFINE e == IF ext[w] THEN ends ELSE [ends EXCEPT ![CopyPush(w)] = @ + 1]
    <2>1. /\ pc[w] = "pages" /\ pc' = [pc EXCEPT ![w] = "copied"] /\ ends' = e
          /\ copied' = copied \cup {Item(w)}
          /\ tracker' = [tracker EXCEPT ![blk[w]] = @ \cup Entry(CopyPush(w), e)]
          /\ UNCHANGED <<work, acquired, executed, mapped, blk, phase, ext>>
      BY <1>10 DEF TrackCopy
    <2>2. /\ Item(w) \in Items /\ Item(w)[1] = blk[w] /\ blk[w] \in Blocks
          /\ CopyPush(w) \in Pushes /\ CopyPush(w) # ReplayPush
          /\ ends[ReplayPush] = 0
          /\ ~ext[w] => CopyPush(w) = Private("copy", Item(w))
      BY <2>1, BusyItem, PushNames DEF CopyPush, Kinds, Closed
    <2>3. /\ \A q \in Pushes : ends[q] > 0 => ends'[q] > 0
          /\ ends'[ReplayPush] = 0
          /\ ~ext[w] => ends'[CopyPush(w)] > 0
      BY <2>1, <2>2, PushNames DEF Shape, TypeOK
    <2>4. /\ \A b \in Blocks : tracker[b] \subseteq tracker'[b]
          /\ \A b \in Blocks : \A q \in tracker'[b] : q \in tracker[b] \/ ends'[q] > 0
          /\ ~ext[w] => CopyPush(w) \in tracker'[blk[w]]
      <3>1. \A b \in Blocks : tracker'[b] = IF b = blk[w] THEN tracker[b] \cup Entry(CopyPush(w), e)
                                                         ELSE tracker[b]
        BY <2>1, <2>2 DEF Shape, TypeOK
      <3>2. \A q \in Entry(CopyPush(w), e) : e[q] > 0
        BY DEF Entry
      <3>3. ~ext[w] => CopyPush(w) \in Entry(CopyPush(w), e)
        BY <2>1, <2>3 DEF Entry
      <3>4. ends' = e
        BY <2>1
      <3> HIDE DEF e
      <3> QED BY <2>2, <3>1, <3>2, <3>3, <3>4
    <2>5. ItemsTracked'
      <3> HIDE DEF e, Item
      <3>1. /\ \A v \in Workers : Item(v)' = Item(v)
            /\ \A v \in Workers : v # w => pc'[v] = pc[v]
        BY <2>1 DEF Item, Shape, TypeOK
      <3>2. \A v \in Workers : pc[v] = "pages" /\ Item(v) = Item(w) => v = w
        BY <2>1 DEF Shape, Owned, Busy, Item
      <3>3. \A i \in Items : i[1] \in Blocks
        BY ItemNames
      <3> SUFFICES ASSUME NEW i \in Items, i \in work[Private("copy", i)]
                   PROVE  \/ i \in copied' /\ Private("copy", i) \in tracker'[i[1]]
                          \/ /\ i \notin copied'
                             /\ \E v \in Workers : pc'[v] = "pages" /\ ~ext[v] /\ Item(v) = i
        BY <2>1, <2>4, <3>1, <3>3 DEF Tracked, ItemsTracked
      <3>4. CASE i \in copied
        BY <2>1, <2>4, <3>3, <3>4 DEF Tracked, ItemsTracked
      <3>5. CASE i \notin copied
        <4>1. PICK v \in Workers : pc[v] = "pages" /\ ~ext[v] /\ Item(v) = i
          BY <3>5 DEF Tracked, ItemsTracked
        <4>2. CASE v = w
          BY <2>1, <2>2, <2>4, <4>1, <4>2
        <4>3. CASE v # w
          BY <2>1, <3>1, <3>2, <3>5, <4>1, <4>3
        <4> QED BY <4>2, <4>3
      <3> QED BY <3>4, <3>5
    <2>6. PushesTracked'
      <3> HIDE DEF e
      <3> QED BY <2>1, <2>2, <2>3, <2>4, PushNames DEF Tracked, PushesTracked, Shape, TypeOK
    <2> QED BY <2>5, <2>6 DEF Tracked
  <1>11. ASSUME NEW w \in Workers, CountCopy(w) PROVE Tracked'
    <2>1. /\ UNCHANGED <<work, acquired, tracker, copied, mapped, executed, blk, phase, ext>>
          /\ pc[w] = "copied" /\ pc' = [pc EXCEPT ![w] = "map"]
      BY <1>11 DEF CountCopy
    <2>2. EndsGrow
      BY <1>11, CopyDoneGrows DEF CountCopy, EndsGrow
    <2> QED BY <2>1, <2>2, TrackedFrame DEF EndsGrow, Item, Shape, TypeOK
  <1>12. ASSUME NEW w \in Workers, ChooseMap(w) PROVE Tracked'
    <2>1. /\ pc[w] = "map" /\ UNCHANGED <<work, acquired, tracker, copied, mapped, executed>>
          /\ UNCHANGED <<ends, blk, phase>>
      BY <1>12 DEF ChooseMap
    <2>2. \A v \in Workers : v # w => pc'[v] = pc[v] /\ ext'[v] = ext[v]
      BY <1>12 DEF ChooseMap, Shape, TypeOK
    <2>3. \A v \in Workers : pc[v] = "pages" =>
              pc'[v] = "pages" /\ ext'[v] = ext[v] /\ Item(v)' = Item(v)
      BY <2>1, <2>2 DEF Item
    <2> QED BY <2>1, <2>3, TrackedFrame
  <1>13. ASSUME NEW w \in Workers, WriteMap(w) PROVE Tracked'
    <2> DEFINE p == IF ext[w] /\ Fits("map") THEN Shared("map") ELSE Private("map", Item(w))
               e == IF p = Shared("map") THEN ends ELSE [ends EXCEPT ![p] = @ + 1]
    <2>1. /\ pc[w] = "write" /\ ends' = e
          /\ Append(w, p, MapUnits, Dependencies(w))
          /\ mapped' = mapped \cup {Item(w)}
          /\ tracker' = [tracker EXCEPT ![blk[w]] = @ \cup Entry(p, e)]
          /\ UNCHANGED <<executed, copied, blk, ext>> /\ NextPhase(w)
      BY <1>13 DEF WriteMap
    <2>2. /\ Item(w) \in Items /\ Item(w)[1] = blk[w] /\ blk[w] \in Blocks
          /\ p \in Pushes /\ p # ReplayPush
          /\ ends[ReplayPush] = 0 /\ ends[p] \in Nat
          /\ p # Shared("map") => p = Private("map", Item(w)) /\ ends[p] = 0
          /\ Item(w) \in copied /\ Item(w) \notin mapped
      BY <2>1, BusyItem, PushNames DEF Kinds, Closed, Progress, Shape, TypeOK
    <2>3. /\ \A q \in Pushes : ends[q] > 0 => ends'[q] > 0
          /\ ends'[ReplayPush] = 0
          /\ p # Shared("map") => ends'[p] > 0
      BY <2>1, <2>2, PushNames DEF Shape, TypeOK
    <2>4. /\ \A b \in Blocks : tracker[b] \subseteq tracker'[b]
          /\ \A b \in Blocks : \A q \in tracker'[b] : q \in tracker[b] \/ ends'[q] > 0
          /\ p # Shared("map") => p \in tracker'[blk[w]]
      <3>1. \A b \in Blocks : tracker'[b] = IF b = blk[w] THEN tracker[b] \cup Entry(p, e)
                                                         ELSE tracker[b]
        BY <2>1, <2>2 DEF Shape, TypeOK
      <3>2. \A q \in Entry(p, e) : e[q] > 0
        BY DEF Entry
      <3>3. p # Shared("map") => p \in Entry(p, e)
        BY <2>1, <2>3 DEF Entry
      <3>4. ends' = e
        BY <2>1
      <3> HIDE DEF p, e
      <3> QED BY <2>2, <3>1, <3>2, <3>3, <3>4
    <2> HIDE DEF p, e
    <2>5. /\ \A q \in Pushes : q # p => work'[q] = work[q] /\ acquired'[q] = acquired[q]
          /\ \/ /\ ends[p] > 0 /\ p = Shared("map") /\ work' = work /\ acquired' = acquired
             \/ /\ ends[p] = 0 /\ work'[p] = work[p] \cup {Item(w)}
                /\ acquired'[p] = acquired[p] \cup tracker[blk[w]]
      BY <2>1, <2>2, BusyItem, Appended, SharedPushAssumption DEF Shape, Dependencies
    <2>6. ItemsTracked'
      <3>1. \A v \in Workers : pc[v] = "pages" => pc'[v] = "pages" /\ Item(v)' = Item(v)
        BY <2>1 DEF NextPhase, Break, Item, Shape, TypeOK
      <3> HIDE DEF Item
      <3>2. Item(w) \in work[Private("copy", Item(w))] =>
                Private("copy", Item(w)) \in tracker[blk[w]]
        BY <2>2 DEF Tracked, ItemsTracked
      <3>3. \A i \in Items : i[1] \in Blocks
        BY ItemNames
      <3>4. \A i \in Items : p # Private("copy", i) /\ (p = Private("map", i) => i = Item(w))
        BY <2>2, PushNames DEF Kinds
      <3> SUFFICES ASSUME NEW i \in Items
                   PROVE  /\ work'[Private("map", i)] \subseteq {i}
                          /\ i \in work'[Private("map", i)] => Private("map", i) \in tracker'[i[1]]
                          /\ i \in work'[Shared("map")] \/ i \in work'[Private("map", i)]
                                => i \in mapped'
                          /\ i \in work[Private("copy", i)] /\ i \in work'[Shared("map")] =>
                                Private("copy", i) \in acquired'[Shared("map")]
                          /\ i \in work[Private("copy", i)] /\ i \in work'[Private("map", i)] =>
                                Private("copy", i) \in acquired'[Private("map", i)]
        <4>1. \A i \in Items : work'[Private("copy", i)] = work[Private("copy", i)]
          BY <2>5, <3>4, PushNames DEF Kinds
        <4> QED BY <2>1, <2>4, <3>1, <3>3, <4>1 DEF Tracked, ItemsTracked
      <3>5. CASE i # Item(w)
        <4>1. /\ work'[Private("map", i)] = work[Private("map", i)]
              /\ acquired'[Private("map", i)] = acquired[Private("map", i)]
              /\ i \in work'[Shared("map")] => i \in work[Shared("map")]
              /\ acquired[Shared("map")] \subseteq acquired'[Shared("map")]
          BY <2>5, <3>4, <3>5, PushNames DEF Kinds
        <4> QED BY <2>1, <2>4, <3>3, <4>1 DEF Tracked, ItemsTracked
      <3>6. CASE i = Item(w)
        <4>1. i \notin work[Shared("map")] /\ i \notin work[Private("map", i)]
          BY <2>2, <3>6 DEF Tracked, ItemsTracked
        <4>2. CASE p = Shared("map")
          <5>1. /\ work'[Private("map", i)] = work[Private("map", i)]
                /\ acquired'[Private("map", i)] = acquired[Private("map", i)]
            BY <2>5, <4>2, PushNames DEF Kinds
          <5> QED BY <2>1, <2>2, <2>5, <3>2, <3>6, <4>1, <4>2, <5>1 DEF Tracked, ItemsTracked
        <4>3. CASE p # Shared("map")
          <5>1. /\ p = Private("map", i) /\ work'[Shared("map")] = work[Shared("map")]
            BY <2>2, <2>5, <3>6, <4>3, PushNames DEF Kinds
          <5> QED BY <2>1, <2>2, <2>4, <2>5, <3>2, <3>6, <4>1, <4>3, <5>1
                  DEF Tracked, ItemsTracked
        <4> QED BY <4>2, <4>3
      <3> QED BY <3>5, <3>6
    <2>7. PushesTracked'
      <3>1. \A q \in executed : acquired'[q] = acquired[q]
        BY <2>2, <2>5 DEF Tracked, PushesTracked, Shape, TypeOK
      <3>2. executed \subseteq Pushes /\ \A b \in Blocks : tracker[b] \subseteq Pushes
        BY DEF Shape, TypeOK
      <3> QED BY <2>1, <2>2, <2>3, <2>4, <2>5, <3>1, <3>2 DEF Tracked, PushesTracked
    <2> QED BY <2>6, <2>7 DEF Tracked
  <1>14. ASSUME NEW w \in Workers, AlreadyMapped(w) PROVE Tracked'
    BY <1>14, TrackedFrame DEF AlreadyMapped, NextPhase, Break, Shape, TypeOK, Item
  <1>15. ASSUME NEW w \in Workers, Leave(w) PROVE Tracked'
    <2>1. /\ UNCHANGED <<work, acquired, tracker, copied, mapped, executed>>
          /\ pc[w] = "leave" /\ ext' = [ext EXCEPT ![w] = FALSE]
          /\ \A v \in Workers : v # w => pc'[v] = pc[v] /\ blk'[v] = blk[v] /\ phase'[v] = phase[v]
      BY <1>15 DEF Leave, Shape, TypeOK
    <2>2. EndsGrow
      BY <1>15, CopyDoneGrows DEF Leave, EndsGrow
    <2>3. \A v \in Workers : pc[v] = "pages" =>
              pc'[v] = "pages" /\ ext'[v] = ext[v] /\ Item(v)' = Item(v)
      BY <2>1 DEF Item, Shape, TypeOK
    <2> QED BY <2>1, <2>2, <2>3, TrackedFrame DEF EndsGrow
  <1>16. ASSUME CloseCopy PROVE Tracked'
    <2>1. UNCHANGED <<work, acquired, tracker, copied, mapped, executed, pc, ext, blk, phase>>
      BY <1>16 DEF CloseCopy
    <2>2. EndsGrow
      BY <1>16, PushNames DEF CloseCopy, EndsGrow, Shape, TypeOK
    <2> QED BY <2>1, <2>2, TrackedFrame DEF EndsGrow, Item
  <1>17. ASSUME CloseMap PROVE Tracked'
    <2>1. UNCHANGED <<work, acquired, tracker, copied, mapped, executed, pc, ext, blk, phase>>
      BY <1>17 DEF CloseMap
    <2>2. EndsGrow
      BY <1>17, PushNames DEF CloseMap, EndsGrow, Shape, TypeOK
    <2> QED BY <2>1, <2>2, TrackedFrame DEF EndsGrow, Item
  <1>18. ASSUME PushReplay PROVE Tracked'
    <2>1. UNCHANGED <<work, tracker, copied, mapped, executed, pc, ext, blk, phase>>
      BY <1>18 DEF PushReplay
    <2>2. ends[ReplayPush] = 0
      BY <1>18 DEF PushReplay, Closed
    <2>3. /\ \A q \in Pushes : q # ReplayPush => acquired'[q] = acquired[q] /\ ends'[q] = ends[q]
          /\ ends'[ReplayPush] > 0 => \A b \in Blocks : tracker[b] \subseteq acquired'[ReplayPush]
      BY <1>18, <2>2, PushNames DEF PushReplay, Shape, TypeOK
    <2>4. ItemsTracked'
      BY <2>1, <2>3, PushNames DEF Tracked, ItemsTracked, Item, Kinds
    <2>5. PushesTracked'
      <3>1. /\ executed \subseteq Pushes /\ \A b \in Blocks : tracker[b] \subseteq Pushes
            /\ \A q \in executed : q # ReplayPush
            /\ \A b \in Blocks : \A q \in tracker[b] : q # ReplayPush
        BY <2>2 DEF Shape, TypeOK, Tracked, PushesTracked
      <3> QED BY <2>1, <2>3, <3>1 DEF Tracked, PushesTracked
    <2> QED BY <2>4, <2>5 DEF Tracked
  <1>19. ASSUME NEW p \in Pushes, Execute(p) PROVE Tracked'
    BY <1>19 DEF Execute, Tracked, ItemsTracked, PushesTracked, Item
  <1>20. ASSUME DispatchDone PROVE Tracked'
    BY <1>20, TrackedFrame DEF DispatchDone, Item
  <1>21. ASSUME TimeOut PROVE Tracked'
    BY <1>21, TrackedFrame DEF TimeOut, Item
  <1> QED BY <1>u, <1>1, <1>2, <1>3, <1>4, <1>5, <1>6, <1>7, <1>8, <1>9, <1>10, <1>11, <1>12, <1>13, <1>14, <1>15, <1>16, <1>17, <1>18, <1>19,
             <1>20, <1>21
          DEF Next, Worker, Coordinator

LEMMA TrackedInit == Init => Tracked
  BY PushNames DEF Init, Tracked, ItemsTracked, PushesTracked, Kinds

\* A PTE is written after a private copy of its page, and a replay comes after all
\* private pushes.
THEOREM PrivatePushesInOrder == Spec => []PrivateInOrder
  <1>1. ASSUME Shape, Closed, Tracked PROVE PrivateInOrder
    <2>1. ASSUME NEW i \in Items, Ran("map", i), i \in work[Private("copy", i)]
          PROVE  Ran("copy", i)
      <3>1. PICK p \in executed : p[1] = "map" /\ i \in work[p]
        BY <2>1 DEF Ran
      <3>2. p \in Pushes
        BY <1>1 DEF Shape, TypeOK
      <3>3. p = Shared("map") \/ p = Private("map", i)
        <4>1. CASE p \in PrivatePushes
          <5>1. p[2] \in Items /\ p = Private("map", p[2])
            BY <3>1, <4>1, PushNames
          <5>2. work[Private("map", p[2])] \subseteq {p[2]}
            BY <1>1, <5>1 DEF Tracked, ItemsTracked
          <5> QED BY <3>1, <5>1, <5>2
        <4>2. CASE p \in {Shared("copy"), Shared("map"), ReplayPush}
          BY <3>1, <4>2, PushNames
        <4> QED BY <3>2, <4>1, <4>2, PushNames
      <3>4. Private("copy", i) \in acquired[p]
        BY <1>1, <2>1, <3>1, <3>3 DEF Tracked, ItemsTracked
      <3>5. Private("copy", i) \in executed
        BY <1>1, <3>4 DEF Tracked, PushesTracked
      <3> QED BY <2>1, <3>5, PushNames DEF Ran, Kinds
    <2>2. ASSUME ReplayPush \in executed, NEW i \in Items, NEW k \in Kinds,
                 i \in work[Private(k, i)]
          PROVE  Private(k, i) \in executed
      <3>1. /\ ends[ReplayPush] > 0 /\ acquired[ReplayPush] \subseteq executed
            /\ \A b \in Blocks : tracker[b] \subseteq acquired[ReplayPush]
        BY <1>1, <2>2 DEF Tracked, PushesTracked
      <3>2. coord = "done" /\ ~timedOut
        BY <1>1, <3>1 DEF Closed
      <3>3. \A w \in Workers : pc[w] # "pages"
        BY <1>1, <3>2 DEF Shape, Owned, Busy
      <3>4. Private(k, i) \in tracker[i[1]] /\ i[1] \in Blocks
        BY <1>1, <2>2, <3>3, ItemNames DEF Tracked, ItemsTracked, Kinds
      <3> QED BY <3>1, <3>4
    <2> QED BY <2>1, <2>2 DEF PrivateInOrder
  <1> QED BY <1>1, ShapeInit, ProgressInit, ClosedInit, TrackedInit, ShapeStep, ProgressStep,
             ClosedStep, TrackedStep, PTL DEF Spec

-----------------------------------------------------------------------------
(* FirstPass *)

\* A block that was serviced again after it counted stays one, and a timeout stays.
LEMMA AgainGrows ==
    ASSUME [Next]_vars PROVE again \subseteq again' /\ (timedOut => timedOut')
  <1>1. ASSUME NEW w \in Workers, Worker(w) PROVE again \subseteq again' /\ (timedOut => timedOut')
    BY <1>1 DEF Worker, Claim, SkipDead, NeedsRetry, Fails, AlreadyCopied, ChooseCopy,
       AcquireCopy, FallBack, CopyPage, TrackCopy, CountCopy, ChooseMap, WriteMap,
       AlreadyMapped, Leave
  <1>2. ASSUME Coordinator PROVE again \subseteq again' /\ (timedOut => timedOut')
    BY <1>2 DEF Coordinator, DispatchDone, TimeOut, CloseCopy, CloseMap, PushReplay
  <1>3. ASSUME NEW p \in Pushes, Execute(p) PROVE again \subseteq again' /\ (timedOut => timedOut')
    BY <1>3 DEF Execute
  <1> QED BY <1>1, <1>2, <1>3 DEF Next

LEMMA PendingFinite ==
    ASSUME Shape PROVE IsFiniteSet(Pending) /\ Cardinality(Pending) \in Nat
  <1>1. Pending \subseteq Blocks
    BY DEF Pending, Merged
  <1> QED BY <1>1, FS_Subset, FS_CardinalityType, SharedPushAssumption

LEMMA CountingFrame ==
    ASSUME Shape, Counting, UNCHANGED <<late, counter, split>>, Pending' \subseteq Pending
    PROVE  Counting'
  <1>1. /\ Cardinality(Pending') \in Nat /\ Cardinality(Pending) \in Nat
        /\ Cardinality(Pending') <= Cardinality(Pending)
    BY PendingFinite, FS_Subset, FS_CardinalityType
  <1> QED BY <1>1 DEF Counting, Shape, TypeOK

\* A block that counts can append no more.
LEMMA CountedDown ==
    ASSUME Shape, Counting, UNCHANGED <<late, split>>, counter' = counter - 1,
           NEW b \in Pending, Pending' \subseteq Pending \ {b}
    PROVE  Counting'
  <1>1. /\ IsFiniteSet(Pending \ {b}) /\ Cardinality(Pending \ {b}) = Cardinality(Pending) - 1
    BY PendingFinite, FS_RemoveElement
  <1>2. /\ Cardinality(Pending') \in Nat /\ Cardinality(Pending) \in Nat
        /\ Cardinality(Pending') <= Cardinality(Pending) - 1
    BY <1>1, PendingFinite, FS_Subset, FS_CardinalityType
  <1> QED BY <1>2 DEF Counting, Shape, TypeOK

\* The push of a worker that is about to append copies has not been ended: the block
\* is still in the counter, or its item is not copied yet.
LEMMA CopyPushOpen ==
    ASSUME Shape, Progress, Closed, Counting, ~timedOut, NEW w \in Workers,
           pc[w] \in {"acquire", "pages"}
    PROVE  ends[CopyPush(w)] = 0
  <1>1. CASE ~ext[w]
    BY <1>1, BusyItem DEF CopyPush, Progress, Closed
  <1>2. CASE ext[w]
    <2>1. blk[w] \in Merged /\ ~decremented[w] /\ coord = "dispatch"
      BY <1>2, BusyItem DEF Progress
    <2>2. blk[w] \in Pending
      BY <2>1 DEF Pending
    <2>3. Cardinality(Pending) # 0
      BY <2>2, PendingFinite, FS_EmptySet
    <2>4. ~pushedEnd
      BY <2>3, PendingFinite DEF Closed, Counting, Shape, TypeOK
    <2> QED BY <1>2, <2>1, <2>4 DEF Closed, CopyPush
  <1> QED BY <1>1, <1>2

LEMMA MapPushOpen ==
    ASSUME Shape, Progress, Closed, ~timedOut, NEW w \in Workers, pc[w] = "write"
    PROVE  ends[Shared("map")] = 0 /\ ends[Private("map", Item(w))] = 0
  BY BusyItem DEF Closed, Progress

LEMMA CountingStep ==
    ASSUME Shape, Progress, Closed, Counting, ~timedOut, again' = {}, [Next]_vars
    PROVE  Counting'
  <1>u. CASE UNCHANGED vars
    BY <1>u, CountingFrame DEF Pending, Merged
  <1>1. ASSUME NEW w \in Workers, Claim(w) PROVE Counting'
    <2>1. PICK b \in todo : todo' = todo \ {b} /\ blk' = [blk EXCEPT ![w] = b]
      BY <1>1 DEF Claim
    <2>2. /\ UNCHANGED <<late, counter, split, heavy, decremented>>
          /\ pc[w] = "idle"
      BY <1>1 DEF Claim
    <2>3. Pending' \subseteq Pending
      BY <2>1, <2>2 DEF Pending, Merged, Shape, TypeOK, Owned, Busy
    <2> QED BY <2>2, <2>3, CountingFrame
  <1>2. ASSUME NEW w \in Workers, SkipDead(w) PROVE Counting'
    BY <1>2, CountingFrame DEF SkipDead, Pending, Merged
  <1>3. ASSUME NEW w \in Workers, NeedsRetry(w) PROVE Counting'
    BY <1>3, CountingFrame DEF NeedsRetry, Break, Pending, Merged
  <1>4. ASSUME NEW w \in Workers, Fails(w) PROVE Counting'
    BY <1>4, CountingFrame DEF Fails, Break, Pending, Merged
  <1>5. ASSUME NEW w \in Workers, AlreadyCopied(w) PROVE Counting'
    BY <1>5, CountingFrame DEF AlreadyCopied, Pending, Merged
  <1>6. ASSUME NEW w \in Workers, ChooseCopy(w) PROVE Counting'
    BY <1>6, CountingFrame DEF ChooseCopy, Pending, Merged
  <1>7. ASSUME NEW w \in Workers, AcquireCopy(w) PROVE Counting'
    <2>1. /\ pc[w] \in {"acquire", "pages"} /\ Append(w, CopyPush(w), 0, Dependencies(w))
          /\ UNCHANGED <<counter, split, heavy, todo, blk, decremented>>
      BY <1>7 DEF AcquireCopy
    <2>2. late' = late
      BY <2>1, BusyItem, CopyPushOpen, Appended DEF Shape
    <2> QED BY <2>1, <2>2, CountingFrame DEF Pending, Merged
  <1>8. ASSUME NEW w \in Workers, FallBack(w) PROVE Counting'
    BY <1>8, CountingFrame DEF FallBack, Pending, Merged
  <1>9. ASSUME NEW w \in Workers, CopyPage(w) PROVE Counting'
    <2>1. /\ pc[w] \in {"acquire", "pages"} /\ Append(w, CopyPush(w), 1, {})
          /\ UNCHANGED <<counter, split, heavy, todo, blk, decremented>>
      BY <1>9 DEF CopyPage
    <2>2. late' = late
      BY <2>1, BusyItem, CopyPushOpen, Appended DEF Shape
    <2> QED BY <2>1, <2>2, CountingFrame DEF Pending, Merged
  <1>10. ASSUME NEW w \in Workers, TrackCopy(w) PROVE Counting'
    BY <1>10, CountingFrame DEF TrackCopy, Pending, Merged
  <1>11. ASSUME NEW w \in Workers, CountCopy(w) PROVE Counting'
    <2>1. /\ pc[w] = "copied" /\ UNCHANGED <<late, split, heavy, todo, blk>>
          /\ \A v \in Workers : decremented[v] => decremented'[v]
      BY <1>11 DEF CountCopy, Shape, TypeOK
    <2>2. CASE CopiesDone(w)
      <3>1. counter' = counter - 1 /\ decremented'[w]
        BY <1>11, <2>2 DEF CountCopy, CopyDone, Shape, TypeOK
      <3>2. blk[w] \in Pending
        BY <2>1, <2>2 DEF CopiesDone, Participates, Counts, Shares, Pending, Progress
      <3>3. Pending' \subseteq Pending \ {blk[w]}
        <4>1. Pending' \subseteq Pending
          BY <2>1 DEF Pending, Merged
        <4>2. blk[w] \in Blocks /\ blk[w] \notin todo /\ NoBlock \notin Blocks
          BY <2>1, BusyItem, SharedPushAssumption
        <4>3. \A v \in Workers : blk[v] = blk[w] => v = w
          BY <2>1, <4>2 DEF Shape, Owned, Busy
        <4>4. blk[w] \notin Pending'
          BY <2>1, <3>1, <4>2, <4>3 DEF Pending
        <4> QED BY <4>1, <4>4
      <3> QED BY <2>1, <3>1, <3>2, <3>3, CountedDown
    <2>3. CASE ~CopiesDone(w)
      <3>1. counter' = counter
        BY <1>11, <2>3 DEF CountCopy
      <3>2. Pending' \subseteq Pending
        BY <2>1 DEF Pending, Merged
      <3> QED BY <2>1, <3>1, <3>2, CountingFrame
    <2> QED BY <2>2, <2>3
  <1>12. ASSUME NEW w \in Workers, ChooseMap(w) PROVE Counting'
    BY <1>12, CountingFrame DEF ChooseMap, Pending, Merged
  <1>13. ASSUME NEW w \in Workers, WriteMap(w) PROVE Counting'
    <2> DEFINE p == IF ext[w] /\ Fits("map") THEN Shared("map") ELSE Private("map", Item(w))
    <2>1. /\ pc[w] = "write" /\ Append(w, p, MapUnits, Dependencies(w))
          /\ UNCHANGED <<counter, split, heavy, todo, blk, decremented>>
      BY <1>13 DEF WriteMap
    <2>2. p \in Pushes /\ ends[p] = 0
      BY <2>1, BusyItem, MapPushOpen, PushNames
    <2> HIDE DEF p
    <2>3. late' = late
      BY <2>1, <2>2, BusyItem, Appended, SharedPushAssumption DEF Shape
    <2> QED BY <2>1, <2>3, CountingFrame DEF Pending, Merged
  <1>14. ASSUME NEW w \in Workers, AlreadyMapped(w) PROVE Counting'
    BY <1>14, CountingFrame DEF AlreadyMapped, Pending, Merged
  <1>15. ASSUME NEW w \in Workers, Leave(w) PROVE Counting'
    <2>1. /\ pc[w] = "leave" /\ UNCHANGED <<late, split, heavy, todo>>
          /\ \A v \in Workers : v # w => decremented'[v] = decremented[v] /\ blk'[v] = blk[v]
      BY <1>15 DEF Leave, Shape, TypeOK
    <2>2. status[w] = "more" => ~decremented[w] /\ ~Participates(w) /\ blk' = blk
      BY <1>15 DEF Leave
    <2>3. status[w] # "more" => blk'[w] = NoBlock /\ NoBlock \notin Blocks
      BY <1>15, SharedPushAssumption DEF Leave, Shape, TypeOK
    <2>4. Pending' \subseteq Pending
      BY <2>1, <2>2, <2>3 DEF Pending, Merged
    <2>5. CASE Participates(w) /\ ~decremented[w]
      <3>1. counter' = counter - 1
        BY <1>15, <2>5 DEF Leave, CopyDone
      <3>2. blk[w] \in Pending
        BY <2>5 DEF Participates, Counts, Shares, Pending
      <3>3. blk[w] \notin Pending'
        BY <2>1, <2>2, <2>3, <2>5, BusyItem DEF Pending, Shape, Owned, Busy, TypeOK
      <3> QED BY <2>1, <2>4, <3>1, <3>2, <3>3, CountedDown
    <2>6. CASE ~(Participates(w) /\ ~decremented[w])
      <3>1. counter' = counter
        BY <1>15, <2>6 DEF Leave
      <3> QED BY <2>1, <2>4, <3>1, CountingFrame
    <2> QED BY <2>5, <2>6
  <1>16. ASSUME CloseCopy PROVE Counting'
    BY <1>16, CountingFrame DEF CloseCopy, Pending, Merged
  <1>17. ASSUME CloseMap PROVE Counting'
    BY <1>17, CountingFrame DEF CloseMap, Pending, Merged
  <1>18. ASSUME PushReplay PROVE Counting'
    BY <1>18, CountingFrame DEF PushReplay, Pending, Merged
  <1>19. ASSUME NEW p \in Pushes, Execute(p) PROVE Counting'
    BY <1>19, CountingFrame DEF Execute, Pending, Merged
  <1>20. ASSUME DispatchDone PROVE Counting'
    BY <1>20, CountingFrame DEF DispatchDone, Pending, Merged
  <1>21. ASSUME TimeOut PROVE Counting'
    BY <1>21, CountingFrame DEF TimeOut, Pending, Merged
  <1> QED BY <1>u, <1>1, <1>2, <1>3, <1>4, <1>5, <1>6, <1>7, <1>8, <1>9, <1>10, <1>11, <1>12, <1>13, <1>14, <1>15, <1>16, <1>17, <1>18, <1>19,
             <1>20, <1>21
          DEF Next, Worker, Coordinator

\* Nothing is taken out of a push.
LEMMA SubmittedGrows ==
    ASSUME Shape, Submitted, copied' = copied, UNCHANGED left,
           \A q \in Pushes : work[q] \subseteq work'[q], late \subseteq late',
           \A i \in mapped' : i \in mapped \/ Given("map", i)',
           \A v \in Workers : pc'[v] = "pages" /\ left'[v] < CopyPages =>
               pc[v] = "pages" /\ Item(v)' = Item(v) /\ CopyPush(v)' = CopyPush(v)
    PROVE  Submitted'
  <1>1. copied \subseteq Items /\ mapped \subseteq Items
    BY DEF Shape, TypeOK
  <1>2. \A i \in Items : \A k \in Kinds : Given(k, i) => Given(k, i)'
    BY PushNames DEF Given, Kinds
  <1>3. /\ \A i \in copied' : Given("copy", i)'
        /\ \A i \in mapped' : Given("map", i)'
    BY <1>1, <1>2 DEF Submitted, Kinds
  <1>4. ASSUME NEW v \in Workers, pc'[v] = "pages", left'[v] < CopyPages
        PROVE  Item(v)' \in work'[CopyPush(v)'] \/ Item(v)' \in late'
    <2>1. /\ Item(v) \in work[CopyPush(v)] \/ Item(v) \in late
          /\ CopyPush(v) \in Pushes
      BY <1>4, BusyItem DEF Submitted
    <2> QED BY <1>4, <2>1
  <1> QED BY <1>3, <1>4 DEF Submitted

LEMMA SubmittedFrame ==
    ASSUME Shape, Submitted, UNCHANGED <<copied, mapped, work, late>>,
           \A v \in Workers : pc'[v] = "pages" =>
               /\ pc[v] = "pages" /\ left'[v] = left[v] /\ ext'[v] = ext[v]
               /\ Item(v)' = Item(v)
    PROVE  Submitted'
  <1>1. \A v \in Workers : pc'[v] = "pages" => CopyPush(v)' = CopyPush(v)
    BY DEF CopyPush
  <1> QED BY <1>1 DEF Submitted, Given

\* The push of a worker's copies is ended or open.
LEMMA CopyPushTypes ==
    ASSUME Shape, NEW w \in Workers, pc[w] # "idle"
    PROVE  ends[CopyPush(w)] \in Nat
  BY BusyItem DEF Shape, TypeOK

LEMMA SubmittedStep ==
    ASSUME Shape, Progress, Closed, Submitted, [Next]_vars
    PROVE  Submitted'
  <1>u. CASE UNCHANGED vars
    BY <1>u, SubmittedFrame DEF Item
  <1>1. ASSUME NEW w \in Workers, Claim(w) PROVE Submitted'
    BY <1>1, SubmittedFrame DEF Claim, Shape, TypeOK, Item
  <1>2. ASSUME NEW w \in Workers, SkipDead(w) PROVE Submitted'
    BY <1>2, SubmittedFrame DEF SkipDead, Shape, TypeOK, Item
  <1>3. ASSUME NEW w \in Workers, NeedsRetry(w) PROVE Submitted'
    BY <1>3, SubmittedFrame DEF NeedsRetry, Break, Shape, TypeOK, Item
  <1>4. ASSUME NEW w \in Workers, Fails(w) PROVE Submitted'
    BY <1>4, SubmittedFrame DEF Fails, Break, Shape, TypeOK, Item
  <1>5. ASSUME NEW w \in Workers, AlreadyCopied(w) PROVE Submitted'
    BY <1>5, SubmittedFrame DEF AlreadyCopied, Shape, TypeOK, Item
  <1>6. ASSUME NEW w \in Workers, ChooseCopy(w) PROVE Submitted'
    <2>1. /\ UNCHANGED <<work, late, copied, mapped>> /\ pc'[w] # "pages"
          /\ \A v \in Workers : v # w => /\ pc'[v] = pc[v] /\ left'[v] = left[v]
                                        /\ ext'[v] = ext[v] /\ blk'[v] = blk[v]
                                        /\ phase'[v] = phase[v]
      BY <1>6 DEF ChooseCopy, Shape, TypeOK
    <2> QED BY <2>1, SubmittedFrame DEF Item
  <1>7. ASSUME NEW w \in Workers, AcquireCopy(w) PROVE Submitted'
    <2>1. /\ pc[w] = "acquire" /\ Append(w, CopyPush(w), 0, Dependencies(w))
          /\ pc' = [pc EXCEPT ![w] = "pages"]
          /\ UNCHANGED <<copied, mapped, left, ext, blk, phase>>
      BY <1>7 DEF AcquireCopy
    <2>2. left[w] = CopyPages /\ CopyPages \in Nat
      BY <2>1, SharedPushAssumption DEF Progress
    <2>3. (\A q \in Pushes : work[q] \subseteq work'[q]) /\ late \subseteq late'
      BY <2>1, BusyItem, CopyPushTypes, Appended DEF Shape
    <2>4. \A v \in Workers : pc'[v] = "pages" /\ left'[v] < CopyPages =>
              pc[v] = "pages" /\ Item(v)' = Item(v) /\ CopyPush(v)' = CopyPush(v)
      BY <2>1, <2>2 DEF Shape, TypeOK, Item, CopyPush
    <2> QED BY <2>1, <2>3, <2>4, SubmittedGrows
  <1>8. ASSUME NEW w \in Workers, FallBack(w) PROVE Submitted'
    BY <1>8, SubmittedFrame DEF FallBack, Shape, TypeOK, Item
  <1>9. ASSUME NEW w \in Workers, CopyPage(w) PROVE Submitted'
    <2>1. /\ pc[w] = "pages" /\ Append(w, CopyPush(w), 1, {})
          /\ left' = [left EXCEPT ![w] = @ - 1]
          /\ UNCHANGED <<copied, mapped, pc, ext, blk, phase>>
      BY <1>9 DEF CopyPage
    <2>2. (\A q \in Pushes : work[q] \subseteq work'[q]) /\ late \subseteq late'
      BY <2>1, BusyItem, CopyPushTypes, Appended DEF Shape
    <2>3. Item(w) \in work'[CopyPush(w)] \/ Item(w) \in late'
      <3>1. TypeOK /\ 1 \in Nat /\ 1 > 0 /\ {} \in SUBSET Pushes
        BY DEF Shape
      <3>2. Append(w, CopyPush(w), 1, {}) /\ Item(w) \in Items /\ CopyPush(w) \in Pushes
        BY <2>1, BusyItem
      <3>3. /\ ends[CopyPush(w)] = 0 => work'[CopyPush(w)] = work[CopyPush(w)] \cup {Item(w)}
            /\ ends[CopyPush(w)] > 0 => late' = late \cup {Item(w)}
        BY ONLY <3>1, <3>2, w \in Workers, Appended
      <3> QED BY <2>1, <3>3, CopyPushTypes
    <2>4. /\ \A v \in Workers : Item(v)' = Item(v) /\ CopyPush(v)' = CopyPush(v)
          /\ \A v \in Workers : v # w => left'[v] = left[v]
      BY <2>1 DEF Shape, TypeOK, Item, CopyPush
    <2>5. \A v \in Workers : pc'[v] = "pages" /\ left'[v] < CopyPages =>
              Item(v)' \in work'[CopyPush(v)'] \/ Item(v)' \in late'
      <3> SUFFICES ASSUME NEW v \in Workers, pc'[v] = "pages", left'[v] < CopyPages
                   PROVE  Item(v) \in work'[CopyPush(v)] \/ Item(v) \in late'
        BY <2>4
      <3>1. CASE v = w
        BY <2>3, <3>1
      <3>2. CASE v # w
        <4>1. /\ Item(v) \in work[CopyPush(v)] \/ Item(v) \in late
              /\ CopyPush(v) \in Pushes
          BY <2>1, <2>4, <3>2, BusyItem DEF Submitted
        <4> QED BY <2>2, <4>1
      <3> QED BY <3>1, <3>2
    <2> QED BY <2>1, <2>2, <2>5, PushNames DEF Submitted, Given, Kinds, Shape, TypeOK
  <1>10. ASSUME NEW w \in Workers, TrackCopy(w) PROVE Submitted'
    <2>1. /\ pc[w] = "pages" /\ left[w] = 0 /\ copied' = copied \cup {Item(w)}
          /\ pc' = [pc EXCEPT ![w] = "copied"]
          /\ UNCHANGED <<work, late, mapped, left, ext, blk, phase>>
      BY <1>10 DEF TrackCopy
    <2>2. Given("copy", Item(w))
      BY <2>1, SharedPushAssumption DEF Submitted, CopyPush, Given
    <2>3. \A v \in Workers : pc'[v] = "pages" =>
              pc[v] = "pages" /\ Item(v)' = Item(v) /\ CopyPush(v)' = CopyPush(v)
      BY <2>1 DEF Shape, TypeOK, Item, CopyPush
    <2>4. \A i \in copied' : Given("copy", i)'
      <3> HIDE DEF Item
      <3> QED BY <2>1, <2>2 DEF Submitted, Given
    <2>5. \A i \in mapped' : Given("map", i)'
      BY <2>1 DEF Submitted, Given
    <2> HIDE DEF Item
    <2> QED BY <2>1, <2>3, <2>4, <2>5 DEF Submitted
  <1>11. ASSUME NEW w \in Workers, CountCopy(w) PROVE Submitted'
    <2>1. /\ UNCHANGED <<work, late, copied, mapped>> /\ pc'[w] # "pages"
          /\ \A v \in Workers : v # w => /\ pc'[v] = pc[v] /\ left'[v] = left[v]
                                        /\ ext'[v] = ext[v] /\ blk'[v] = blk[v]
                                        /\ phase'[v] = phase[v]
      BY <1>11 DEF CountCopy, Shape, TypeOK
    <2> QED BY <2>1, SubmittedFrame DEF Item
  <1>12. ASSUME NEW w \in Workers, ChooseMap(w) PROVE Submitted'
    <2>1. /\ UNCHANGED <<work, late, copied, mapped>> /\ pc'[w] # "pages"
          /\ \A v \in Workers : v # w => /\ pc'[v] = pc[v] /\ left'[v] = left[v]
                                        /\ ext'[v] = ext[v] /\ blk'[v] = blk[v]
                                        /\ phase'[v] = phase[v]
      BY <1>12 DEF ChooseMap, Shape, TypeOK
    <2> QED BY <2>1, SubmittedFrame DEF Item
  <1>13. ASSUME NEW w \in Workers, WriteMap(w) PROVE Submitted'
    <2> DEFINE p == IF ext[w] /\ Fits("map") THEN Shared("map") ELSE Private("map", Item(w))
    <2>1. /\ pc[w] = "write" /\ Append(w, p, MapUnits, Dependencies(w))
          /\ mapped' = mapped \cup {Item(w)} /\ NextPhase(w)
          /\ UNCHANGED <<copied, left, ext, blk>>
      BY <1>13 DEF WriteMap
    <2>2. p \in Pushes /\ ends[p] \in Nat /\ p \in {Shared("map"), Private("map", Item(w))}
      BY <2>1, BusyItem, PushNames DEF Shape, TypeOK
    <2> HIDE DEF p
    <2>3. /\ \A q \in Pushes : q # p => work'[q] = work[q]
          /\ \/ work'[p] = work[p] \cup {Item(w)} /\ late' = late
             \/ work' = work /\ late' = late \cup {Item(w)}
      BY <2>1, <2>2, BusyItem, Appended, SharedPushAssumption DEF Shape
    <2>4. (\A q \in Pushes : work[q] \subseteq work'[q]) /\ late \subseteq late'
      BY <2>3
    <2>5. \A v \in Workers : pc'[v] = "pages" /\ left'[v] < CopyPages =>
              pc[v] = "pages" /\ Item(v)' = Item(v) /\ CopyPush(v)' = CopyPush(v)
      BY <2>1 DEF NextPhase, Break, Shape, TypeOK, Item, CopyPush
    <2>6. \A i \in mapped' : i \in mapped \/ Given("map", i)'
      <3> HIDE DEF Item
      <3> QED BY <2>1, <2>2, <2>3 DEF Given
    <2> HIDE DEF Item
    <2> QED BY <2>1, <2>4, <2>5, <2>6, SubmittedGrows
  <1>14. ASSUME NEW w \in Workers, AlreadyMapped(w) PROVE Submitted'
    BY <1>14, SubmittedFrame DEF AlreadyMapped, NextPhase, Break, Shape, TypeOK, Item
  <1>15. ASSUME NEW w \in Workers, Leave(w) PROVE Submitted'
    <2>1. /\ UNCHANGED <<work, late, copied, mapped>> /\ pc'[w] # "pages"
          /\ \A v \in Workers : v # w => /\ pc'[v] = pc[v] /\ left'[v] = left[v]
                                        /\ ext'[v] = ext[v] /\ blk'[v] = blk[v]
                                        /\ phase'[v] = phase[v]
      BY <1>15 DEF Leave, Shape, TypeOK
    <2> QED BY <2>1, SubmittedFrame DEF Item
  <1>16. ASSUME CloseCopy PROVE Submitted'
    BY <1>16, SubmittedFrame DEF CloseCopy, Shape, TypeOK, Item
  <1>17. ASSUME CloseMap PROVE Submitted'
    BY <1>17, SubmittedFrame DEF CloseMap, Shape, TypeOK, Item
  <1>18. ASSUME PushReplay PROVE Submitted'
    BY <1>18, SubmittedFrame DEF PushReplay, Shape, TypeOK, Item
  <1>19. ASSUME NEW p \in Pushes, Execute(p) PROVE Submitted'
    BY <1>19, SubmittedFrame DEF Execute, Shape, TypeOK, Item
  <1>20. ASSUME DispatchDone PROVE Submitted'
    BY <1>20, SubmittedFrame DEF DispatchDone, Shape, TypeOK, Item
  <1>21. ASSUME TimeOut PROVE Submitted'
    BY <1>21, SubmittedFrame DEF TimeOut, Shape, TypeOK, Item
  <1> QED BY <1>u, <1>1, <1>2, <1>3, <1>4, <1>5, <1>6, <1>7, <1>8, <1>9, <1>10, <1>11, <1>12, <1>13, <1>14, <1>15, <1>16, <1>17, <1>18, <1>19,
             <1>20, <1>21
          DEF Next, Worker, Coordinator

\* A push that is ended waits from then on for what it waits for, and a push comes to
\* wait for pushes that were ended before.
LEMMA WaitingKept ==
    ASSUME Waiting, Ended \subseteq Ended', \A p \in Ended : acquired'[p] = acquired[p],
           \A p \in Pushes : acquired'[p] \subseteq Ended
    PROVE  Waiting'
  <1>1. ASSUME NEW S \in SUBSET Ended', S # {}
        PROVE  \E p \in S : acquired'[p] \cap S = {}
    <2>0. S \subseteq Pushes
      BY DEF Ended
    <2>1. CASE S \cap Ended = {}
      BY <1>1, <2>0, <2>1
    <2>2. CASE S \cap Ended # {}
      <3>1. PICK p \in S \cap Ended : acquired[p] \cap (S \cap Ended) = {}
        BY <2>2 DEF Waiting
      <3>2. acquired'[p] \subseteq Ended /\ acquired'[p] = acquired[p]
        BY <2>0, <3>1
      <3> QED BY <3>1, <3>2
    <2> QED BY <2>1, <2>2
  <1> QED BY <1>1 DEF Waiting

\* No push is opened again, and nothing but ended pushes is acquired.
LEMMA WaitingFrame ==
    ASSUME Shape, Waiting, UNCHANGED acquired, EndsGrow \/ UNCHANGED ends
    PROVE  Waiting'
  <1>1. Ended \subseteq Ended'
    BY DEF Ended, EndsGrow
  <1> QED BY <1>1, WaitingKept DEF Waiting

\* An append adds ended pushes to what an open push waits for.
LEMMA WaitingAppend ==
    ASSUME Shape, Tracked, Waiting, NEW w \in Workers, Item(w) \in Items, NEW p \in Pushes,
           NEW n \in Nat, NEW S \in SUBSET Ended, Append(w, p, n, S), Ended \subseteq Ended'
    PROVE  Waiting'
  <1>1. S \in SUBSET Pushes /\ ends[p] \in Nat /\ TypeOK
    BY DEF Ended, Shape, TypeOK
  <1>2. /\ \A q \in Pushes : q # p => acquired'[q] = acquired[q]
        /\ ends[p] > 0 => acquired' = acquired
        /\ ends[p] = 0 => acquired'[p] = acquired[p] \cup S
    BY <1>1, Appended
  <1>3. \A q \in Pushes : acquired'[q] \subseteq Ended
    BY <1>1, <1>2 DEF Waiting
  <1>4. \A q \in Ended : acquired'[q] = acquired[q]
    BY <1>2 DEF Ended
  <1> QED BY <1>3, <1>4, WaitingKept

\* What a worker acquires was ended.
LEMMA DependenciesEnded ==
    ASSUME Shape, Tracked, NEW w \in Workers, pc[w] # "idle"
    PROVE  Dependencies(w) \in SUBSET Ended
  BY BusyItem DEF Dependencies, Ended, Tracked, PushesTracked

LEMMA WaitingStep ==
    ASSUME Shape, Progress, Closed, Tracked, Waiting, [Next]_vars
    PROVE  Waiting'
  <1>u. CASE UNCHANGED vars
    BY <1>u, WaitingFrame
  <1>1. ASSUME NEW w \in Workers, Claim(w) PROVE Waiting'
    BY <1>1, WaitingFrame DEF Claim
  <1>2. ASSUME NEW w \in Workers, SkipDead(w) PROVE Waiting'
    BY <1>2, WaitingFrame DEF SkipDead
  <1>3. ASSUME NEW w \in Workers, NeedsRetry(w) PROVE Waiting'
    BY <1>3, WaitingFrame DEF NeedsRetry
  <1>4. ASSUME NEW w \in Workers, Fails(w) PROVE Waiting'
    BY <1>4, WaitingFrame DEF Fails
  <1>5. ASSUME NEW w \in Workers, AlreadyCopied(w) PROVE Waiting'
    BY <1>5, WaitingFrame DEF AlreadyCopied
  <1>6. ASSUME NEW w \in Workers, ChooseCopy(w) PROVE Waiting'
    BY <1>6, WaitingFrame DEF ChooseCopy
  <1>7. ASSUME NEW w \in Workers, AcquireCopy(w) PROVE Waiting'
    <2>1. Append(w, CopyPush(w), 0, Dependencies(w)) /\ pc[w] # "idle" /\ ends' = ends
      BY <1>7 DEF AcquireCopy
    <2>2. Ended \subseteq Ended' /\ Dependencies(w) \in SUBSET Ended /\ 0 \in Nat
      BY <2>1, DependenciesEnded DEF Ended
    <2>3. Item(w) \in Items /\ CopyPush(w) \in Pushes
      BY <2>1, BusyItem
    <2> QED BY <2>1, <2>2, <2>3, WaitingAppend
  <1>8. ASSUME NEW w \in Workers, FallBack(w) PROVE Waiting'
    BY <1>8, WaitingFrame DEF FallBack
  <1>9. ASSUME NEW w \in Workers, CopyPage(w) PROVE Waiting'
    <2>1. Append(w, CopyPush(w), 1, {}) /\ pc[w] # "idle" /\ ends' = ends
      BY <1>9 DEF CopyPage
    <2>2. Ended \subseteq Ended' /\ {} \in SUBSET Ended /\ 1 \in Nat
      BY <2>1, DependenciesEnded DEF Ended
    <2>3. Item(w) \in Items /\ CopyPush(w) \in Pushes
      BY <2>1, BusyItem
    <2> QED BY <2>1, <2>2, <2>3, WaitingAppend
  <1>10. ASSUME NEW w \in Workers, TrackCopy(w) PROVE Waiting'
    <2>1. /\ pc[w] # "idle" /\ UNCHANGED acquired
          /\ ends' = IF ext[w] THEN ends ELSE [ends EXCEPT ![CopyPush(w)] = @ + 1]
      BY <1>10 DEF TrackCopy
    <2>2. CopyPush(w) \in Pushes /\ CopyPush(w) # ReplayPush
      BY <2>1, BusyItem, PushNames DEF CopyPush, Kinds
    <2>3. EndsGrow
      BY <2>1, <2>2, PushNames DEF EndsGrow, Shape, TypeOK
    <2> QED BY <2>1, <2>3, WaitingFrame
  <1>11. ASSUME NEW w \in Workers, CountCopy(w) PROVE Waiting'
    BY <1>11, WaitingFrame, CopyDoneGrows DEF CountCopy
  <1>12. ASSUME NEW w \in Workers, ChooseMap(w) PROVE Waiting'
    BY <1>12, WaitingFrame DEF ChooseMap
  <1>13. ASSUME NEW w \in Workers, WriteMap(w) PROVE Waiting'
    <2> DEFINE p == IF ext[w] /\ Fits("map") THEN Shared("map") ELSE Private("map", Item(w))
    <2>1. /\ pc[w] # "idle" /\ Append(w, p, MapUnits, Dependencies(w))
          /\ ends' = IF p = Shared("map") THEN ends ELSE [ends EXCEPT ![p] = @ + 1]
      BY <1>13 DEF WriteMap
    <2>2. p \in Pushes /\ Item(w) \in Items
      BY <2>1, BusyItem, PushNames
    <2> HIDE DEF p
    <2>3. Ended \subseteq Ended'
      BY <2>1, <2>2 DEF Ended, Shape, TypeOK
    <2> QED BY <2>1, <2>2, <2>3, DependenciesEnded, WaitingAppend, SharedPushAssumption
  <1>14. ASSUME NEW w \in Workers, AlreadyMapped(w) PROVE Waiting'
    BY <1>14, WaitingFrame DEF AlreadyMapped
  <1>15. ASSUME NEW w \in Workers, Leave(w) PROVE Waiting'
    BY <1>15, WaitingFrame, CopyDoneGrows DEF Leave
  <1>16. ASSUME CloseCopy PROVE Waiting'
    <2>1. EndsGrow
      BY <1>16, PushNames DEF CloseCopy, EndsGrow, Shape, TypeOK
    <2> QED BY <1>16, <2>1, WaitingFrame DEF CloseCopy
  <1>17. ASSUME CloseMap PROVE Waiting'
    <2>1. EndsGrow
      BY <1>17, PushNames DEF CloseMap, EndsGrow, Shape, TypeOK
    <2> QED BY <1>17, <2>1, WaitingFrame DEF CloseMap
  <1>18. ASSUME PushReplay PROVE Waiting'
    <2>1. ends[ReplayPush] = 0
      BY <1>18 DEF PushReplay, Closed
    <2>2. \A q \in Pushes : q # ReplayPush => acquired'[q] = acquired[q] /\ ends'[q] = ends[q]
      BY <1>18, PushNames DEF PushReplay, Shape, TypeOK
    <2>3. \A q \in acquired'[ReplayPush] : \/ q \in acquired[ReplayPush]
                                            \/ \E b \in Blocks : q \in tracker[b]
      BY <1>18, PushNames DEF PushReplay, Shape, TypeOK
    <2>4. \A b \in Blocks : tracker[b] \subseteq Ended
      BY DEF Ended, Tracked, PushesTracked, Shape, TypeOK
    <2>5. \A q \in Pushes : acquired'[q] \subseteq Ended
      BY <2>2, <2>3, <2>4 DEF Waiting
    <2>6. Ended \subseteq Ended' /\ \A q \in Ended : acquired'[q] = acquired[q]
      BY <2>1, <2>2 DEF Ended
    <2> QED BY <2>5, <2>6, WaitingKept
  <1>19. ASSUME NEW p \in Pushes, Execute(p) PROVE Waiting'
    BY <1>19, WaitingFrame DEF Execute
  <1>20. ASSUME DispatchDone PROVE Waiting'
    BY <1>20, WaitingFrame DEF DispatchDone
  <1>21. ASSUME TimeOut PROVE Waiting'
    BY <1>21, WaitingFrame DEF TimeOut
  <1> QED BY <1>u, <1>1, <1>2, <1>3, <1>4, <1>5, <1>6, <1>7, <1>8, <1>9, <1>10, <1>11, <1>12, <1>13, <1>14, <1>15, <1>16, <1>17, <1>18, <1>19,
             <1>20, <1>21
          DEF Next, Worker, Coordinator

-----------------------------------------------------------------------------
(* The invariant *)

LEMMA SubmittedInit == Init => Submitted
  BY DEF Init, Submitted

LEMMA WaitingInit == Init => Waiting
  BY DEF Init, Waiting, Ended

LEMMA FirstPassInit == Init => FirstPass
  <1> SUFFICES ASSUME Init PROVE Counting
    BY DEF FirstPass
  <1>1. Pending \subseteq Merged /\ IsFiniteSet(Merged)
    BY FS_Subset, SharedPushAssumption DEF Pending, Merged
  <1>2. Cardinality(Pending) <= Cardinality(Merged) /\ Cardinality(Merged) \in Nat
    BY <1>1, FS_Subset, FS_CardinalityType
  <1> QED BY <1>2 DEF Init, Counting

LEMMA FirstPassStep ==
    Shape /\ Progress /\ Closed /\ FirstPass /\ [Next]_vars => FirstPass'
  <1> SUFFICES ASSUME Shape, Progress, Closed, FirstPass, [Next]_vars, again' = {}, ~timedOut'
               PROVE  Counting'
    BY DEF FirstPass
  <1>1. Counting /\ ~timedOut
    BY AgainGrows DEF FirstPass
  <1> QED BY <1>1, CountingStep

\* The seven parts together are an inductive invariant.
THEOREM Invariance == Spec => []IInv
  <1>1. Init => IInv
    BY ShapeInit, ProgressInit, ClosedInit, TrackedInit, SubmittedInit, WaitingInit,
       FirstPassInit DEF IInv
  <1>2. IInv /\ [Next]_vars => IInv'
    BY ShapeStep, ProgressStep, ClosedStep, TrackedStep, SubmittedStep, WaitingStep,
       FirstPassStep DEF IInv
  <1> QED BY <1>1, <1>2, PTL DEF Spec

-----------------------------------------------------------------------------
(* Every push runs *)

\* A GPU that executes what it can execute leaves no push behind that was ended: of those
\* left one would wait for none of the others.
LEMMA PushesRun ==
    ASSUME Waiting,
           \A p \in Pushes : ends[p] > 0 /\ acquired[p] \subseteq executed => p \in executed
    PROVE  \A p \in Pushes : ends[p] > 0 => p \in executed
  <1> DEFINE Stuck == {p \in Ended : p \notin executed}
  <1> SUFFICES ASSUME Stuck # {} PROVE FALSE
    BY DEF Ended
  <1>1. PICK p \in Stuck : acquired[p] \cap Stuck = {}
    BY DEF Waiting
  <1>2. p \in Pushes /\ ends[p] > 0 /\ p \notin executed /\ acquired[p] \subseteq Ended
    BY DEF Ended, Waiting
  <1> QED BY <1>1, <1>2

\* Every copy and every PTE write reaches the GPU, unless it was appended to an ended
\* push, and that happens only after a timeout or a second service of a block that
\* counted.
THEOREM SegmentWorkRuns == Spec => []AllWorkRuns
  <1>1. ASSUME IInv PROVE AllWorkRuns
    <2> USE <1>1 DEF IInv
    <2>1. late # {} => timedOut \/ again # {}
      BY DEF FirstPass, Counting
    <2> SUFFICES ASSUME coord = "done",
                        \A p \in Pushes : ends[p] > 0 /\ acquired[p] \subseteq executed
                                             => p \in executed
                 PROVE  /\ \A i \in copied : Ran("copy", i) \/ i \in late
                        /\ \A i \in mapped : Ran("map", i) \/ i \in late
                        /\ failed \/ ReplayPush \in executed
      BY <2>1 DEF AllWorkRuns
    <2>2. \A p \in Pushes : ends[p] > 0 => p \in executed
      BY PushesRun
    <2>3. copied \subseteq Items /\ mapped \subseteq Items
      BY DEF Shape, TypeOK
    <2>4. ASSUME NEW i \in copied, i \in work[Private("copy", i)]
          PROVE  Private("copy", i) \in executed
      <3>1. Private("copy", i) \in tracker[i[1]] /\ i[1] \in Blocks
        BY <2>3, <2>4, ItemNames DEF Tracked, ItemsTracked
      <3> QED BY <2>2, <2>3, <3>1, PushNames DEF Tracked, PushesTracked, Kinds
    <2>5. ASSUME NEW i \in mapped, i \in work[Private("map", i)]
          PROVE  Private("map", i) \in executed
      <3>1. Private("map", i) \in tracker[i[1]] /\ i[1] \in Blocks
        BY <2>3, <2>5, ItemNames DEF Tracked, ItemsTracked
      <3> QED BY <2>2, <2>3, <3>1, PushNames DEF Tracked, PushesTracked, Kinds
    <2>6. Shared("copy") \in executed /\ Shared("map") \in executed
      BY <2>2, PushNames DEF Closed
    <2>7. failed \/ ReplayPush \in executed
      BY <2>2, PushNames DEF Closed
    <2>8. \A i \in copied : Ran("copy", i) \/ i \in late
      BY <2>3, <2>4, <2>6, PushNames DEF Submitted, Given, Ran, Kinds
    <2>9. \A i \in mapped : Ran("map", i) \/ i \in late
      BY <2>3, <2>5, <2>6, PushNames DEF Submitted, Given, Ran, Kinds
    <2> QED BY <2>7, <2>8, <2>9
  <1> QED BY <1>1, Invariance, PTL

=============================================================================
