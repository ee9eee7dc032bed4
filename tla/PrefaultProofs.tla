--------------------------- MODULE PrefaultProofs ---------------------------
(***************************************************************************)
(* FrontLib, for every array, page size and number of threads and warps:   *)
(* the page arithmetic (every element lies on a counted page, every counted *)
(* page can be touched inside the array, initial counts are not negative), *)
(* then the table's inductive invariant PInv, its proof, and the           *)
(* properties it implies.                                                  *)
(***************************************************************************)
EXTENDS Prefault, FiniteSetTheorems, TLAPS

\* Integer division rounds down.
LEMMA DivBounds ==
    ASSUME NEW a \in Nat, NEW d \in Nat \ {0}
    PROVE  /\ a \div d \in Nat
           /\ d * (a \div d) <= a
           /\ a < d * (a \div d) + d
  BY SMT

\* A remainder is below the divisor and not above the dividend.
LEMMA ModBounds ==
    ASSUME NEW a \in Nat, NEW d \in Nat \ {0}
    PROVE  a % d \in 0 .. d - 1 /\ a % d <= a
  BY SMT

\* Multiplication by a natural number keeps the order.
LEMMA MulMono ==
    ASSUME NEW d \in Nat, NEW a \in Int, NEW b \in Int, a <= b
    PROVE  d * a <= d * b
  BY SMT

\* The addresses are naturals in order: aligned base, base, end.
LEMMA LayoutTypes ==
    /\ AlignedBase \in Nat /\ AlignedBase <= Base /\ Base < AlignedBase + PageSize
    /\ NElems * ElemSize \in Nat \ {0}
    /\ EndAddr \in Nat /\ Base < EndAddr
    /\ PageCount \in Nat
  <1>1. Base % PageSize \in 0 .. PageSize - 1 /\ Base % PageSize <= Base
    BY ArrayAssumption, ModBounds
  <1>2. AlignedBase \in Nat /\ AlignedBase <= Base /\ Base < AlignedBase + PageSize
    BY <1>1, ArrayAssumption DEF AlignedBase
  <1>3. NElems * ElemSize \in Nat \ {0}
    BY ArrayAssumption
  <1>4. EndAddr \in Nat /\ Base < EndAddr
    BY <1>3, ArrayAssumption DEF EndAddr
  <1>5. EndAddr - AlignedBase + PageSize - 1 \in Nat
    BY <1>2, <1>4, ArrayAssumption
  <1>6. PageCount \in Nat
    BY <1>5, DivBounds, ArrayAssumption DEF PageCount
  <1> QED
    BY <1>2, <1>3, <1>4, <1>6

\* page_of never leaves the table of prefault_page_count entries, also when the
\* array begins inside a page and ends inside one.
THEOREM ElementOnCountedPage ==
    ASSUME NEW i \in 0 .. NElems - 1
    PROVE  PageOf(i) \in Pages
  <1> DEFINE a == Base + i * ElemSize - AlignedBase
             b == EndAddr - AlignedBase + PageSize - 1
             q == a \div PageSize
             r == b \div PageSize
  <1>1. i * ElemSize \in Nat /\ i * ElemSize < NElems * ElemSize
    BY ArrayAssumption
  <1>2. a \in Nat /\ b \in Nat /\ a + PageSize <= b
    BY <1>1, LayoutTypes, ArrayAssumption DEF EndAddr
  <1>3. q \in Nat /\ PageSize * q <= a
    BY <1>2, DivBounds, ArrayAssumption
  <1>4. r \in Nat /\ b < PageSize * r + PageSize
    BY <1>2, DivBounds, ArrayAssumption
  <1>5. q < r
    <2>1. SUFFICES ASSUME r <= q PROVE FALSE
      BY <1>3, <1>4
    <2>2. PageSize * r <= PageSize * q
      BY <2>1, <1>3, <1>4, MulMono, ArrayAssumption
    <2> QED
      BY <2>2, <1>2, <1>3, <1>4, ArrayAssumption
  <1> QED
    BY <1>3, <1>4, <1>5 DEF PageOf, Pages, PageCount

\* The guard of pf_touch_page never skips the touch: each counted page holds an
\* address of the array.
THEOREM CountedPageTouchable ==
    ASSUME NEW p \in Pages
    PROVE  TouchAddr(p) < EndAddr
  <1> DEFINE b == EndAddr - AlignedBase + PageSize - 1
             r == b \div PageSize
  <1>1. b \in Nat
    BY LayoutTypes, ArrayAssumption
  <1>2. r \in Nat /\ PageSize * r <= b /\ p \in Nat /\ p + 1 <= r
    BY <1>1, DivBounds, ArrayAssumption DEF Pages, PageCount
  <1>3. PageSize * (p + 1) <= PageSize * r
    BY <1>2, MulMono, ArrayAssumption
  <1>4. PageSize * (p + 1) = p * PageSize + PageSize
    BY <1>2, ArrayAssumption
  <1>5. p * PageSize \in Nat
    BY <1>2, ArrayAssumption
  <1>6. AlignedBase + p * PageSize < EndAddr
    BY <1>2, <1>3, <1>4, <1>5, LayoutTypes, ArrayAssumption
  <1> QED
    BY <1>6, LayoutTypes DEF TouchAddr

\* There are PageCount pages, each in its block, and blocks are finite.
LEMMA BlocksFinite ==
    /\ IsFiniteSet(Pages) /\ Cardinality(Pages) = PageCount
    /\ \A p \in Pages : Blk(p) \in Blks /\ Blk(p) \in Nat /\ p \in PagesOf(Blk(p))
    /\ \A b \in Blks : b \in Nat /\ IsFiniteSet(PagesOf(b)) /\ PagesOf(b) \subseteq Pages
  <1>1. IsFiniteSet(Pages) /\ Cardinality(Pages) = PageCount
    <2>1. 0 \in Int /\ PageCount - 1 \in Int
      BY LayoutTypes
    <2>2. /\ IsFiniteSet(0 .. PageCount - 1)
          /\ Cardinality(0 .. PageCount - 1) = IF 0 > PageCount - 1 THEN 0
                                                ELSE (PageCount - 1) - 0 + 1
      BY <2>1, FS_Interval, Zenon
    <2> QED
      BY <2>2, LayoutTypes DEF Pages
  <1>2. \A p \in Pages : Blk(p) \in Blks /\ Blk(p) \in Nat /\ p \in PagesOf(Blk(p))
    BY DivBounds, ArrayAssumption DEF Blk, Blks, Pages, PagesOf
  <1>3. \A b \in Blks : b \in Nat /\ PagesOf(b) \subseteq Pages
    BY <1>2 DEF Blks, PagesOf
  <1>4. \A b \in Blks : IsFiniteSet(PagesOf(b))
    BY <1>1, <1>3, FS_Subset
  <1> QED
    BY <1>1, <1>2, <1>3, <1>4

\* pf_init_blk_counts: no block has more than PF_BLK_PAGES pages, so the unsigned
\* initial count does not wrap.
THEOREM InitialCountsFit ==
    ASSUME NEW b \in Blks
    PROVE  InitBlkCount(b) \in Nat
  <1> DEFINE lo == BlkPages * b
             I == lo .. lo + BlkPages - 1
  <1>1. b \in Nat /\ lo \in Nat
    BY BlocksFinite, ArrayAssumption
  <1>2. IsFiniteSet(I) /\ Cardinality(I) = BlkPages
    <2>1. /\ IsFiniteSet(I)
          /\ Cardinality(I) = IF lo > lo + BlkPages - 1 THEN 0
                              ELSE lo + BlkPages - 1 - lo + 1
      BY <1>1, FS_Interval, ArrayAssumption
    <2> QED
      BY <2>1, <1>1, ArrayAssumption
  <1>3. PagesOf(b) \subseteq I
    <2> SUFFICES ASSUME NEW p \in PagesOf(b) PROVE p \in I
      OBVIOUS
    <2>1. p \in Nat /\ p \div BlkPages = b
      BY DEF PagesOf, Pages, Blk
    <2>2. BlkPages * (p \div BlkPages) <= p /\ p < BlkPages * (p \div BlkPages) + BlkPages
      BY <2>1, DivBounds, ArrayAssumption
    <2> QED
      BY <2>1, <2>2, <1>1, ArrayAssumption
  <1>4. Cardinality(PagesOf(b)) <= BlkPages /\ Cardinality(PagesOf(b)) \in Nat
    BY <1>2, <1>3, FS_Subset, FS_CardinalityType
  <1> QED
    BY <1>4, ArrayAssumption DEF InitBlkCount

-----------------------------------------------------------------------------
(* The table *)

NoView == {"off", "start", "exited"}
NoPage == NoView \cup {"run"}
Owning == {"touch", "publish_status", "publish_blk", "publish_count"}

IsReady(p) == page_status[p] = "READY"

\* A thread between ensure and its access has a page; without a view there are no
\* hints.
ThreadInv ==
    /\ \A t \in Threads : pc[t] \notin NoPage => page[t] \in Pages
    /\ \A t \in Threads : pc[t] \in NoView =>
           last_page[t] = None /\ last_blk[t] = None /\ checks[t]

\* From its atomicCAS to its atomicAdd on published a winner is alone with its page.
OwnersApart ==
    \A t, u \in Threads :
        t # u /\ pc[t] \in Owning /\ pc[u] \in Owning => page[t] # page[u]

\* The status of a page tells how far its winner is.
StatusInv ==
    /\ \A t \in Threads :
          /\ pc[t] \in {"touch", "publish_status"} => page_status[page[t]] = "PENDING"
          /\ pc[t] \in {"publish_blk", "publish_count"} => IsReady(page[t])
    /\ \A p \in Pages : page_status[p] = "PENDING" =>
          \E t \in Threads : pc[t] \in {"touch", "publish_status"} /\ page[t] = p

\* A page is touched by its winner only, before it is published.
TouchInv ==
    /\ \A p \in Pages : touched[p] \in {0, 1}
    /\ \A p \in Pages : page_status[p] = "UNKNOWN" => touched[p] = 0
    /\ \A p \in Pages : IsReady(p) => touched[p] = 1
    /\ \A t \in Threads : pc[t] = "touch" => touched[page[t]] = 0
    /\ \A t \in Threads : pc[t] = "publish_status" => touched[page[t]] = 1

Basic == TypeOK /\ ThreadInv /\ OwnersApart /\ StatusInv /\ TouchInv

\* The ready pages of block b whose winner has added them to blk_cnt
Counted(b) ==
    {p \in PagesOf(b) : IsReady(p) /\ \A t \in Threads : pc[t] = "publish_blk" => page[t] # p}

\* The ready pages whose winner has added them to published
Announced ==
    {p \in Pages : /\ IsReady(p)
                   /\ \A t \in Threads :
                         pc[t] \in {"publish_blk", "publish_count"} => page[t] # p}

\* The counters lag behind the table by the winners that are about to add to them.
CountInv ==
    /\ \A b \in Blks : blk_cnt[b] = InitBlkCount(b) + Cardinality(Counted(b))
    /\ published = Cardinality(Announced)

\* all_resident is set, or about to be set, exactly when every page was published.
ResidentInv ==
    (published = PageCount) <=>
        (all_resident = 1 \/ \E t \in Threads : pc[t] = "publish_all")

\* What a thread remembers, and where it may go on to, is ready.
HintInv ==
    \A t \in Threads :
        /\ pc[t] = "access" => IsReady(page[t])
        /\ last_page[t] # None => IsReady(last_page[t])
        /\ last_blk[t] # None => \A p \in PagesOf(last_blk[t]) : IsReady(p)
        /\ ~checks[t] => \A p \in Pages : IsReady(p)

PInv == Basic /\ CountInv /\ ResidentInv /\ HintInv
-----------------------------------------------------------------------------
(* Basic is inductive by itself. *)

\* A nonempty array has a page; the unset hint ~0ull is neither a page nor a block.
LEMMA PagesExist == PageCount \in Nat \ {0} /\ None \notin Pages /\ None \notin Blks
  <1>1. 0 \in 0 .. NElems - 1
    BY ArrayAssumption
  <1>2. PageOf(0) \in Pages
    BY <1>1, ElementOnCountedPage
  <1> QED
    BY <1>2, LayoutTypes, BlocksFinite DEF Pages, None

\* prefault_array_init leaves a table without owners and touches.
LEMMA BasicInit == Init => Basic
  <1> SUFFICES ASSUME Init PROVE Basic
    OBVIOUS
  <1>1. TypeOK
    BY InitialCountsFit DEF Init, TypeOK, PC
  <1>2. ThreadInv /\ OwnersApart /\ StatusInv /\ TouchInv
    BY DEF Init, ThreadInv, OwnersApart, StatusInv, TouchInv, IsReady, NoView, NoPage, Owning
  <1> QED
    BY <1>1, <1>2 DEF Basic

\* Ownership of pages: only the atomicCAS takes a page, only its winner touches and
\* publishes it.
LEMMA BasicStep == Basic /\ [Next]_vars => Basic'
  <1> SUFFICES ASSUME Basic, [Next]_vars PROVE Basic'
    OBVIOUS
  <1> USE DEF Basic, ThreadInv, OwnersApart, StatusInv, TouchInv, IsReady, NoView, NoPage,
              Owning, tableVars, viewVars
  <1>1. CASE Launch
    BY <1>1, PagesExist DEF TypeOK, PC, NoKernel, Launch
  <1>2. CASE Reset
    BY <1>2, PagesExist, InitialCountsFit DEF TypeOK, PC, NoKernel, Reset
  <1>3. CASE KernelEnds
    BY <1>3, PagesExist DEF TypeOK, PC, NoKernel, KernelEnds
  <1>4. CASE \E t \in Threads : Step(t)
    <2> PICK t \in Threads : Step(t)
      BY <1>4
    <2>1. CASE BuildView(t)
      <3>1. PICK c \in {TRUE, all_resident = 0} : checks' = [checks EXCEPT ![t] = c]
        BY <2>1 DEF BuildView
      <3>2. c \in BOOLEAN
        BY <3>1, Zenon
      <3> QED BY <2>1, <3>1, <3>2, PagesExist DEF TypeOK, PC, Goto, BuildView
    <2>2. CASE ReadBlk(t)
      BY <2>2, PagesExist, BlocksFinite DEF TypeOK, PC, Goto, ReadBlk, Ensured
    <2>3. CASE ReadStatus(t)
      BY <2>3, PagesExist DEF TypeOK, PC, Goto, ReadStatus, Ensured
    <2>4. CASE Cas(t)
      BY <2>4, PagesExist DEF TypeOK, PC, Goto, Cas
    <2>5. CASE Touch(t)
      BY <2>5, PagesExist, CountedPageTouchable DEF TypeOK, PC, Goto, Touch
    <2>6. CASE PublishStatus(t)
      BY <2>6, PagesExist DEF TypeOK, PC, Goto, PublishStatus
    <2>7. CASE PublishBlk(t)
      BY <2>7, PagesExist, BlocksFinite DEF TypeOK, PC, Goto, PublishBlk
    <2>8. CASE PublishCount(t)
      BY <2>8, PagesExist DEF TypeOK, PC, Goto, PublishCount
    <2>9. CASE PublishAll(t)
      BY <2>9, PagesExist DEF TypeOK, PC, Goto, PublishAll
    <2>10. CASE Spin(t)
      BY <2>10, PagesExist DEF TypeOK, PC, Goto, Spin, Ensured
    <2>11. CASE Access(t)
      BY <2>11, PagesExist DEF TypeOK, PC, Goto, Access
    <2>12. CASE Exit(t)
      BY <2>12, PagesExist DEF TypeOK, PC, Goto, Exit
    <2>13. CASE \E i \in 0 .. NElems - 1 : Hit(t, i)
      BY <2>13, PagesExist, ElementOnCountedPage DEF TypeOK, PC, Goto, Hit, Ensured
    <2>14. CASE \E i \in 0 .. NElems - 1 : Miss(t, i)
      BY <2>14, PagesExist, ElementOnCountedPage DEF TypeOK, PC, Goto, Miss
    <2>15. CASE Elected(t)
      BY <2>15, PagesExist DEF TypeOK, PC, Elected, Elect
    <2> QED
      BY <2>1, <2>2, <2>3, <2>4, <2>5, <2>6, <2>7, <2>8, <2>9, <2>10, <2>11, <2>12, <2>13, <2>14, <2>15 DEF Step
  <1>5. CASE UNCHANGED vars
    BY <1>5 DEF TypeOK, vars
  <1> QED
    BY <1>1, <1>2, <1>3, <1>4, <1>5 DEF Next
-----------------------------------------------------------------------------
(* What the counters say about the table. *)

\* The counted and the announced pages are finite sets of pages.
LEMMA CountedTypes ==
    /\ \A b \in Blks : Counted(b) \subseteq PagesOf(b) /\ IsFiniteSet(Counted(b))
                       /\ Cardinality(Counted(b)) \in Nat
    /\ Announced \subseteq Pages /\ IsFiniteSet(Announced) /\ Cardinality(Announced) \in Nat
  <1>1. /\ \A b \in Blks : Counted(b) \subseteq PagesOf(b)
        /\ Announced \subseteq Pages
    BY DEF Counted, Announced
  <1>2. \A b \in Blks : IsFiniteSet(Counted(b))
    BY <1>1, BlocksFinite, FS_Subset
  <1>3. IsFiniteSet(Announced)
    BY <1>1, BlocksFinite, FS_Subset
  <1> QED
    BY <1>1, <1>2, <1>3, FS_CardinalityType

\* A full block counter (pf_blk_full) means that every page of the block is ready.
LEMMA FullBlockReady ==
    ASSUME CountInv, NEW b \in Blks, blk_cnt[b] >= BlkPages
    PROVE  \A p \in PagesOf(b) : IsReady(p)
  <1>1. /\ IsFiniteSet(PagesOf(b)) /\ Counted(b) \in SUBSET PagesOf(b)
        /\ Cardinality(PagesOf(b)) \in Nat /\ Cardinality(Counted(b)) \in Nat
    BY BlocksFinite, CountedTypes, FS_CardinalityType
  <1>2. Cardinality(Counted(b)) >= Cardinality(PagesOf(b))
    BY <1>1, ArrayAssumption DEF CountInv, InitBlkCount
  <1>3. Cardinality(Counted(b)) <= Cardinality(PagesOf(b))
    BY <1>1, FS_Subset
  <1>4. Counted(b) = PagesOf(b)
    <2>1. Cardinality(PagesOf(b)) = Cardinality(Counted(b))
      BY <1>1, <1>2, <1>3
    <2> QED
      BY <2>1, <1>1, FS_Subset
  <1> QED
    BY <1>4 DEF Counted

\* published = n_pages means that every page is ready and announced.
LEMMA AllAnnounced ==
    ASSUME CountInv, published = PageCount
    PROVE  Announced = Pages
  BY BlocksFinite, CountedTypes, FS_Subset DEF CountInv

\* A step that leaves the counters, the ready pages and the publishing winners alone
SameWinners ==
    /\ UNCHANGED <<blk_cnt, published, all_resident>>
    /\ \A p \in Pages : IsReady(p)' <=> IsReady(p)
    /\ \A u \in Threads :
          /\ pc'[u] = "publish_blk" <=> pc[u] = "publish_blk"
          /\ pc'[u] = "publish_count" <=> pc[u] = "publish_count"
          /\ pc'[u] = "publish_all" <=> pc[u] = "publish_all"
          /\ pc[u] \in {"publish_blk", "publish_count"} => page'[u] = page[u]

\* Steps that publish nothing keep the counters in step with the table.
LEMMA SameWinnersKeepCounts ==
    ASSUME CountInv, ResidentInv, SameWinners
    PROVE  CountInv' /\ ResidentInv'
  <1>1. \A b \in Blks : Counted(b)' = Counted(b)
    BY DEF SameWinners, Counted, PagesOf
  <1>2. Announced' = Announced
    BY DEF SameWinners, Announced
  <1>3. CountInv'
    BY <1>1, <1>2 DEF CountInv, SameWinners
  <1>4. ResidentInv'
    BY DEF ResidentInv, SameWinners
  <1> QED
    BY <1>3, <1>4

\* pf_init_blk_counts: nothing is counted, and the flag is clear.
LEMMA CountInit == Init => CountInv /\ ResidentInv
  <1> SUFFICES ASSUME Init PROVE CountInv /\ ResidentInv
    OBVIOUS
  <1>1. Announced = {} /\ \A b \in Blks : Counted(b) = {}
    BY DEF Init, Announced, Counted, PagesOf, IsReady
  <1>2. CountInv
    <2>1. Cardinality({}) = 0
      BY FS_EmptySet
    <2>2. Cardinality(Announced) = 0 /\ \A b \in Blks : Cardinality(Counted(b)) = 0
      BY <1>1, <2>1
    <2> QED
      BY <2>2, InitialCountsFit DEF Init, CountInv
  <1>3. ResidentInv
    BY PagesExist DEF Init, ResidentInv
  <1> QED
    BY <1>2, <1>3

\* pf_publish_page: each atomicAdd catches up with the status by one page, and only the
\* last one leads to all_resident.
LEMMA CountStep == Basic /\ CountInv /\ ResidentInv /\ [Next]_vars => CountInv' /\ ResidentInv'
  <1> SUFFICES ASSUME Basic, CountInv, ResidentInv, [Next]_vars
               PROVE  CountInv' /\ ResidentInv'
    OBVIOUS
  <1>t. TypeOK /\ ThreadInv /\ OwnersApart /\ StatusInv
    BY DEF Basic
  <1>1. CASE Launch \/ KernelEnds \/ UNCHANGED vars
    <2>1. SameWinners
      BY <1>1, <1>t DEF SameWinners, TypeOK, Launch, KernelEnds, NoKernel, vars, tableVars, viewVars,
                        IsReady
    <2> QED
      BY <2>1, SameWinnersKeepCounts
  <1>2. CASE Reset
    <2>1. Announced' = {} /\ \A b \in Blks : Counted(b)' = {}
      BY <1>2 DEF Reset, Announced, Counted, PagesOf, IsReady
    <2>2. CountInv'
      <3>1. Cardinality({}) = 0
        BY FS_EmptySet
      <3>2. Cardinality(Announced)' = 0 /\ \A b \in Blks : Cardinality(Counted(b))' = 0
        BY <2>1, <3>1
      <3> QED
        BY <3>2, <1>2, InitialCountsFit DEF Reset, CountInv
    <2>3. ResidentInv'
      BY <1>2, PagesExist DEF Reset, ResidentInv, NoKernel
    <2> QED
      BY <2>2, <2>3
  <1>3. CASE \E t \in Threads : Step(t)
    <2> PICK t \in Threads : Step(t)
      BY <1>3
    <2>1. CASE BuildView(t) \/ ReadBlk(t) \/ ReadStatus(t) \/ Cas(t) \/ Touch(t) \/ Spin(t)
               \/ Access(t) \/ Exit(t)
      <3>1. SameWinners
        BY <2>1, <1>t DEF SameWinners, TypeOK, BuildView, ReadBlk, ReadStatus, Cas, Touch,
                          Spin, Access, Exit, Goto, tableVars, viewVars, IsReady, ThreadInv, NoPage,
                          NoView
      <3> QED
        BY <3>1, SameWinnersKeepCounts
    <2>2. CASE \E i \in 0 .. NElems - 1 : Hit(t, i) \/ Miss(t, i)
      <3>1. SameWinners
        BY <2>2, <1>t DEF SameWinners, TypeOK, Hit, Miss, Goto, tableVars, viewVars, IsReady
      <3> QED
        BY <3>1, SameWinnersKeepCounts
    <2>3. CASE Elected(t)
      <3>1. SameWinners
        BY <2>3, <1>t DEF SameWinners, TypeOK, Elected, Elect, tableVars, viewVars, IsReady
      <3> QED
        BY <3>1, SameWinnersKeepCounts
    <2>4. CASE PublishStatus(t)
      <3>p. page[t] \in Pages /\ ~IsReady(page[t])
        BY <2>4, <1>t DEF PublishStatus, Goto, ThreadInv, NoPage, NoView, StatusInv, IsReady
      <3>1. \A p \in Pages : IsReady(p)' <=> IsReady(p) \/ p = page[t]
        BY <2>4, <3>p, <1>t DEF PublishStatus, IsReady, TypeOK
      <3>2. \A u \in Threads : pc'[u] = IF u = t THEN "publish_blk" ELSE pc[u]
        BY <2>4, <1>t DEF PublishStatus, Goto, TypeOK
      <3>3. pc[t] = "publish_status" /\ page' = page
        BY <2>4 DEF PublishStatus, Goto
      <3>4. \A b \in Blks : Counted(b)' = Counted(b)
        BY <3>p, <3>1, <3>2, <3>3 DEF Counted, PagesOf
      <3>5. Announced' = Announced
        BY <3>p, <3>1, <3>2, <3>3 DEF Announced
      <3> QED
        BY <3>2, <3>3, <3>4, <3>5, <2>4 DEF CountInv, ResidentInv, PublishStatus
    <2>5. CASE PublishBlk(t)
      <3>p. /\ page[t] \in Pages /\ IsReady(page[t])
            /\ pc[t] = "publish_blk" /\ page' = page /\ page_status' = page_status
        BY <2>5, <1>t DEF PublishBlk, Goto, ThreadInv, NoPage, NoView, StatusInv
      <3>1. \A u \in Threads : pc'[u] = IF u = t THEN "publish_count" ELSE pc[u]
        BY <2>5, <1>t DEF PublishBlk, Goto, TypeOK
      <3>2. \A u \in Threads \ {t} : pc[u] \in {"publish_blk", "publish_count"} => page[u] # page[t]
        BY <3>p, <1>t DEF OwnersApart, Owning
      <3>3. \A b \in Blks : b # Blk(page[t]) => Counted(b)' = Counted(b)
        BY <3>p, <3>1 DEF Counted, PagesOf, IsReady
      <3>4. Counted(Blk(page[t]))' = Counted(Blk(page[t])) \cup {page[t]}
        BY <3>p, <3>1, <3>2, BlocksFinite DEF Counted, PagesOf, IsReady
      <3>5. page[t] \notin Counted(Blk(page[t]))
        BY <3>p DEF Counted
      <3>6. Announced' = Announced
        BY <3>p, <3>1 DEF Announced, IsReady
      <3>7. Blk(page[t]) \in Blks
        BY <3>p, BlocksFinite
      <3>8. Cardinality(Counted(Blk(page[t])))' = Cardinality(Counted(Blk(page[t]))) + 1
        <4>1. IsFiniteSet(Counted(Blk(page[t])))
          BY <3>7, CountedTypes
        <4>2. Cardinality(Counted(Blk(page[t])) \cup {page[t]}) = Cardinality(Counted(Blk(page[t]))) + 1
          BY <4>1, <3>5, FS_AddElement
        <4>3. page'[t] = page[t]
          BY <3>p
        <4> QED
          BY <4>2, <4>3, <3>4
      <3>9. CountInv'
        BY <2>5, <3>p, <3>3, <3>6, <3>7, <3>8, <1>t, InitialCountsFit, CountedTypes
        DEF CountInv, PublishBlk, TypeOK
      <3>10. ResidentInv'
        BY <2>5, <3>p, <3>1 DEF ResidentInv, PublishBlk
      <3> QED
        BY <3>9, <3>10
    <2>6. CASE PublishCount(t)
      <3>p. /\ page[t] \in Pages /\ IsReady(page[t]) /\ pc[t] = "publish_count" /\ page' = page
            /\ page_status' = page_status /\ blk_cnt' = blk_cnt /\ all_resident' = all_resident
            /\ published' = published + 1
        BY <2>6, <1>t DEF PublishCount, Goto, ThreadInv, NoPage, NoView, StatusInv
      <3>1. \A u \in Threads : pc'[u] = IF u # t THEN pc[u]
                                       ELSE IF published + 1 = PageCount THEN "publish_all" ELSE "spin"
        BY <2>6, <1>t DEF PublishCount, Goto, TypeOK
      <3>2. \A u \in Threads \ {t} : pc[u] \in {"publish_blk", "publish_count"} => page[u] # page[t]
        BY <3>p, <1>t DEF OwnersApart, Owning
      <3>3. \A b \in Blks : Counted(b)' = Counted(b)
        BY <3>p, <3>1 DEF Counted, PagesOf, IsReady
      <3>4. Announced' = Announced \cup {page[t]}
        BY <3>p, <3>1, <3>2 DEF Announced, IsReady
      <3>5. page[t] \notin Announced
        BY <3>p DEF Announced
      <3>6. CountInv'
        <4>1. Cardinality(Announced)' = Cardinality(Announced) + 1
          BY <3>4, <3>5, CountedTypes, FS_AddElement
        <4> QED
          BY <4>1, <3>p, <3>3 DEF CountInv
      <3>7. published # PageCount
        BY <3>5, <3>p, AllAnnounced
      <3>8. ResidentInv'
        BY <3>1, <3>7, <3>p, <1>t, LayoutTypes DEF ResidentInv, TypeOK
      <3> QED
        BY <3>6, <3>8
    <2>7. CASE PublishAll(t)
      <3>1. /\ \A u \in Threads : pc'[u] = IF u = t THEN "spin" ELSE pc[u]
            /\ pc[t] = "publish_all" /\ page' = page /\ page_status' = page_status
            /\ blk_cnt' = blk_cnt /\ all_resident' = 1 /\ published' = published
        BY <2>7, <1>t DEF PublishAll, Goto, TypeOK
      <3>2. (\A b \in Blks : Counted(b)' = Counted(b)) /\ Announced' = Announced
        BY <3>1 DEF Counted, Announced, PagesOf, IsReady
      <3> QED
        BY <3>1, <3>2 DEF CountInv, ResidentInv
    <2> QED
      BY <2>1, <2>2, <2>3, <2>4, <2>5, <2>6, <2>7 DEF Step
  <1> QED
    BY <1>1, <1>2, <1>3 DEF Next
-----------------------------------------------------------------------------
(* The hints, and the theorems. *)

\* last_page, last_blk and checks are set only on what stays ready until the reset.
LEMMA HintStep == Basic /\ CountInv /\ ResidentInv /\ HintInv /\ [Next]_vars => HintInv'
  <1> SUFFICES ASSUME Basic, CountInv, ResidentInv, HintInv, [Next]_vars PROVE HintInv'
    OBVIOUS
  <1>t. TypeOK /\ ThreadInv
    BY DEF Basic
  <1>1. CASE Launch \/ KernelEnds \/ UNCHANGED vars
    BY <1>1, <1>t DEF Launch, KernelEnds, vars, tableVars, viewVars, HintInv, IsReady, TypeOK
  <1>2. CASE Reset
    BY <1>2, <1>t DEF Reset, NoKernel, viewVars, HintInv, ThreadInv, NoView
  <1>3. CASE \E t \in Threads : Step(t)
    <2> PICK t \in Threads : Step(t)
      BY <1>3
    <2> USE <1>t DEF HintInv, IsReady, TypeOK, Goto, Ensured, tableVars, viewVars, ThreadInv,
                     NoPage, NoView
    <2>1. CASE BuildView(t)
      <3>1. all_resident # 0 => \A p \in Pages : IsReady(p)
        BY AllAnnounced DEF ResidentInv, Announced
      <3> QED
        BY <2>1, <3>1 DEF BuildView
    <2>2. CASE ReadBlk(t)
      <3>1. page[t] \in Pages /\ Blk(page[t]) \in Blks /\ page[t] \in PagesOf(Blk(page[t]))
        BY <2>2, BlocksFinite DEF ReadBlk
      <3>2. blk_cnt[Blk(page[t])] >= BlkPages => \A p \in PagesOf(Blk(page[t])) : IsReady(p)
        BY <3>1, FullBlockReady
      <3> QED
        BY <2>2, <3>1, <3>2 DEF ReadBlk
    <2>3. CASE ReadStatus(t)
      BY <2>3 DEF ReadStatus
    <2>4. CASE Cas(t)
      BY <2>4 DEF Cas, PagesOf
    <2>5. CASE Touch(t) \/ PublishBlk(t) \/ PublishCount(t) \/ PublishAll(t)
      BY <2>5 DEF Touch, PublishBlk, PublishCount, PublishAll
    <2>6. CASE PublishStatus(t)
      BY <2>6 DEF PublishStatus, PagesOf
    <2>7. CASE Spin(t)
      BY <2>7 DEF Spin
    <2>8. CASE Access(t) \/ Exit(t)
      BY <2>8 DEF Access, Exit
    <2>9. CASE \E i \in 0 .. NElems - 1 : Hit(t, i)
      BY <2>9, ElementOnCountedPage, BlocksFinite, PagesExist DEF Hit
    <2>10. CASE \E i \in 0 .. NElems - 1 : Miss(t, i)
      BY <2>10 DEF Miss
    <2>11. CASE Elected(t)
      BY <2>11 DEF Elected, Elect
    <2> QED
      BY <2>1, <2>2, <2>3, <2>4, <2>5, <2>6, <2>7, <2>8, <2>9, <2>10, <2>11 DEF Step
  <1> QED
    BY <1>1, <1>2, <1>3 DEF Next

\* PInv holds in every state.
LEMMA PInvInvariant == Spec => []PInv
  <1>1. Init => PInv
    <2>1. Init => HintInv
      BY DEF Init, HintInv
    <2> QED
      BY <2>1, BasicInit, CountInit DEF PInv
  <1>2. PInv /\ [Next]_vars => PInv'
    BY BasicStep, CountStep, HintStep DEF PInv
  <1> QED
    BY <1>1, <1>2, PTL DEF Spec

\* The table, the views and the pages of all accesses keep their types; page_of never
\* leaves the status table.
THEOREM TableTypes == Spec => []TypeOK
  <1>1. PInv => TypeOK
    BY DEF PInv, Basic
  <1> QED
    BY <1>1, PInvInvariant, PTL

\* One atomicCAS winner per page touches it, for any number of warps and launches.
THEOREM OneTouchPerPage == Spec => []TouchedOnce
  <1>1. PInv => TouchedOnce
    BY DEF PInv, Basic, TouchInv, TouchedOnce
  <1> QED
    BY <1>1, PInvInvariant, PTL

\* Every way through ensure, the hints and the skipped check included, leads to a page
\* that was touched before.
THEOREM AccessAfterTouch == Spec => []AccessTouched
  <1>1. PInv => AccessTouched
    BY DEF PInv, Basic, ThreadInv, TouchInv, HintInv, AccessTouched, NoPage, NoView
  <1> QED
    BY <1>1, PInvInvariant, PTL

\* When no kernel runs, the block counters and all_resident agree with the table.
THEOREM CountersAgree == Spec => []CountersExact
  <1>1. ASSUME PInv, NoKernel
        PROVE  /\ \A p \in Pages : page_status[p] # "PENDING"
               /\ \A b \in Blks : blk_cnt[b] >= BlkPages <=> Ready(PagesOf(b)) = PagesOf(b)
               /\ all_resident = 1 <=> Ready(Pages) = Pages
    <2>1. \A p \in Pages : page_status[p] # "PENDING"
      BY <1>1 DEF PInv, Basic, StatusInv, NoKernel
    <2>2. (\A b \in Blks : Counted(b) = Ready(PagesOf(b))) /\ Announced = Ready(Pages)
      BY <1>1 DEF NoKernel, Counted, Announced, Ready, IsReady
    <2>3. ASSUME NEW b \in Blks
          PROVE  blk_cnt[b] >= BlkPages <=> Ready(PagesOf(b)) = PagesOf(b)
      <3>1. blk_cnt[b] >= BlkPages => Ready(PagesOf(b)) = PagesOf(b)
        BY <1>1, FullBlockReady DEF PInv, Ready, IsReady
      <3>2. Cardinality(PagesOf(b)) \in Nat
        BY BlocksFinite, FS_CardinalityType
      <3>3. Ready(PagesOf(b)) = PagesOf(b) => blk_cnt[b] >= BlkPages
        BY <1>1, <2>2, <3>2, ArrayAssumption DEF PInv, CountInv, InitBlkCount
      <3> QED
        BY <3>1, <3>3
    <2>4. all_resident = 1 <=> published = PageCount
      BY <1>1 DEF PInv, ResidentInv, NoKernel
    <2>5. published = PageCount <=> Ready(Pages) = Pages
      BY <1>1, <2>2, AllAnnounced, BlocksFinite DEF PInv, CountInv
    <2> QED
      BY <2>1, <2>3, <2>4, <2>5
  <1>2. PInv => CountersExact
    BY <1>1 DEF CountersExact
  <1> QED
    BY <1>2, PInvInvariant, PTL
=============================================================================
