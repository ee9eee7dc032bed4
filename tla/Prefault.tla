------------------------------ MODULE Prefault ------------------------------
(***************************************************************************)
(* FaultMesh-FrontLib (frontend_prefault_common.cuh): GPU threads check a     *)
(* status table before they access a managed array, so that one thread per    *)
(* page takes the page fault while the others wait for it.  Every access to    *)
(* the table, to the per-block counters, to published and to all_resident is   *)
(* a step of its own.                                                         *)
(*                                                                         *)
(* Between two launches the host may reset the table (the kernels and the      *)
(* memsets of prefault_array_reset share a stream).                            *)
(***************************************************************************)
EXTENDS Integers, FiniteSets

CONSTANTS
    Threads,    \* the threads of a kernel
    Warps,      \* the warps, as sets of threads
    Base,       \* address of the array
    NElems,     \* its length ...
    ElemSize,   \* ... and the size of an element
    PageSize,   \* 1 << page_shift
    BlkPages    \* PF_BLK_PAGES, pages of a 2 MiB block

ASSUME ArrayAssumption ==
    /\ IsFiniteSet(Threads)
    /\ \A t \in Threads : \E w \in Warps : t \in w
    /\ Base \in Nat /\ NElems \in Nat \ {0} /\ ElemSize \in Nat \ {0}
    /\ PageSize \in Nat \ {0} /\ BlkPages \in Nat \ {0}
-----------------------------------------------------------------------------
(* The layout of the array. *)

AlignedBase == Base - (Base % PageSize)
EndAddr == Base + NElems * ElemSize

\* mutant: the last, partial page is not counted
PageCountDown == (EndAddr - AlignedBase) \div PageSize

\* prefault_page_count
PageCount == (EndAddr - AlignedBase + PageSize - 1) \div PageSize

Pages == 0 .. PageCount - 1
Blk(p) == p \div BlkPages
Blks == {Blk(p) : p \in Pages}
PagesOf(b) == {p \in Pages : Blk(p) = b}

\* page_of: the page of (the first byte of) element i
PageOf(i) == (Base + i * ElemSize - AlignedBase) \div PageSize

\* The address pf_touch_page reads for page p
TouchAddr(p) ==
    LET page_base == AlignedBase + p * PageSize
    IN  IF page_base < Base THEN Base ELSE page_base

\* mutant: off by one, the count starts one too high
HighBlkCount(b) == BlkPages - Cardinality(PagesOf(b)) + 1

\* pf_init_blk_counts: the pages a partial block lacks count as present
InitBlkCount(b) == BlkPages - Cardinality(PagesOf(b))
-----------------------------------------------------------------------------
VARIABLES
    page_status, blk_cnt, published, all_resident,  \* in device memory
    pc,
    page,                       \* the page_id of the access under way
    last_page, last_blk, checks, \* the thread's view
    touched                     \* history: touches of each page since the reset

tableVars == <<page_status, blk_cnt, published, all_resident>>
viewVars == <<last_page, last_blk, checks>>
vars == <<tableVars, pc, page, viewVars, touched>>

None == -1  \* ~0ull

PC == {"off", "start", "run", "read_blk", "read_status", "direct", "cas", "touch",
       "publish_status", "publish_blk", "publish_count", "publish_all", "spin",
       "access", "exited"}

\* prefault_array_init; no kernel runs
Init ==
    /\ page_status = [p \in Pages |-> "UNKNOWN"]
    /\ blk_cnt = [b \in Blks |-> InitBlkCount(b)]
    /\ published = 0 /\ all_resident = 0
    /\ pc = [t \in Threads |-> "off"]
    /\ page = [t \in Threads |-> None]
    /\ last_page = [t \in Threads |-> None] /\ last_blk = [t \in Threads |-> None]
    /\ checks = [t \in Threads |-> TRUE]
    /\ touched = [p \in Pages |-> 0]

NoKernel == \A t \in Threads : pc[t] = "off"

Launch ==
    /\ NoKernel
    /\ pc' = [t \in Threads |-> "start"]
    /\ UNCHANGED <<tableVars, page, viewVars, touched>>

\* mutant: the counters are not reset with the table
ResetTableOnly ==
    /\ NoKernel
    /\ page_status' = [p \in Pages |-> "UNKNOWN"]
    /\ touched' = [p \in Pages |-> 0]
    /\ UNCHANGED <<blk_cnt, published, all_resident, pc, page, viewVars>>

\* prefault_array_reset
Reset ==
    /\ NoKernel
    /\ page_status' = [p \in Pages |-> "UNKNOWN"]
    /\ blk_cnt' = [b \in Blks |-> InitBlkCount(b)]
    /\ published' = 0 /\ all_resident' = 0
    /\ touched' = [p \in Pages |-> 0]
    /\ UNCHANGED <<pc, page, viewVars>>

Goto(t, from, to) == pc[t] = from /\ pc' = [pc EXCEPT ![t] = to]

\* The constructor of uvm_prefault_array_dedup_t; the hints are unset.  Only a view
\* built on the device reads all_resident, one built on the host keeps checks = 1.
BuildView(t) ==
    /\ Goto(t, "start", "run")
    /\ \E c \in {TRUE, all_resident = 0} : checks' = [checks EXCEPT ![t] = c]
    /\ UNCHANGED <<tableVars, page, last_page, last_blk, touched>>

Ensured(t, p) == last_page' = [last_page EXCEPT ![t] = p]

\* load or store of element i: ensure returns at once on a hint
Hit(t, i) ==
    /\ Goto(t, "run", "access")
    /\ page' = [page EXCEPT ![t] = PageOf(i)]
    /\ \/ ~checks[t] /\ UNCHANGED last_page
       \/ /\ checks[t]
          /\ PageOf(i) = last_page[t] \/ Blk(PageOf(i)) = last_blk[t]
          /\ Ensured(t, PageOf(i))
    /\ UNCHANGED <<tableVars, last_blk, checks, touched>>

Miss(t, i) ==
    /\ Goto(t, "run", "read_blk")
    /\ checks[t] /\ PageOf(i) # last_page[t] /\ Blk(PageOf(i)) # last_blk[t]
    /\ page' = [page EXCEPT ![t] = PageOf(i)]
    /\ UNCHANGED <<tableVars, viewVars, touched>>

\* pf_blk_full
ReadBlk(t) ==
    /\ pc[t] = "read_blk"
    /\ IF blk_cnt[Blk(page[t])] >= BlkPages
       THEN /\ Goto(t, "read_blk", "access")
            /\ last_blk' = [last_blk EXCEPT ![t] = Blk(page[t])]
            /\ Ensured(t, page[t])
       ELSE Goto(t, "read_blk", "read_status") /\ UNCHANGED <<last_page, last_blk>>
    /\ UNCHANGED <<tableVars, page, checks, touched>>

ReadStatus(t) ==
    /\ pc[t] = "read_status"
    /\ IF page_status[page[t]] = "READY"
       THEN Goto(t, "read_status", "access") /\ Ensured(t, page[t])
       ELSE Goto(t, "read_status", "direct") /\ UNCHANGED last_page
    /\ UNCHANGED <<tableVars, page, last_blk, checks, touched>>

\* pf_direct_touch: the converged lanes of a warp that want the same page elect a
\* master; which lanes have converged is up to the hardware.
Elect(lanes, master) ==
    /\ master \in lanes
    /\ \E w \in Warps : lanes \subseteq w
    /\ \A t \in lanes : pc[t] = "direct" /\ page[t] = page[master]
    /\ pc' = [t \in Threads |-> IF t = master THEN "cas"
                                ELSE IF t \in lanes THEN "spin" ELSE pc[t]]
    /\ UNCHANGED <<tableVars, page, viewVars, touched>>

\* mutant: every master that finds the page not ready touches it
CasNotReady(t) ==
    /\ pc[t] = "cas"
    /\ IF page_status[page[t]] # "READY"
       THEN /\ Goto(t, "cas", "touch")
            /\ page_status' = [page_status EXCEPT ![page[t]] = "PENDING"]
       ELSE Goto(t, "cas", "spin") /\ UNCHANGED page_status
    /\ UNCHANGED <<blk_cnt, published, all_resident, page, viewVars, touched>>

\* atomicCAS(&page_status[page_id], PF_UNKNOWN, PF_PENDING)
Cas(t) ==
    /\ pc[t] = "cas"
    /\ IF page_status[page[t]] = "UNKNOWN"
       THEN /\ Goto(t, "cas", "touch")
            /\ page_status' = [page_status EXCEPT ![page[t]] = "PENDING"]
       ELSE Goto(t, "cas", "spin") /\ UNCHANGED page_status
    /\ UNCHANGED <<blk_cnt, published, all_resident, page, viewVars, touched>>

\* pf_touch_page: the read takes the page fault.  cas_wins counts the winners.
Touch(t) ==
    /\ Goto(t, "touch", "publish_status")
    /\ touched' = IF TouchAddr(page[t]) < EndAddr
                  THEN [touched EXCEPT ![page[t]] = @ + 1] ELSE touched
    /\ UNCHANGED <<tableVars, page, viewVars>>

\* mutant: the status stays PENDING
PublishStatusLost(t) ==
    /\ Goto(t, "publish_status", "publish_blk")
    /\ UNCHANGED <<tableVars, page, viewVars, touched>>

\* pf_publish_page, one store at a time
PublishStatus(t) ==
    /\ Goto(t, "publish_status", "publish_blk")
    /\ page_status' = [page_status EXCEPT ![page[t]] = "READY"]
    /\ UNCHANGED <<blk_cnt, published, all_resident, page, viewVars, touched>>

PublishBlk(t) ==
    /\ Goto(t, "publish_blk", "publish_count")
    /\ blk_cnt' = [blk_cnt EXCEPT ![Blk(page[t])] = @ + 1]
    /\ UNCHANGED <<page_status, published, all_resident, page, viewVars, touched>>

PublishCount(t) ==
    /\ published' = published + 1
    /\ Goto(t, "publish_count", IF published + 1 = PageCount THEN "publish_all" ELSE "spin")
    /\ UNCHANGED <<page_status, blk_cnt, all_resident, page, viewVars, touched>>

PublishAll(t) ==
    /\ Goto(t, "publish_all", "spin")
    /\ all_resident' = 1
    /\ UNCHANGED <<page_status, blk_cnt, published, page, viewVars, touched>>

\* while (pf_ld_status(page_status, page_id) != PF_READY)
Spin(t) ==
    /\ Goto(t, "spin", "access")
    /\ page_status[page[t]] = "READY"
    /\ Ensured(t, page[t])
    /\ UNCHANGED <<tableVars, page, last_blk, checks, touched>>

\* ptr[i]
Access(t) ==
    /\ Goto(t, "access", "run")
    /\ page' = [page EXCEPT ![t] = None]
    /\ UNCHANGED <<tableVars, viewVars, touched>>

\* The thread is done and its view is gone
Exit(t) ==
    /\ Goto(t, "run", "exited")
    /\ last_page' = [last_page EXCEPT ![t] = None]
    /\ last_blk' = [last_blk EXCEPT ![t] = None]
    /\ checks' = [checks EXCEPT ![t] = TRUE]
    /\ UNCHANGED <<tableVars, page, touched>>

KernelEnds ==
    /\ \A t \in Threads : pc[t] = "exited"
    /\ pc' = [t \in Threads |-> "off"]
    /\ UNCHANGED <<tableVars, page, viewVars, touched>>

Elected(t) == \E lanes \in SUBSET Threads : t \in lanes /\ \E m \in lanes : Elect(lanes, m)

Step(t) ==
    \/ BuildView(t)
    \/ \E i \in 0 .. NElems - 1 : Hit(t, i) \/ Miss(t, i)
    \/ ReadBlk(t) \/ ReadStatus(t) \/ Elected(t) \/ Cas(t) \/ Touch(t)
    \/ PublishStatus(t) \/ PublishBlk(t) \/ PublishCount(t) \/ PublishAll(t)
    \/ Spin(t) \/ Access(t) \/ Exit(t)

Next == Launch \/ Reset \/ KernelEnds \/ \E t \in Threads : Step(t)

Spec == Init /\ [][Next]_vars

\* Resident warps are scheduled and their lanes make progress independently (sm_70
\* and later); what a kernel accesses, and when it is launched, is up to the program.
FairSpec == Spec /\ \A t \in Threads : WF_vars(Step(t))
-----------------------------------------------------------------------------
(* Properties. *)

\* Types of the table and of the views; every access falls into the table that
\* prefault_array_init allocated for prefault_page_count pages.
TypeOK ==
    /\ page_status \in [Pages -> {"UNKNOWN", "PENDING", "READY"}]
    /\ blk_cnt \in [Blks -> Nat]
    /\ published \in Nat /\ all_resident \in {0, 1}
    /\ pc \in [Threads -> PC]
    /\ page \in [Threads -> Pages \cup {None}]
    /\ last_page \in [Threads -> Pages \cup {None}]
    /\ last_blk \in [Threads -> Blks \cup {None}]
    /\ checks \in [Threads -> BOOLEAN]
    /\ touched \in [Pages -> Nat]

\* "One atomicCAS winner per 4 KiB page touches it": between two resets no page is
\* touched twice, whatever warps and launches ask for it.
TouchedOnce == \A p \in Pages : touched[p] <= 1

\* No access overtakes its page's touch: a thread that goes on to the access, on a
\* last_page or last_blk hint, a full block counter, a READY status, after spinning
\* or with the checks skipped, accesses a page that was touched since the reset.
AccessTouched == \A t \in Threads : pc[t] = "access" => touched[page[t]] >= 1

Ready(S) == {p \in S : page_status[p] = "READY"}

\* Between launches the counters tell exactly what the table tells: no page is left
\* PENDING, a block's counter is full iff its pages are ready, and all_resident is
\* set iff all pages are ("views built afterwards skip the check").
CountersExact ==
    NoKernel =>
        /\ \A p \in Pages : page_status[p] # "PENDING"
        /\ \A b \in Blks : blk_cnt[b] >= BlkPages <=> Ready(PagesOf(b)) = PagesOf(b)
        /\ all_resident = 1 <=> Ready(Pages) = Pages

\* A thread that missed gets to its access: whoever holds the page PENDING publishes
\* it, and nobody waits for a page no thread is going to publish.
EveryMissServed == \A t \in Threads : pc[t] = "read_blk" ~> pc[t] = "access"
=============================================================================
