---------------------------- MODULE BatchService ----------------------------
(***************************************************************************)
(* What uvm_kthread_dispatch_and_wait promises its caller, without workers, *)
(* counters or wakeups: a batch of work items is opened, every item is      *)
(* serviced at most once, and the call returns the combined status of the   *)
(* items only when no item is left.  A call that gave up after 30 seconds    *)
(* returns NV_ERR_TIMEOUT; items of such a batch may still be serviced       *)
(* behind the caller's back until the next batch is opened.                  *)
(***************************************************************************)
EXTENDS Integers

CONSTANTS Slots,      \* the slots of pool->queue
          ItemStatus  \* what servicing one item may return

VARIABLES phase,      \* "idle" or "open"
          pending,    \* slots of the batch that are not serviced yet
          failed,     \* slots of the batch whose service returned an error
          result      \* what the last call returned, "none" before the first

vars == <<phase, pending, failed, result>>

Init ==
    /\ phase = "idle"
    /\ pending = {}
    /\ failed = {}
    /\ result = "none"

Open(S) ==
    /\ phase = "idle"
    /\ S # {}
    /\ phase' = "open"
    /\ pending' = S
    /\ failed' = {}
    /\ result' = "none"

Service(i, s) ==
    /\ phase = "open" \/ result = "NV_ERR_TIMEOUT"
    /\ i \in pending
    /\ pending' = pending \ {i}
    /\ failed' = IF s = "NV_OK" THEN failed ELSE failed \cup {i}
    /\ UNCHANGED <<phase, result>>

Return(s) ==
    /\ phase = "open"
    /\ pending = {}
    /\ s = "NV_OK" => failed = {}
    /\ phase' = "idle"
    /\ result' = s
    /\ UNCHANGED <<pending, failed>>

GiveUp ==
    /\ phase = "open"
    /\ phase' = "idle"
    /\ result' = "NV_ERR_TIMEOUT"
    /\ UNCHANGED <<pending, failed>>

Next ==
    \/ \E S \in SUBSET Slots : Open(S)
    \/ \E i \in Slots, s \in ItemStatus : Service(i, s)
    \/ \E s \in ItemStatus \cup {"NV_ERR_NO_MEMORY"} : Return(s)
    \/ GiveUp

Spec == Init /\ [][Next]_vars
=============================================================================
