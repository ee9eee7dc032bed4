-------------------------- MODULE MCMergeDispatch --------------------------
(* TLC instances of the coordinator's segment dispatch. *)
EXTENDS MergeDispatch

CONSTANTS MaxGroups, FaultCounts

\* Every batch of at most MaxGroups groups, and batches whose segments are so
\* unequal that the proportional allocation gives out more ids than workers
SmallBatches ==
    UNION {[1 .. n -> FaultCounts] : n \in 1 .. MaxGroups}
    \cup {<<1, 1, 1, 1, 4, 1>>, <<1, 2, 1, 4, 4, 4>>}
=============================================================================
