--------------------------- MODULE MCKthreadPool ---------------------------
(* TLC instances of the kthread pool. *)
EXTENDS KthreadPool, TLC

Symmetry == Permutations(Workers)
=============================================================================
