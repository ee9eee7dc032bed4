---- MODULE MCSharedPush ----
(* The segment with workers and blocks as model values. *)
EXTENDS SharedPush, TLC

CONSTANTS b1

\* The first block has faults with two residencies.
MCResidencies == [b \in Blocks |-> IF b = b1 THEN 2 ELSE 1]

\* The dynamic policy with copy_map_split, with and without a heavy block, the
\* dynamic policy without it, and the policies that share only the map push.
MCModes == {<<TRUE, TRUE, {}>>, <<TRUE, TRUE, {b1}>>, <<TRUE, FALSE, {b1}>>,
            <<FALSE, FALSE, {b1}>>}
MCUnsplit == {<<TRUE, FALSE, {}>>}

\* Workers are alike, and so are the blocks but the first.
Symmetry == Permutations(Workers) \cup Permutations(Blocks \ {b1})
====
