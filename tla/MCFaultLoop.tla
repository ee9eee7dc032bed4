---- MODULE MCFaultLoop ----
(* The bottom half with warps as model values. *)
EXTENDS FaultLoop

CONSTANTS w1, w2

\* Both warps use address 1, each in its own va_space; w2 also makes an
\* invalid access.
MCAccesses == {<<w1, 1>>, <<w2, 1>>, <<w2, 2>>}
MCBad == {<<w2, 2>>}

\* What perf_ours.sh loads, with the default replay policy.
MCOurs == {<<"BATCH_FLUSH", TRUE, FALSE>>}

\* Every replay policy without the filter, and the filter without and with
\* its adaptive gate.
MCConfigs ==
    {<<p, FALSE, FALSE>> : p \in AllPolicies}
        \cup MCOurs \cup {<<"BATCH_FLUSH", TRUE, TRUE>>}
====
