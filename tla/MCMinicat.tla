------------------------------ MODULE MCMinicat ------------------------------
\* Sockets are model values; no symmetry, as the run checks liveness.
EXTENDS Minicat

CONSTANTS s1, s2, s3, s4

Sockets == {s1, s2, s3, s4}

\* A request beside each of the others, and enough silent clients to fill the pool.
Clients ==
    {[s \in Sockets |-> CASE s = s1 -> "good" [] s = s2 -> k [] OTHER -> "silent"]
        : k \in {"torn", "empty", "unknown"}}
=============================================================================
