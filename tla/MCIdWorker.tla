------------------------------ MODULE MCIdWorker ------------------------------
EXTENDS IdWorker, TLC

CONSTANTS w1, w2

\* Two processes with neighbouring node ids: a carry out of the sequence shows.
MCWorker == {w1, w2}
MCNodeId == w1 :> 0 @@ w2 :> 1
=============================================================================
