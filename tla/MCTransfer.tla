------------------------------ MODULE MCTransfer ------------------------------
EXTENDS Transfer, TLC

CONSTANTS a1, a2, unknown

MCOpening == (a1 :> 2) @@ (a2 :> 1)
=============================================================================
