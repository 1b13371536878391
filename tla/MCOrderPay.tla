------------------------------ MODULE MCOrderPay ------------------------------
\* Orders and payers are model values; no symmetry, as the run checks liveness.
EXTENDS OrderPay
=============================================================================
