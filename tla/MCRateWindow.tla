---------------------------- MODULE MCRateWindow -----------------------------
\* Two ticks to a second and a ring of three slots.  Threads are only compared
\* for equality and no liveness is checked, so they are symmetric.
EXTENDS RateWindow, TLC

Threads == Permutations(Thread)
=============================================================================
