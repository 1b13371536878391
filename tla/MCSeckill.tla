------------------------------ MODULE MCSeckill ------------------------------
EXTENDS Seckill, TLC

\* Threads, consumers and users only ever appear as indices.
Symmetry == Permutations(Thread) \cup Permutations(Consumer)
                \cup Permutations(User) \cup Permutations(OrderId)
=============================================================================
