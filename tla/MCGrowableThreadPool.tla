------------------------ MODULE MCGrowableThreadPool ------------------------
EXTENDS GrowableThreadPool, TLC

\* Threads and jobs are told apart by nothing the pool does.  For invariants only.
Symmetry == Permutations(Threads) \cup Permutations(Jobs)
=============================================================================
