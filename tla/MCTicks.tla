------------------------------ MODULE MCTicks ------------------------------
EXTENDS Ticks, TLC

\* Every goroutine runs the same tick.
Interchangeable == Permutations(Threads)
=============================================================================
