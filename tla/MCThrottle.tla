----------------------------- MODULE MCThrottle -----------------------------
EXTENDS Throttle, TLC

CONSTANTS t1, t2, a, b

\* Threads and keys are interchangeable.
Symmetry == Permutations(Threads) \union Permutations(Keys)
=============================================================================
