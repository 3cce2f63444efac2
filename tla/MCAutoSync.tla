----------------------------- MODULE MCAutoSync -----------------------------
EXTENDS AutoSync, TLC

\* Two leagues are enough for one to wait while the other is synchronised.
\* The workers are interchangeable, so states that differ by exchanging them
\* are explored once (safety runs only).
WorkerSymmetry == Permutations(Workers)
=============================================================================
