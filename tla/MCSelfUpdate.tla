---------------------------- MODULE MCSelfUpdate ----------------------------
EXTENDS SelfUpdate

CONSTANTS w1, w2, u1, u2

\* The unit starts two workers; two administrators may update at once.
MCWorkers == {w1, w2}
MCUpdates == {u1, u2}
=============================================================================
