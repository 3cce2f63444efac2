-------------------------- MODULE MCNotifications --------------------------
EXTENDS Notifications

CONSTANTS w1, w2, l1, l2

MCWorkers == {w1, w2}

\* A busy league, and one that only takes part in the passes over both.
MCLeagues == {l1, l2}
MCQuiet == {l2}
=============================================================================
