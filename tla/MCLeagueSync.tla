---------------------------- MODULE MCLeagueSync ----------------------------
EXTENDS LeagueSync

CONSTANTS j1, j2

\* A request and the scheduler, or two of either, synchronise the league.
MCJobs == {j1, j2}
=============================================================================
