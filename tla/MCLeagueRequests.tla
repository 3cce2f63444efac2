-------------------------- MODULE MCLeagueRequests --------------------------
EXTENDS LeagueRequests, TLC

\* Requests, players and teams are interchangeable.
Symmetry == Permutations(Requests) \union Permutations(Players) \union Permutations(Teams)
=============================================================================
