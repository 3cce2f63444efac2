-------------------------- MODULE PublishedLeague --------------------------
(***************************************************************************)
(* What a league looks like to the requests that read it: either it is not *)
(* there, or it is the complete result of one synchronisation, with a      *)
(* digest of what that synchronisation changed.                            *)
(***************************************************************************)
EXTENDS Integers

CONSTANTS
  Versions,   \* states of the league at ESPN, later ones greater
  Times,      \* values of synced_at
  None

VARIABLE published

Pool(teams, agents, by) == [teams |-> teams, agents |-> agents, by |-> by]

Digest(old, new) == [since |-> old.by, at |-> new.by, from |-> old, to |-> new]

Init == published = None

\* An enrichment that fails leaves what the last synchronisation had of it.
Kept(column) == IF published = None THEN None ELSE published[column]

\* One synchronisation replaces everything at once, never by older data, and
\* its digest compares the pool it replaced with the pool it brought.  The
\* matchups shown are those of the week shown or none at all.
Publish(teams, agents, at) ==
  LET pool == Pool(teams, agents, at)
  IN  /\ agents >= teams
      /\ published # None => at > published.syncedAt /\ teams >= published.header
      /\ \E schedule \in {None, teams}, weekly \in {Kept("weekly"), teams},
            live \in {Kept("live"), agents} :
           published' = [syncedAt |-> at, header |-> teams, pool |-> pool,
                         digest |-> IF published = None THEN None
                                    ELSE Digest(published.pool, pool),
                         schedule |-> schedule, weekly |-> weekly, live |-> live]

Remove == published # None /\ published' = None

Next ==
  \/ \E teams, agents \in Versions, at \in Times : Publish(teams, agents, at)
  \/ Remove

Step == Next \/ UNCHANGED published

Spec == Init /\ [][Next]_published
=============================================================================
