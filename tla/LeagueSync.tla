----------------------------- MODULE LeagueSync -----------------------------
(***************************************************************************)
(* Synchronising one ESPN league of one user: sync_league of               *)
(* app/sync_service.py, run by POST /api/sync and by the scheduler, against *)
(* SQLite and next to DELETE /api/league.  Reads see committed rows only    *)
(* and take no lock; the first write of a transaction takes the one write   *)
(* lock and keeps it until commit or rollback, through the requests to ESPN *)
(* that sync_league makes meanwhile.                                        *)
(***************************************************************************)
EXTENDS Integers, FiniteSets

CONSTANTS
  Jobs,        \* calls of sync_league that may be in progress at once
  RowIds,      \* ids of the leagues row; a deleted row's id may be reused
  None,
  MaxVersion,  \* bound: states the league goes through at ESPN
  MaxTime      \* bound: readings of the clock, one per synchronisation

ASSUME SyncAssumption ==
  /\ MaxVersion \in Nat \ {0}
  /\ MaxTime \in Nat \ {0}
  /\ None \notin Nat /\ None \notin RowIds /\ None \notin Jobs
  /\ IsFiniteSet(Jobs)

VARIABLES
  espn,      \* what ESPN would answer now: a version of the league
  clock,     \* datetime.utcnow(), advancing each time it is read
  store,     \* the committed rows of this league
  lock,      \* who holds SQLite's write lock
  job,       \* the calls of sync_league
  deletion,  \* the DELETE request in progress: what it loaded
  overlapped \* history: whether two calls of sync_league have overlapped

vars == <<espn, clock, store, lock, job, deletion, overlapped>>
-----------------------------------------------------------------------------
Versions == 1 .. MaxVersion
Times == 1 .. MaxTime
Maybe(S) == S \union {None}

\* Teams, players and rosters: the versions of the league and of its free
\* agents they were built from, and the synced_at of the sync that built them.
Pool == [teams : Versions, agents : Versions, by : Times]

\* A pool whose free agents may still be missing.
Partial == [teams : Versions, agents : Maybe(Versions), by : Times]

\* sync_changes: its labels, and the pools its items compare.
Digest == [since : Times, at : Times, from : Pool, to : Pool]

\* header stands for name, current_week, scoring_rules and the other columns
\* copied from the league payload.  Of the enrichments, schedule is the matchups
\* of the week in that payload, weekly the rankings, injuries and defences of
\* that week, live what is not asked for by week: activity, season_schedule,
\* fantasycalc_values.
Row == [id : RowIds, header : Versions, syncedAt : Times, digest : Maybe(Digest),
        schedule : Maybe(Versions), weekly : Maybe(Versions), live : Maybe(Versions)]

Sources == {"schedule", "weekly", "live"}

\* Players and stat history hang off the row by its id.
Store == [row : Maybe(Row),
          pool : [RowIds -> Maybe(Partial)],
          history : [RowIds -> SUBSET Versions]]

\* loaded is the row the scheduler's session holds since _sync_one looked it up.
Job == [at : {"idle", "loaded", "fetched", "read", "rebuilding"}, loaded : Maybe(Row),
        fetched : Maybe(Versions), mine : Maybe(Row), now : Maybe(Times),
        before : Maybe(Pool), work : Maybe(Store)]

\* What a request that reads the league is shown of it.
Served == [syncedAt : Times, header : Versions, pool : Pool, digest : Maybe(Digest),
           schedule : Maybe(Versions), weekly : Maybe(Versions), live : Maybe(Versions)]

ASSUME NoneAssumption ==
  None \notin Versions \union Partial \union Digest \union Row \union Store \union Served

TypeOK ==
  /\ espn \in Versions
  /\ clock \in 0 .. MaxTime
  /\ store \in Store
  /\ lock \in Maybe(Jobs)
  /\ job \in [Jobs -> Job]
  /\ deletion \in Maybe([id : RowIds, pool : Maybe(Pool), history : SUBSET Versions])
  /\ overlapped \in BOOLEAN

Idle == [at |-> "idle", loaded |-> None, fetched |-> None, mine |-> None,
         now |-> None, before |-> None, work |-> None]

\* SQLAlchemy's UPDATE leaves out a column whose new value equals the one this
\* session loaded, whatever the row holds by now.
Written(new, loaded, current) == IF new = loaded THEN current ELSE new

Init ==
  /\ espn = 1
  /\ clock = 0
  /\ store = [row |-> None, pool |-> [i \in RowIds |-> None], history |-> [i \in RowIds |-> {}]]
  /\ lock = None
  /\ job = [j \in Jobs |-> Idle]
  /\ deletion = None
  /\ overlapped = FALSE
-----------------------------------------------------------------------------
\* The league goes on at ESPN.
EspnChanges ==
  /\ espn < MaxVersion
  /\ espn' = espn + 1
  /\ UNCHANGED <<clock, store, lock, job, deletion>>

\* _sync_one finds the row of the league it claimed.
Load(j) ==
  /\ job[j].at = "idle"
  /\ store.row # None
  /\ job' = [job EXCEPT ![j] = [Idle EXCEPT !.at = "loaded", !.loaded = store.row]]
  /\ UNCHANGED <<espn, clock, store, lock, deletion>>

\* get_league, for a request or for the league the scheduler loaded.
Fetch(j) ==
  /\ job[j].at \in {"idle", "loaded"}
  /\ job' = [job EXCEPT ![j].at = "fetched", ![j].fetched = espn]
  /\ UNCHANGED <<espn, clock, store, lock, deletion>>

\* What the query for the row gives: SQLAlchemy returns the instance the session
\* already has of that id, with the columns it had then.
Found(j) ==
  LET loaded == job[j].loaded
  IN  IF store.row # None /\ loaded # None /\ loaded.id = store.row.id THEN loaded ELSE store.row

\* The row is looked up, or a new one prepared, and its columns are set.
ReadRow(j) ==
  /\ job[j].at = "fetched"
  /\ clock < MaxTime
  /\ clock' = clock + 1
  /\ job' = [job EXCEPT ![j].at = "read", ![j].mine = Found(j), ![j].now = clock + 1]
  /\ UNCHANGED <<espn, store, lock, deletion>>

\* Mutant: the wipe takes the stat history along.
RebuiltFromNothing(s, i, version, now) ==
  [s EXCEPT !.pool[i] = [teams |-> version, agents |-> None, by |-> now],
            !.history[i] = {version}]

\* The wipe, and the teams and rosters of the fetched version in its place.
Rebuilt(s, i, version, now) ==
  [s EXCEPT !.pool[i] = [teams |-> version, agents |-> None, by |-> now],
            !.history[i] = @ \union {version}]

\* flush inserts the row: the unique constraint admits it only if the league
\* has none by now.
FlushInsert(j, i) ==
  /\ job[j].at = "read"
  /\ job[j].mine = None
  /\ lock = None
  /\ store.row = None
  /\ LET row == [id |-> i, header |-> job[j].fetched, syncedAt |-> job[j].now,
                 digest |-> None, schedule |-> None, weekly |-> None, live |-> None]
     IN  job' = [job EXCEPT
           ![j].at = "rebuilding",
           ![j].mine = row,
           ![j].work = Rebuilt([store EXCEPT !.row = row], i, job[j].fetched, job[j].now)]
  /\ lock' = j
  /\ UNCHANGED <<espn, clock, store, deletion>>

\* The columns of the league payload.
Updated(j) ==
  [store.row EXCEPT !.header = Written(job[j].fetched, job[j].mine.header, @),
                    !.syncedAt = job[j].now]

\* Mutant: the snapshot is taken of the teams just rebuilt.
SnapshotTooLate(j) ==
  [teams |-> job[j].fetched, agents |-> job[j].fetched, by |-> job[j].now]

\* snapshot_players: the outgoing pool.
Snapshot(j) == store.pool[job[j].mine.id]

\* flush updates the row read before; the outgoing pool is read under the lock.
FlushUpdate(j) ==
  /\ job[j].at = "read"
  /\ job[j].mine # None
  /\ lock = None
  /\ store.row # None
  /\ store.row.id = job[j].mine.id
  /\ job' = [job EXCEPT
       ![j].at = "rebuilding",
       ![j].before = Snapshot(j),
       ![j].work = Rebuilt([store EXCEPT !.row = Updated(j)], store.row.id,
                           job[j].fetched, job[j].now)]
  /\ lock' = j
  /\ UNCHANGED <<espn, clock, store, deletion>>

\* Mutant: the comparison starts at this sync instead of the last one.
DigestSinceNow(j, pool) ==
  IF job[j].before = None THEN job[j].work.row.digest
  ELSE [since |-> job[j].now, at |-> job[j].now, from |-> job[j].before, to |-> pool]

\* diff_players against the snapshot; a league without players had no digest.
NewDigest(j, pool) ==
  IF job[j].before = None THEN job[j].work.row.digest
  ELSE [since |-> job[j].mine.syncedAt, at |-> job[j].now, from |-> job[j].before, to |-> pool]

\* Mutant: every enrichment is fetched along with the league, before the lock.
EnrichedEarly(j, answers) ==
  [job[j].work.row EXCEPT
     !.schedule = IF "schedule" \in answers THEN job[j].fetched ELSE None,
     !.weekly = IF "weekly" \in answers THEN job[j].fetched ELSE @,
     !.live = IF "live" \in answers THEN job[j].fetched ELSE @]

\* An outage blanks the matchups of the week, which would be another week's; the
\* other enrichments keep what was stored.
Enriched(j, answers) ==
  LET mine == job[j].mine
      schedule == IF "schedule" \in answers THEN job[j].fetched ELSE None
  IN  [job[j].work.row EXCEPT
         !.schedule = Written(schedule, mine.schedule, @),
         !.weekly = IF "weekly" \in answers THEN Written(job[j].fetched, mine.weekly, @) ELSE @,
         !.live = IF "live" \in answers THEN Written(espn, mine.live, @) ELSE @]

\* The free agents of now, the digest, the enrichments that answer, commit.
Publish(j, answers) ==
  /\ job[j].at = "rebuilding"
  /\ LET i == job[j].mine.id
         pool == [job[j].work.pool[i] EXCEPT !.agents = espn]
     IN  store' = [job[j].work EXCEPT
           !.pool[i] = pool,
           !.history[i] = @ \union {espn},
           !.row = [Enriched(j, answers) EXCEPT !.digest = NewDigest(j, pool)]]
  /\ lock' = None
  /\ job' = [job EXCEPT ![j] = Idle]
  /\ UNCHANGED <<espn, clock, deletion>>

\* Mutant: the session is neither rolled back nor closed.
FailWithoutRollback(j) ==
  /\ job[j].at # "idle"
  /\ job' = [job EXCEPT ![j] = Idle]
  /\ UNCHANGED <<espn, clock, store, lock, deletion>>

\* An ESPN request fails, a write waits 30 s for the lock, the row to insert
\* exists or the row to update is gone, the process dies: SQLite rolls back.
Fail(j) ==
  /\ job[j].at # "idle"
  /\ job' = [job EXCEPT ![j] = Idle]
  /\ lock' = IF lock = j THEN None ELSE lock
  /\ UNCHANGED <<espn, clock, store, deletion>>
-----------------------------------------------------------------------------
\* delete_league loads the row and, for the cascade, everything under it.
LoadForDelete ==
  /\ deletion = None
  /\ store.row # None
  /\ deletion' = [id |-> store.row.id, pool |-> store.pool[store.row.id],
                  history |-> store.history[store.row.id]]
  /\ UNCHANGED <<espn, clock, store, lock, job>>

\* The rows it loaded are deleted by their ids.  A pool rebuilt since then has
\* taken those ids over, or has new ones and stays.
CommitDelete ==
  /\ deletion # None
  /\ lock = None
  /\ LET i == deletion.id
     IN  \E rest \in IF store.pool[i] = deletion.pool THEN {None} ELSE {None, store.pool[i]} :
           store' = [store EXCEPT
             !.row = IF @ # None /\ @.id = i THEN None ELSE @,
             !.pool[i] = rest,
             !.history[i] = @ \ deletion.history]
  /\ deletion' = None
  /\ UNCHANGED <<espn, clock, lock, job>>

\* The delete request waits too long for the lock, or its process dies.
FailDelete ==
  /\ deletion # None
  /\ deletion' = None
  /\ UNCHANGED <<espn, clock, store, lock, job>>
-----------------------------------------------------------------------------
Progress(j) ==
  \/ ReadRow(j)
  \/ \E i \in RowIds : FlushInsert(j, i)
  \/ FlushUpdate(j)
  \/ \E answers \in SUBSET Sources : Publish(j, answers)
  \/ Fail(j)

Remember == overlapped' = (overlapped \/ Cardinality({j \in Jobs : job'[j].at # "idle"}) > 1)

Step ==
  \/ EspnChanges
  \/ \E j \in Jobs : Load(j) \/ Fetch(j) \/ Progress(j)
  \/ LoadForDelete \/ CommitDelete \/ FailDelete

Next == Step /\ Remember

Spec == Init /\ [][Next]_vars

\* Every outgoing request has a timeout, and so has every wait for the lock.
FairSpec == Spec /\ \A j \in Jobs : WF_vars(Progress(j) /\ Remember)
-----------------------------------------------------------------------------
CurrentPool == store.pool[store.row.id]

\* README, "Notes": rosters are rebuilt on every sync but stat snapshots
\* accumulate.  While its row lives a league loses no recorded week, whatever
\* syncs fail, overlap or are killed, and every published pool is recorded.
HistoryAccumulates ==
  [][store.row # None /\ store'.row # None /\ store'.row.id = store.row.id =>
       /\ store.history[store.row.id] \subseteq store'.history[store.row.id]
       /\ {CurrentPool.teams, CurrentPool.agents} \subseteq store.history[store.row.id]]_vars

\* sync_diff.py: the digest is captured in the transaction that replaces the
\* pool, so its items always lead to the pool being served, and start from the
\* pool that was served just before.
DigestDescribesPool ==
  [][store'.row # None /\ store'.row.digest # None /\ store' # store =>
       /\ store'.row.digest.to = store'.pool[store'.row.id]
       /\ store.row # None => store'.row.digest.from = CurrentPool]_vars

\* sync_service.py: last sync's enrichments are left alone on an empty result,
\* and, being fetched under the lock, what is not asked for by week is never
\* replaced by an older answer either, however many syncs overlap.  The columns
\* of one week (schedule, weekly) do go back when an overtaken sync commits last.
EnrichmentsNeverRegress ==
  [][store.row # None /\ store'.row # None /\ store'.row.id = store.row.id =>
       /\ store.row.weekly # None => store'.row.weekly # None
       /\ store.row.live # None => store'.row.live # None /\ store'.row.live >= store.row.live]_vars

\* The write lock is released, so nobody waits for a sync for ever.
LockIsReleased == lock # None ~> lock = None

\* Until two of them overlap, syncs, requests and failures implement the atomic
\* publication of PublishedLeague.
Published == INSTANCE PublishedLeague WITH
  published <-
    IF store.row = None THEN None
    ELSE [syncedAt |-> store.row.syncedAt, header |-> store.row.header,
          pool |-> CurrentPool, digest |-> store.row.digest,
          schedule |-> store.row.schedule, weekly |-> store.row.weekly, live |-> store.row.live]

PublishesAtomically == Published!Init /\ [][overlapped' \/ Published!Step]_vars
=============================================================================
