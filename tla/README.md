# Backup Armchair Quarterback: specifications

TLA+ specifications of the backend in `src/backend/app`, the TLC configurations
that check them on small instances, and TLAPS proofs about the scheduler, the
synchronisation, the credentials, the notifications, the accounts, the limits, the
requests about a league, the assignment algorithm and the reports. Paths below are
relative to `src/backend/app/` unless they start with `src/`.

## The system

The program is a FastAPI backend over one SQLite database, served by a systemd
unit that starts uvicorn with two worker processes, behind nginx, which also
serves the built React frontend. It keeps ESPN fantasy leagues of its users in
sync and derives advice from them. Four kinds of actors change state:

* requests, each in a thread of either worker, with a database session of its own;
* one scheduler task per worker (`auto_sync.py`), which synchronises due leagues
  and then runs the notification pass;
* the update started from the admin page, a thread of one worker that pulls,
  installs, builds and then ends its own process;
* outside: ESPN, OpenAI, the notification webhook, the git remote, the supervisor.

They share the database, and for an update the checkout, the virtualenv and the
frontend build. There are no queues and no in-process locks across workers.

| component | state | operations | what makes it correct | module |
| --- | --- | --- | --- | --- |
| Auto-sync scheduler (`auto_sync.py`) | four columns of `leagues`; local variables of a pass | wake, list due leagues, claim by compare-and-swap, sync, record outcome; requests that create, configure and delete leagues | claims of two workers exclude each other; attempts are spaced; a due league is attempted; an attempt leaves an outcome | AutoSync, AutoSyncProofs |
| League synchronisation (`sync_service.py`, `db.py`) | a league's row, teams, rosters, players, stat history, digest | fetch, upsert, snapshot, wipe and rebuild, digest, enrichments, commit; failure; deletion | readers see whole syncs; history only grows; the digest describes the pool next to it | LeagueSync, PublishedLeague, LeagueSyncProofs |
| AI credentials (`chatgpt_oauth.py`, handlers in `main.py`) | the account's provider, key, sign-in bundle and pairing columns; OpenAI's current refresh token | save key or sign-in, keep, disconnect, pair, claim, refresh with rotation | one credential kind at a time, verified before stored; the rotated token is kept; a pairing is burned on use | AiCredential, AiCredentialProofs |
| Notifications (`notifications.py`) | `leagues.notified`; what a pass loaded | pass over all leagues, post alerts, post digest, record | nothing recorded that the channel did not get; repetitions stay bounded; a standing problem gets reported | Notifications, NotificationsProofs |
| Self-update (`deploy_service.py`, `src/deploy/`) | checkout, virtualenv, frontend build, what each worker imported | pull, pip, npm, preflight, exit, respawn; `install.sh` | what the updates leave on disk can start, unless somebody is told; the restart happens | SelfUpdate, AdministrationProofs |
| Accounts and administration (`auth.py`, `bootstrap_admin.py`, handlers in `main.py`) | users and their flags | register, bootstrap, create, approve, promote, give premium, delete | an administrator remains; nobody gets in whom none let in | Accounts, AdministrationProofs |
| Limits per process (`auth.py`, `ai_advisor.py`) | a dictionary of lists of times for failed sign-ins, registrations and analyses | prune, check, refuse, record, clear | the limit holds; nobody is refused without cause; waiting helps; old keys go | Throttle, ThrottleProofs |
| Lineups and scored weeks (`lineup.py`, `bench_points.py`) | the arrays of the algorithm | assign slots to players, score a week | the lineup is the optimum; the report adds up | Hungarian, BenchPoints, ReportsProofs |
| Requests about a league (handlers in `main.py`, `bench_points.py`) | planned moves; a JSON cache of scored weeks in the league's row | count, check and insert a move; find and remove one; load, fetch and write back the cache; delete the league with what hangs off it | the limit; a league is shown what is its own; scored weeks are kept | LeagueRequests, LeagueRequestsProofs |
| Waiver, trade and lineup advice (`recommendations/`) | none | values, bids and drops; profiles, needs, partners and grades; lineup, swaps and preview | advice can be followed, treats teams alike, passes nobody over | Ranking, Waivers, Trades, StartSit, Reports, ReportsProofs |
| Sync digest and league activity (`sync_diff.py`, `league_activity.py`, `espn_claims.py`) | none | compare two pools; pending claims, feed and spending from ESPN's log | what is left out matters less; claims, feed and spending agree | SyncDiff, Transactions, Reports, ReportsProofs |
| Odds, trends, alerts, scoring, schedule | none | functions of the rows | - | not modelled |
| ESPN and data clients | disk cache of nflverse files | fetch and parse | failures are reported, never half used | their outcome is an input of LeagueSync |
| Frontend (`src/frontend`) | browser state | calls the API | - | not modelled |

The hard behaviours are those of several actors over one database: SQLAlchemy
sessions that hold rows loaded long before they are written, UPDATEs that leave
out columns whose value equals the one loaded, SQLite's single write lock held
through outgoing requests, a scheduler in every worker, refresh tokens that a
remote service replaces on use, requests that check, wait and then write, and
processes that end between two steps. The
list of hazards with their lines is in `PROJECT.json`.

## Modules and how they correspond to the code

`PROJECT.json` maps every definition to its lines. What follows is the idea.

**AutoSync** models all workers' schedulers. A row keeps `auto_sync_enabled`,
`auto_sync_interval_hours`, `auto_synced_at` (`stamp`) and `auto_sync_error`, and
whether the row exists. `pass[w]` is the control state of `run_due_syncs` in
worker `w`: the time taken once at the start (`now`), the query's result (`due`),
the claims won (`claimed`), the job at hand, and the value of the error column
that was loaded before it is written (`seen`). `Claim` is the UPDATE with its
WHERE clause; a won claim writes `now`, not the current time. `EndSync` stands
for `sync_league` returning or raising. `RecordOnDeletedRow` is the
StaleDataError that escapes `_sync_one`. `LockTimeout` and `Crash` end a pass
wherever the code can be hit by them. `settled` is a history variable.
The length of a pass is bounded by `PassSpan`: `Tick` does not fire when a pass
has lasted that long. The code has no such bound; `PassSpan` is a parameter of
the environment, at least as long as the shortest interval in one run and shorter
than it in the other.

**LeagueSync** models calls of `sync_league` for one league, next to its
deletion. The contents of ESPN's answers are versions, numbered in the order ESPN
goes through them. A job reads the row without a lock (`ReadRow`), takes the write
lock with the first flush (`FlushInsert`, `FlushUpdate`), works on a private copy
of the rows (`work`) and commits (`Publish`), or fails at any point. `Written`
is SQLAlchemy's rule that an unchanged attribute is not part of the UPDATE, and
`Found` its identity map: the scheduler has looked the league up before it calls
(`Load`), and the query of `sync_league` gives it that row back, with the columns of
then. `Publish` has the enrichments and the commit at the end. Of the enrichments
there are three kinds (`Enriched`): `schedule`, which an outage blanks; `weekly`, asked
for by the week of the payload and left alone by an outage; and `live`, asked for
without a week.
`LoadForDelete`/`CommitDelete` are the two halves of `delete_league`, which
deletes what it loaded. **PublishedLeague** is the abstract specification: a
league appears, is replaced as a whole with a digest from the pool before to the
pool after, or disappears. `Published` in LeagueSync instantiates it with the
committed rows as refinement mapping.

**AiCredential** models one account. A request loads the row (`mine`), talks to a
provider (`verifying`, `refreshing`), and commits the columns that differ from
what it loaded (`Committed`). Requests overlap freely. Each key is one of `Keys`, which
says its provider and which of that provider's it is; `KeepKey` and `KeepPlan` are
the form sent without a new credential. `live` is OpenAI's side: the generation of
each sign-in's only valid refresh token. `Rotate` is OpenAI's answer; `ServerError`
the answer that is neither success nor refusal but treated as refusal; `Abandon`
everything that ends a request without a write, a crash after rotation included.
`lost`, `uses` and `overtaken` are history variables; `overtaken` says that a commit
was made over a credential that another request had put there meanwhile (`Overtakes`).

**Notifications** models the passes of all workers. A pass loads every league
(`loaded`), takes them one by one, posts an alert (`CheckAlerts`) and a digest
(`CheckChanges`) and saves the record of both with one commit (`Save`). After a
commit the session's rows are expired and read again (`loaded = None`); a league
that is gone by then ends the pass, since its error handler reads the row once more
(`TakeDeletedLeague`, `Save`, `SaveFails`). A post has one of three outcomes: it is
confirmed; it fails; or it lands and no answer comes in time (`unanswered`), for which
`send_webhook` returns False as well. `sent`, `alerted` and `told` say what the
channel received, confirmed or not. `Quiet` names leagues to which nothing happens but
deletion.

**SelfUpdate** models `run_update` step by step, each step with its failure and
what the failure leaves behind (`Torn`), the exit of the worker, the supervisor's
respawn, and `install.sh` run by hand at any moment. Updates overlap in one checkout
and one virtualenv. `Starts` is the import of `app.main`, which works if the
checkout's code is sound and its requirements are installed. `PullUnnoticed` is an
update that moves HEAD and then reports that nothing was new. `overlapped` and `mishap`
are history variables: another update or `install.sh` ran beside the last update; a
step failed or was cut off, or `install.sh` ran, since an update last went through
alone. What an update answers is wording and left out: it is idle again.

**Accounts** models the users table and administrators' requests in three steps:
authorised (`get_current_user`, `require_admin`), the row loaded, the commit. Ids
are given as SQLite does without AUTOINCREMENT, so that of a deleted last row comes
back. `vouched`, `crossed` and `recycled` are history variables: who was let in, an
administrator demoted during a request of theirs, an id that changed hands during a
request about it.

**Throttle** models one process and one of its three dictionaries, which have the
same shape; `kind` says which, for the checks differ in whether they look at their
own key a second time and in what a vanished key does. A step is what a thread does
between two places where another can change the dictionary: copying a list and
putting the copy in its place are two (`Read`, `Store`), and so are finding the list
and appending to it (`Counts`, `AppendTime`), where `orphan` says that the list
found is in the dictionary no more. Two workers have a dictionary each. Nothing
depends on a list's order but on its length and its least time, so a list is the set
of its entries, and the dictionary a function whose domain is its keys. An entry is
numbered among its key's, which tells two of the same time apart.

**Hungarian** is `_hungarian` with one step per round of each loop; its variables
are the function's, and the loop over the columns is the choice of the first
cheapest one. `before` is a history variable, the order in which the search came
to its columns. **BenchPoints** extends it with the matrix `optimal_assignment`
builds and with what `score_week` makes of the answer. Points are whole numbers, of
hundredths, and `One` is the 1.0 that `optimal_assignment` adds to the largest score;
rounding for display is left out. PriceAssumption is what the comment at INELIGIBLE
takes for granted: the price of a pairing that is not allowed, 1e9, is above whatever
a lineup can score. With scores beyond it the algorithm would trade a slot that can
be filled for points.

**LeagueRequests** models the requests about one league that take several
statements: planning a move (`LoadLeague`, `CountMoves`, `CheckPlanned`,
`InsertMove`), removing one (`FindMove`, `RemoveMove`), the bench points report
(`FetchWeeks`, `StoreWeeks`) and the deletion of the league (`DropLeague`), next to
its synchronisation in one step and the choice of a team. A SELECT sees what is
committed at that moment; the row a report loaded, with the whole cache, is what it
writes back. `born` numbers the leagues that had the same id, so that what one left
behind is told from what its successor owns; of a scored week the cache says which
league scored it and whether it was over. `crossed` and `reported` are history
variables: a league was being deleted while another request ran, two reports ran at
once.

**Reports** is what the read-only requests compute: one report is asked for and
answered. Every report is a function of what it read, computed at once; the scoring
of a week is BenchPoints, step by step. The functions are in modules of their own,
each with what it promises. **Ranking** has the Python idioms they share:
comprehensions with a condition (`Kept`), `sorted` with a key (`Descending`), slices,
`sum`, `round` to the even neighbour. A sorted sequence is defined by ranks: its n-th
element is the one with n keys that are greater, or equal and not after it.
**Waivers**: adjusted values,
budgets, bids, the weakest player to drop, this week's targets and the stashes.
**Trades**: starters needed per position with shared slots counted in part, strength
and depth, needs against the median and surpluses against the best of the league,
partners, and the grader. **StartSit**: the slots filled greedily, most constrained
first, the swaps, the biggest gain and the preview. **SyncDiff**: the kinds of
change between two snapshots, their significance and the cut; the comparisons are
numbered, four for every player, so that a list of changes is the list of the numbers
that are news. **Transactions**:
which side of an item a team is on, the pending claims, the feed and the spending.
Numbers are whole: tenths or hundredths of points, dollars; probabilities, names,
labels and sentences are left out.

The `MC...` modules add symmetry sets, small sets of actors and, for Reports, the
cases.

## Runs

| run | instance | what it shows |
| --- | --- | --- |
| `autosync_exclusion` | 2 workers, 2 leagues, interval 2, passes shorter than it | no league is held by two workers; every stamped attempt is a job or has left an outcome, while no deletion cuts a pass short |
| `autosync_live` | 2 workers, 1 league, passes as long as the interval, one fault, reused ids, fairness | types; two attempts on a league are an interval apart; a due league is attempted |
| `leaguesync_syncs` | 2 jobs, 1 row id used again after a deletion, 2 versions, 3 clock readings, fairness | until two syncs overlap they implement PublishedLeague; when they do, recorded history never shrinks, the digest leads from the pool replaced to the pool served, no enrichment but the schedule is blanked, those asked for without a week never go back, the lock is released |
| `credential_requests` | 2 requests that overlap, 1 key, 2 sign-ins, 1 rotation, 1 pairing | key and sign-in exclude each other and the key was verified, until a commit overtakes another; what is stored is what OpenAI accepts unless one of its answers was lost; a refusal clears only what is dead or about to be renewed; a pairing is burned on use |
| `credential_refresh` | 2 requests | violation: see below |
| `notify_passes` | 2 workers, 2 leagues (one quiet), 1 digest, one fault, fairness | messages are repeated a bounded number of times; of what is recorded, alerts included, the channel got a message; a problem that stays is reported |
| `selfupdate_updates` | 2 updates that overlap, 2 workers, 3 commits (one broken, two with new requirements), one crash, fairness | what updates leave on disk starts, unless a step failed; an announced restart is delivered |
| `accounts_requests` | 2 requests, 2 row ids, 3 addresses, 1 of them in ADMIN_EMAILS | an administrator remains; nobody gets in whom none let in |
| `throttle_threads` | 2 threads, 2 keys, limit 2, window 3, 4 ticks, 3 entries, each dictionary | the limit holds for requests that do not overlap; a refusal has a cause; waiting as told suffices; old keys are forgotten |
| `leaguereq_requests` | 2 requests, 1 row id used twice, 2 teams, 2 players, limit 1, 2 weeks | planned moves exceed the limit by less than the requests in progress; a league is shown what is its own; a scored week is kept |
| `leaguereq_provisional` | the same | violation: see below |
| `reports_requests` | weeks of 1 to 4 players with every eligibility, ties and negative scores; up to 4 free agents of 5 kinds; leagues of 2 and 3 teams; trades of up to 2 for 2; rosters with nested, disjoint and overlapping slots; digests of 2 players with 3 changes kept; logs of up to 3 transactions of 9 kinds; fairness | the assignment is certified, the best of all lineups, and beaten by no lineup started; what was missed adds up; every week gets scored; waiver, trade and lineup advice, digest and activity keep their promises |

**Bounds.** Two workers are what the unit file starts, and the conflicts are
between pairs. Two leagues are needed for one to wait behind another; properties
of one league are checked with one. An interval of two ticks distinguishes "now",
"too early" and "due", and four ticks hold two attempts and the time before the
third. One fault suffices to interrupt any step of any pass, and the properties
count faults where more would matter. Two row ids let a league be recreated under
a new id or the old one; LeagueSync has one, which a
league created after a deletion gets again. Two versions of the league make a mixture of two syncs
visible; three clock readings hold two syncs and one more that overlaps. Two
sign-ins of one rotation are enough for an old bundle to be confused with a new
one or with another sign-in, and two requests for a key and a sign-in, or two
refreshes, to be stored over each other; the proofs are for any number of each. Three commits give an update whose requirements are
new, one that cannot start, and one that repairs it with newer requirements, which the
pip of an overlapping update may undo. Two rows let administrators
demote each other and one row's id change hands. A limit of two needs three entries
to be exceeded, and a window of three ticks with two to a unit has a remainder to
cut off. Three slots with four players have augmenting paths of every shape up to
three columns, and each week is one of several thousand matrices. A limit of one
planned move is passed by two requests at once, and one row id used by two leagues
in turn is what lets one inherit from the other. Lists of three free agents with one
suggestion per position fill the pool of three looked at; four leave one out. Three
changes kept of up to eight, and two transactions of three, make the cuts happen.
The reports are checked over all combinations of their cases, most of which were
chosen so that two figures tie or differ by what a wrong order, sign or limit would
change.

Deadlock is checked in every run in which the environment can always act. A report
is finished when it is answered, so `reports_requests` ends. `accounts_requests`
stops if nobody is left who administers and every address has an account, and the
two runs of LeagueRequests when the bounds on leagues and weeks are used up and no
league is left.

**Fairness.** AutoSync and Notifications assume weak fairness of each worker's
own steps, because the task is an endless loop on an event loop that is never
blocked for ever: requests to ESPN and the webhook have timeouts, waits for the
lock end after 30 s, and the supervisor restarts a worker that dies. LeagueSync
assumes it of a job's progress, failure included (`Remember` only records overlaps). SelfUpdate assumes it of an
update's steps, which have time limits, and of the supervisor. Reports assumes
that the scoring of a week that has begun goes on. Nothing is assumed
of users, faults, the clock, ESPN or OpenAI.

**Disagreements with the repository's words.**

* `credential_refresh`: the handling of a refusal in `_refresh` clears the column
  because the token "will never work again". Two requests that refresh at the same
  time spend the same token; the refused one clears the pair the other stored.
* `leaguereq_provisional`: "never trust a cached copy of" the current week, says
  `bench_points.py`. But whatever is scored is cached, and once the next week is
  current the copy made during the week is trusted for good: a report opened in week
  3 freezes week 3 as it stood.
* Without a run of their own: `_biggest_swing` in `matchup_preview.py` looks for "the
  single lineup change that most improves your odds", and where the better player is
  himself a starter of another slot, the difference of the two overlooks what that
  slot loses. And
  `espn_claims.py` treats SUCCEEDED as possibly pending, which `league_activity.py`
  takes for completed: such a transaction without `isPending` appears in both lists.

**Conditions that matter.** Some properties are stated under a condition because
the model, like the code, does not keep them without it.

* ClaimsAreExclusive needs passes shorter than the shortest interval. All claims of
  a pass are stamped with its start before its first job runs, so a backlog that
  outlives the interval is claimed again by the other worker.
* AttemptsAreAccountedFor excludes deletions: a league deleted between the read and
  the commit of its outcome ends the pass, and the claims behind it are dropped.
* PublishesAtomically holds until two syncs overlap. A sync that waits for the lock
  has read the row, with its timestamps, before the pool it then replaces was built.
* EnrichmentsNeverRegress leaves out the schedule, which an outage sets to nothing
  (`sync_service.py:277`) although the enrichments below it are only replaced by an
  answer that is not empty. And a sync that was overtaken may replace schedule and
  weekly columns by those of an older week, for it asks by the week of the payload it
  fetched before it waited for the lock. The others are asked for under the lock.
* CredentialsExclusive and KeyWasVerified hold until a commit overtakes another
  (`overtaken`). Requests that overlap write column by column: one that saves a key
  assigns no sign-in, since it loaded none, and leaves it beside the key if another
  request stored one meanwhile. Overlap alone does no harm.
* StoredSignInIsUsable holds with any overlap, except while a refresh has the new pair
  in hand, and for sign-ins of which an answer got lost (`lost`).
* RefusalsClearTheDead is what remains of the docstring that `credential_refresh`
  refutes: a refusal that commits while the row still has the token it was refused
  destroys nothing but a token that is dead or about to be replaced. The harm is done by
  one that commits after a renewal was stored.
* PairingIsBurnedOnUse: once a delivery got through, no other can begin. Deliveries that
  had begun before may still get through, one per request.
* RepeatsAreBounded allows n workers n * (n + 1) / 2 posts of a message, three for the
  two there are, and n more per fault. A post that lands without an answer is a fault:
  it is not recorded, so that all who read the record post again. A pass is not claimed,
  so passes that overlap all read the record of what was sent and all post. One that has
  nothing new to post may then write back the record without the entry, and whoever
  reads that posts again: the k-th to do so finds n - k passes that are not themselves
  about to write an old record, and three workers come to six. A bound that grows
  linearly, 2 * n - 1, holds for two workers only.
* StandingProblemIsReported is satisfied by a record alone only if the channel was told
  of that problem at an earlier time (`Settled`): a problem that went away and came back
  between two passes is not posted again.
* LeagueKeepsItsOwn holds unless a deletion overlapped another request (`crossed`).
  The cascade deletes the moves that were loaded; one inserted between the loading
  and the commit stays, and SQLite gives the league's id to the next league created.
  A report that has the old league's cache writes it into the new one.
* ScoredWeeksAreKept holds unless two reports overlapped (`reported`): each writes the
  whole dictionary it had loaded, so the later one drops the week the other scored.
* MovesStayBounded is what remains of the limit when counting, checking and inserting
  are three steps: less than the number of requests in progress above it.
* GreedyIsBest is about rosters whose slots are nested or disjoint, as the common ones
  are; with slots that overlap in part the greedy order can miss the optimum.
* NobodyPassedOver admits that the pool was cut by the raw projection before trend,
  matchup and recent average were considered.
* DeploymentIsWhole is about what is on disk once no update has yet to check it, and is
  excused from when a step failed or was cut off until an update goes through alone
  (`mishap`). As a step that fails leaves HEAD at the new commit, an update that is run
  again after one finds nothing to pull and repairs nothing. "Never restart into a build
  that can't start" (`deploy_service.py:131`) is more than the code keeps when updates
  overlap: one may put older requirements into the virtualenv between the preflight and
  the exit of the other, whose worker then ends into it. That the first of them will
  answer with a failed preflight is what the property adds.
* RestartIsDelivered is about the worker that served the request, and about updates
  beside which nothing ran; the exit does not restart the other worker, which keeps the
  old code.
* SomebodyAdministers has the exception `crossed`: two administrators who demote each
  other at the same time are both authorised, and both succeed. OnlyTheVouchedGetIn
  has the exception `recycled`, since the handlers address a row by its id.
* LimitHolds, RetryAfterSuffices and OldKeysAreForgotten hold while no two requests of
  a process overlap. A check copies and replaces lists that others append to, so
  that entries get lost or come back. RefusedForCause holds regardless, except for
  registrations: their check takes the list of its own key as it finds it, which
  may be an old one that another check has just put back.

## Proofs

`AutoSyncProofs` proves, for any workers, leagues, intervals and bounds that meet
the assumptions of AutoSync:

* `TypeCorrect`: `Spec => []TypeOK`;
* `Spacing`: `Spec => AttemptsAreSpaced`, with faults, reused row ids and no
  condition on the length of a pass;
* `Exclusion`: `Spec => []ClaimsAreExclusive` if `PassSpan < MinInterval` and row
  ids are not reused;
* `NoConcurrentSync`: under the same conditions no league is a job of two workers;
* `Accounting`: `Spec => []AttemptsAreAccountedFor` if row ids are not reused, with no
  condition on the length of a pass.

AttemptsAreSpaced follows from TypeOK and an invariant about what a pass
remembers: every stamp in `due` lies at least MinInterval before the pass's `now`
(DueInv), because `Due` tested it against `Clamped`, which is at least MinInterval
whatever the row holds. A claim that wins finds in the row the stamp it remembers
and replaces it by `now`.

ClaimsAreExclusive is not inductive. The invariant that is adds: a pass has
started in the past and lasted at most PassSpan (SpanInv), a worker outside a pass
holds nothing (IdleInv), and a league that a worker holds has a stamp at least as
late as the worker's own (HeldInv), besides DueInv. A winning claim finds a stamp
at least MinInterval before its own `now`; a holder of that league would have begun
its pass no later than that stamp, hence more than PassSpan ago.

AttemptsAreAccountedFor needs none of this, since it asks for some worker or some
outcome, not for one worker. Beside IdleInv it needs only that what a worker holds was
in the table (KnownInv): then, as long as there are no faults and no deletions, a
worker lets go of a league only by recording an outcome (HeldUntilRecorded), and that
two of them hold it does no harm, for the later claim has replaced the stamp. Row ids
matter: with an id used again the deletion of its first league leaves no trace.

`LeagueSyncProofs` proves for any number of calls of `sync_league`, row ids,
versions and clock readings, with overlaps, failures and deletions at every point,
`TypeCorrect`, `HistoryKept` (`Spec => HistoryAccumulates`), `DigestDescribes`
(`Spec => DigestDescribesPool`) and `EnrichmentsGoForward`
(`Spec => EnrichmentsNeverRegress`). All three follow from what a call that holds the lock has on its private copy. The
invariant says that a call holds the lock exactly while it is rebuilding (JobInv), and
then that its copy is sound (Sound): made from the store as it still is, with the
history of the row and more, the weekly and live enrichments as committed, and the outgoing pool in
`before`. Nobody else can have changed the store since, because every other way to
change it needs the lock. For the enrichments it adds that none stored is newer than
its source (LiveInv): then an answer given under the lock is not older than what it
replaces. A deletion in progress refers to the row there is
(DeleteInv): no other row can have come in its place, for an insert needs the row to
be gone.

It proves the refinement too, `Atomic`
(`Spec => PublishesAtomically`): as long as no two calls have overlapped, every step
is a publication or a removal of PublishedLeague, or a stutter. Beyond soundness
this needs the order of time (AtomicInv): the one call in progress has a clock
reading later than that of the row, a version of the league no older than the
stored one, and, once it has read the row, the row as it still is (Latest); and the
stored pool carries the row's own version and time (StoredInv). Then the digest's
`since` is the time of the pool it starts from, and the publication is newer than
what it replaces. That two different calls in progress make the history variable
true is an argument about cardinalities (OneCall).

`NotificationsProofs` proves for any number of workers, leagues, digests and faults
`TypeCorrect` and `NothingIsSwallowed` (`Spec => []RecordedWasSent`). The record in a
row is only ever replaced by a copy that some pass holds, so the invariant says of
every copy, in rows loaded at the start of a pass and in the dictionary being filled
in, that the alert and the digest it records were received (CopiesInv); what was
received is never taken back.

`Repetition` (`Spec => []RepeatsAreBounded`) needs a potential: what was posted, plus
what may still follow without a fault, stays below what the faults so far allow. For
one league and one message every pass has a role. It is about to post; or holds a
record without the message that it will write back (a relapse); or has posted and will
record that; or none of these. The row is open if whoever reads it would post. With n
workers of which u relapse, the rounds that follow are at most
n + (n - 1) + ... over u of them (Rounds), and the round in progress adds the passes
that can still post (Load). A read of an open row adds to no sum, a post moves one from
what may follow to what was posted, a relapse written back opens a round that was
counted, and a fault pays for the n that it may cost (Cap): a post that landed
unanswered and those of the others who read the record it did not make. Twice the numbers are
compared, so that they are whole. The digests of one league are posted in order, so
that the message counted is the league's latest or will not be posted by a new pass
(AgeInv and DigestInv). The invariant, Standing, was model-checked for two workers
with two digests and for three with one fault before it was proved.

`AiCredentialProofs` proves for any number of requests that overlap in any way, of keys,
sign-ins, rotations and pairings `TypeCorrect`, `Exclusive`
(`[]CredentialsExclusive`), `Verification` (`[]KeyWasVerified`), `BurnedOnUse`
(`[]PairingIsBurnedOnUse`), `Usability` (`[]StoredSignInIsUsable`) and `Clearing`
(`RefusalsClearTheDead`). The invariant has three parts.

* CredentialInv: until a commit overtakes another, not only the row is sound but
  whatever the requests loaded, since it was the row once. A commit that overtakes
  nothing finds the credential it loaded, or none, and leaves the one it brings.
* PairingInv: of a pairing, deliveries done and claims in progress together are no more
  than the requests (ClaimsInv). A pairing in place has let none through, for the
  commit that lets one through burns it.
* SignInInv: for a sign-in that OpenAI accepts and of which no answer was lost, nobody has
  a newer token than was given out (LoadedOk), one renewal is in hand at most and whoever
  else has the sign-in has the older token (RenewedOk), a sign-in being verified is with
  nobody else (FreshOk), and the row has the accepted token or a request has its renewal
  in hand (RowInv). A stale commit cannot bring back a spent token, for a commit writes
  the column only if it assigns another value than it loaded, and what requests assign
  is a renewal, a new sign-in or nothing.

`LeagueRequestsProofs` proves for any number of requests, leagues, teams, players,
weeks and any limit `TypeCorrect` and `MovesBounded` (`Spec => []MovesStayBounded`).
The count of the moves is not inductive; the one that is counts the requests past
their check as if they had inserted already. A request that passes the check adds
itself when the count was below the limit, and no other step raises the sum.
It also proves `OwnKept` (`Spec => []LeagueKeepsItsOwn`) and `WeeksKept`
(`Spec => ScoredWeeksAreKept`): a deletion that overlaps nothing has loaded all the
moves there are by the time it commits, a request in progress means the league that
is there, and a report that overlaps no other holds a cache with everything in it
that the row's has.

`AdministrationProofs` proves for any number of accounts, addresses and requests
`TypeCorrect`, `Administered` (`Spec => []SomebodyAdministers`) and `Admission`
(`Spec => []OnlyTheVouchedGetIn`). The inductive invariant adds that whoever makes a
request still administers, or somebody was crossed, and makes no change that ends
that (AdminInv): the administrator whose request demotes the last but one is who
remains. And that the row a request has loaded is the row with that id (SameRowInv),
unless an id was recycled: then the approval is of the account it was meant for.

It proves `Whole` too (`Spec => []DeploymentIsWhole` of SelfUpdate), for any number of
workers, commits, crashes and updates that overlap in any way. The invariant follows what
was pulled to the update that has yet to import it (CheckedInv) and to build it
(BuiltInv): every pull starts an update that is not through, and one that ends otherwise
than by a passed preflight is a mishap. A passed preflight may leave another update
unchecked, or ends what was to be checked with `Starts`; and it ends a mishap only if
nothing ran beside it, when its own build is what is there (AloneInv). That a checkout only
moves forward makes an update that finds nothing to pull change nothing (Equipped). The
requirements of a commit are a CHOOSE of the newest commit that changed them, which there
is by well-founded induction (LeastNumber, NewestRequirements). Accounts and SelfUpdate
share no name, so that one module can speak of both.

`ThrottleProofs` proves for any number of threads, keys and entries, any limit, window
and clock `TypeCorrect`, `Limits` (`[]LimitHolds`), `Causes` (`[]RefusedForCause`),
`RetryAfterIsEnough` (`[]RetryAfterSuffices`) and `Forgetting`
(`[]OldKeysAreForgotten`). Whatever overlaps, what is in the dictionary or in a
request's copy of a list was recorded (RecordInv, CopyInv), and the copy that a check
of its own key decides on was cut at the request's own time: a refusal has a cause.
Until two requests overlap, the dictionary lacks nothing that still counts, and that
is within the limit (Counted), the keys already looked at have entries and recent ones
only (RequestInv), and a refused client that comes back as told finds fewer than Limit
(PromiseInv). The last is arithmetic on the least time of a list, rounded up to the
unit of the message; that a set of times has a least one is proved by well-founded
induction over finite sets (LeastNatural).

`ReportsProofs` proves for every cost matrix with a column for each row, of whole
numbers and of any size, `TypeCorrect`, `Feasible` (the potentials never exceed a
cost), `Optimal` (`Hungarian => []Certified`) and `CheapestFound`
(`Hungarian => []NoneCheaper`): when the algorithm returns, every row has a column of
its own, the pairings chosen are tight, no pairing is below its potentials, and columns
left over have potential 0 and no column a positive one; and no other way to give
every row a column of its own costs less.
The invariant says what a textbook says of the algorithm: the columns a search has
come to form a tree of tight pairings ordered by when they were reached (TreeInv,
over `before`), `minCost` and `way` give the least slack from that tree to each other
column (NearestInv), pairings matched stay tight when potentials move (TightInv),
and the matching covers all rows so far but for the one hole that the augmentation
passes on (MatchingInv). A delta is never negative after a row's first round, for
the row is priced by then (`Priced`). That the certificate bounds all other
assignments is weak duality (NoneIsCheaper), an argument about sums.

For every set of weeks that meets the assumptions of BenchPoints it proves what the
report rests on: `BestIsFound` (`Spec => []FoundOptimum`), `Unbeaten`
(`Spec => []NobodyBeatsTheBest`) and `MissedIsAll` (`Spec => []MissedAddsUp`). The
lineups to compare with may leave slots empty, and the algorithm assigns every row. So
every lineup is completed to an assignment that costs no more than the lineup's price,
in which an empty slot costs INELIGIBLE (Completed), and the lineup read off the answer
has the price of the answer (ChosenLineup). The price is INELIGIBLE for each empty
slot, less the points and the offset for each filled one (PriceOfLineup); by
PriceAssumption one slot more outweighs any points (Worth). A lineup that was legally
started is one of these lineups and fills every slot, hence so does the best (RealLineup,
AllFilled), and the differences by slot sum to the difference of the sums.

The sums are the community modules' folds over finite sets. Their definition picks
elements in some order; SumFirst takes off the one it picks and SumWithout any. The
other facts (SumBelow, SumAdded, SumOfImage, SumSplit, SumBounds) follow by
FiniteInduction, which is the well-foundedness of strict inclusion, stated for a set of
parts rather than for a predicate.

Of the reports `ReportsProofs` proves what the run checks, for rosters, leagues, pools
and logs of any length and any figures: `WaiversAreSound`, `TradesAreImpartial`,
`LineupsAreSound`, `DigestsAreSound` and `ActivityIsSound`, each
`ReportSpec => []...Holds`. The invariant (Reporting) says that a report is of one of
its cases and that an answer, once there, is what the request computes from that case;
what is promised is then a fact about that function.

* Lists. Exactly one element has each rank (RankedIs), so that a sorted sequence has
  every element once and the greater key, or of equals the first, before the other
  (OrderedIs). A slice of it has the elements that nothing left out exceeds (TopIs),
  a condition on it keeps the order (KeptIs, FirstKept). Numbers round to the
  nearest: RoundDiv rises with what is divided (RoundRises) and stays within a whole
  number that bounds it (RoundBelow). Sums may be taken over other names of the
  summands (SumRenamed), by group (SumByGroup) or without what counts for nothing
  (SumWhere).
* Waivers. A bid is between nothing and what is left, and rises with the upgrade
  (BidBounds): cap and floor meet only where there is a dollar to floor at. Whoever is
  not listed was cut from the pool, does not beat the player to drop, or gives way to
  TopN better ones (BestOfWeek, NobodyIsPassedOver); a list that stays short of TopN
  is so because nobody else beat him. A stash has a value of his own and more than the
  least valued player of the roster (StashesGain).
* Trades. Strength and depth are the two parts of one sorted list (CutInTwo); at most
  half the members of a list are below its median (BelowMedian), and one team only is
  the deepest. A grade falls with what is sent (GradesFall), by multiplication with the
  totals, and is the same function for both sides.
* Lineups. The best lineup is found by exchange (Exchange, GreedyWins): a lineup that
  agrees with the first k - 1 picks can be changed to agree with the next one too,
  without losing a player or a point. The player picked is put into his slot and
  whoever stood there takes the place he leaves. This is where the slots have to be
  nested: the slot he leaves is filled later, so it has no fewer candidates; it shares
  one, hence has them all.
* Digests. A comparison that is news is news the other way round, with from and to
  exchanged (BothWays); exchanging them is one to one, so that both digests are cut
  from lists of the same length (AsMuchNews). An injury weighs 1000 or more, a change of
  hands 500, and no swing of a percentage or of a week's projection makes up for either
  (Significances).
* Activity. In an exchange between two teams every item is in for one and out for the
  other, whatever its label (OtherSide, TradeIsOne). The feed has the newest of what
  happened (FeedIs), and the bids in it, by team, are the bids of its transactions
  (SpendingDoesAddUp); an average is no more than the biggest, also when rounded.

All proofs assume only the named assumptions of the modules: bounds are natural
numbers, the sets of actors that are counted are finite, None is none of the
values it stands beside, and scores are small against INELIGIBLE. Of the cases of the
reports they assume the shape (CaseAssumption) and three facts: a pool of players is a
dict, and an answer of ESPN a list with one entry per transaction, so that no id comes
twice; and whoever asks for waivers has a team in the league, for otherwise the request
ends with `team_not_found` before a budget is looked at. A projection lies between -50
and 350 points, well outside of what a player scores in a week; that keeps the weights
of SyncDiff apart. Every run evaluates the assumptions of its modules.

Not proved: liveness, which is out of the prover's reach and stays with
`autosync_live` (DueIsAttempted), `leaguesync_syncs` (LockIsReleased), `notify_passes`
(StandingProblemIsReported), `selfupdate_updates` (RestartIsDelivered) and
`reports_requests` (EveryWeekIsScored). Every other property of the passing runs is
stated by a theorem. Among the runs, `autosync_live` and `accounts_requests`
check a type invariant; the others spend their time on properties, and TypeOK is a
theorem, or a conjunct of an invariant that is proved, in every module with proofs.

## Not modelled, and plan

Parsing of ESPN, nflverse, FantasyPros and FantasyCalc payloads
(`espn_client.py`, `fantasypros_client.py` and the like), the prompts and answers of
`ai_advisor.py`, message texts, URL checks, schemas and the frontend are input and
output without state that a property here is about; where they fail, the failure is
an action of the module that handles it. Migration of columns at start-up (`db.py`)
runs before any worker serves a request. Handlers of `main.py` that only read, and
the key-value settings of the instance, have nothing that several steps could break.
The simulation of `playoff_odds.py` and the statistics of `consistency.py` and
`trends.py` are floating point over random samples. `live_scoring.py`, `scoring.py`
and `matchup.py` convert one payload or look up one table.

What would come next:

1. The sign-in helper `src/tools/chatgpt_signin.py` against the pairing of
   AiCredential: its polling and retries as a client of the claim.
2. The selection of `alerts.py`, whose result is the input `Problems` of
   Notifications, and the tie-breaks of the standings in `playoff_odds.py`.
3. Proofs: how far the greedy lineup can be from the best one when slots overlap in
   part, where only legality and NoSwapForTheWorse are promised today.
