------------------------------ MODULE AutoSync ------------------------------
(***************************************************************************)
(* The background scheduler of app/auto_sync.py.  uvicorn runs several     *)
(* worker processes and the loop exists in each of them, so a due league   *)
(* is claimed with a compare-and-swap on its auto_synced_at column before  *)
(* the claiming worker synchronises it.  The leagues table is the only     *)
(* thing the workers share.  What a synchronisation writes is the subject  *)
(* of LeagueSync; here it is a job that takes time and succeeds or fails.  *)
(***************************************************************************)
EXTENDS Integers, FiniteSets

CONSTANTS
  Workers,          \* uvicorn worker processes (the systemd unit asks for 2)
  Leagues,          \* ids of the rows of the leagues table
  Failures,         \* texts a failed job may leave in auto_sync_error
  None,             \* SQL NULL
  MinInterval,      \* MIN_INTERVAL_HOURS, in ticks of the clock
  MaxInterval,      \* MAX_INTERVAL_HOURS
  DefaultInterval,  \* DEFAULT_INTERVAL_HOURS
  PassSpan,         \* bound: ticks between the start and the end of one pass
  MaxTime,          \* bound: the last value of the clock
  MaxFaults,        \* bound: crashes and "database is locked" errors
  ReuseIds          \* whether SQLite gives a new row the id of a deleted one

ASSUME IntervalAssumption ==
  /\ MinInterval \in Nat \ {0}
  /\ MaxInterval \in Nat
  /\ DefaultInterval \in MinInterval .. MaxInterval

ASSUME BoundAssumption ==
  /\ PassSpan \in Nat
  /\ MaxTime \in Nat
  /\ MaxFaults \in Nat
  /\ ReuseIds \in BOOLEAN

ASSUME NoneAssumption == None \notin Nat /\ None \notin Leagues /\ None \notin Failures

VARIABLES
  clock,    \* datetime.utcnow()
  league,   \* the rows of the leagues table
  pass,     \* what each worker's scheduler task is doing
  faults,   \* crashes and lock time-outs so far
  settled   \* history: the attempt whose outcome each row last recorded

vars == <<clock, league, pass, faults, settled>>
-----------------------------------------------------------------------------
Times == 0 .. MaxTime
Stamp == Times \union {None}
Outcome == Failures \union {None}
Intervals == MinInterval .. MaxInterval

Row == [state : {"unused", "live", "deleted"}, enabled : BOOLEAN,
        interval : Intervals, stamp : Stamp, error : Outcome]

Pass == [at : {"sleeping", "listing", "claiming", "syncing", "outcome", "recording"},
         now : Times, due : SUBSET (Leagues \X Stamp), claimed : SUBSET Leagues,
         job : Leagues \union {None}, error : Outcome, seen : Outcome]

TypeOK ==
  /\ clock \in Times
  /\ league \in [Leagues -> Row]
  /\ pass \in [Workers -> Pass]
  /\ faults \in 0 .. MaxFaults
  /\ settled \in [Leagues -> Stamp]

NewRow == [state |-> "live", enabled |-> FALSE, interval |-> DefaultInterval,
           stamp |-> None, error |-> None]

Asleep == [at |-> "sleeping", now |-> 0, due |-> {}, claimed |-> {},
           job |-> None, error |-> None, seen |-> None]

Live(l) == league[l].state = "live"

\* Mutant: any number of hours is taken as it is.
Unclamped(hours) == hours

\* clamp_interval_hours: no interval means the default one.
Clamped(hours) ==
  IF hours = 0 THEN DefaultInterval
  ELSE IF hours < MinInterval THEN MinInterval
  ELSE IF hours > MaxInterval THEN MaxInterval
  ELSE hours

\* The test of _due_leagues on one row.
Due(l, now) ==
  /\ Live(l)
  /\ league[l].enabled
  /\ \/ league[l].stamp = None
     \/ league[l].stamp # None /\ now - league[l].stamp >= Clamped(league[l].interval)

\* The claims a worker has won and whose outcome it has not settled yet.
Held(w) == pass[w].claimed \union ({pass[w].job} \ {None})

InPass(w) == pass[w].at # "sleeping"

Init ==
  /\ clock = 0
  /\ league = [l \in Leagues |-> [NewRow EXCEPT !.state = "unused"]]
  /\ pass = [w \in Workers |-> Asleep]
  /\ faults = 0
  /\ settled = [l \in Leagues |-> None]
-----------------------------------------------------------------------------
(* Requests that change a row, from any API process.                       *)

\* The first sync of a league inserts its row, with auto-sync off.
CreateLeague(l) ==
  /\ league[l].state = "unused" \/ (league[l].state = "deleted" /\ ReuseIds)
  /\ league' = [league EXCEPT ![l] = NewRow]
  /\ settled' = [settled EXCEPT ![l] = None]
  /\ UNCHANGED <<clock, pass, faults>>

SetAutoSync(l, on, hours) ==
  /\ Live(l)
  /\ league' = [league EXCEPT
       ![l].enabled = on,
       ![l].interval = Clamped(hours),
       ![l].error = IF on THEN @ ELSE None]
  /\ UNCHANGED <<clock, pass, faults, settled>>

DeleteLeague(l) ==
  /\ Live(l)
  /\ league' = [league EXCEPT ![l] = [NewRow EXCEPT !.state = "deleted"]]
  /\ UNCHANGED <<clock, pass, faults, settled>>

\* Time passes; no pass lasts longer than PassSpan.
Tick ==
  /\ clock < MaxTime
  /\ \A w \in Workers : InPass(w) => clock - pass[w].now < PassSpan
  /\ clock' = clock + 1
  /\ UNCHANGED <<league, pass, faults, settled>>
-----------------------------------------------------------------------------
(* One worker's scheduler task.                                            *)

\* run_due_syncs takes the time once, for the whole pass.
Wake(w) ==
  /\ pass[w].at = "sleeping"
  /\ pass' = [pass EXCEPT ![w] = [Asleep EXCEPT !.at = "listing", !.now = clock]]
  /\ UNCHANGED <<clock, league, faults, settled>>

\* One query; the stamps it saw are what the claims compare against.
ListDue(w) ==
  /\ pass[w].at = "listing"
  /\ pass' = [pass EXCEPT
       ![w].at = "claiming",
       ![w].due = {<<l, league[l].stamp>> : l \in {k \in Leagues : Due(k, pass[w].now)}}]
  /\ UNCHANGED <<clock, league, faults, settled>>

\* Mutants: the update is by id alone; it compares with "= NULL".
WinsById(l, previous) == Live(l)
WinsWithoutNull(l, previous) == Live(l) /\ previous # None /\ league[l].stamp = previous

\* The WHERE clause of _claim: the row still has the stamp read before.
Wins(l, previous) == Live(l) /\ league[l].stamp = previous

Claim(w, l, previous) ==
  /\ pass[w].at = "claiming"
  /\ <<l, previous>> \in pass[w].due
  /\ league' = IF Wins(l, previous) THEN [league EXCEPT ![l].stamp = pass[w].now] ELSE league
  /\ pass' = [pass EXCEPT
       ![w].due = @ \ {<<l, previous>>},
       ![w].claimed = IF Wins(l, previous) THEN @ \union {l} ELSE @]
  /\ UNCHANGED <<clock, faults, settled>>

\* The next claimed league: a row gone in the meantime ends the job at once.
StartJob(w, l) ==
  /\ pass[w].at \in {"claiming", "syncing"}
  /\ pass[w].due = {}
  /\ pass[w].job = None
  /\ l \in pass[w].claimed
  /\ pass' = [pass EXCEPT
       ![w].at = "syncing",
       ![w].claimed = @ \ {l},
       ![w].job = IF Live(l) THEN l ELSE None]
  /\ UNCHANGED <<clock, league, faults, settled>>

\* sync_league returns, or raises and is caught and rolled back.
EndSync(w, error) ==
  /\ pass[w].at = "syncing"
  /\ pass[w].job # None
  /\ pass' = [pass EXCEPT ![w].at = "outcome", ![w].error = error]
  /\ UNCHANGED <<clock, league, faults, settled>>

\* Mutant: the claims behind the finished job are forgotten.
NextJobOfNone(p) ==
  [p EXCEPT !.at = "syncing", !.claimed = {}, !.job = None, !.error = None, !.seen = None]

NextJob(p) == [p EXCEPT !.at = "syncing", !.job = None, !.error = None, !.seen = None]

\* The row is read again before the outcome is stored in it.
ReadForOutcome(w) ==
  /\ pass[w].at = "outcome"
  /\ pass' = [pass EXCEPT ![w] =
       IF Live(pass[w].job)
       THEN [@ EXCEPT !.at = "recording", !.seen = league[pass[w].job].error]
       ELSE NextJob(@)]
  /\ UNCHANGED <<clock, league, faults, settled>>

\* The commit updates auto_sync_error only if it differs from the value read.
RecordOutcome(w) ==
  /\ pass[w].at = "recording"
  /\ LET l == pass[w].job
     IN  /\ Live(l) \/ pass[w].error = pass[w].seen
         /\ league' = IF pass[w].error = pass[w].seen THEN league
                      ELSE [league EXCEPT ![l].error = pass[w].error]
         /\ settled' = IF Live(l) /\ league[l].stamp = pass[w].now
                       THEN [settled EXCEPT ![l] = pass[w].now]
                       ELSE settled
         /\ pass' = [pass EXCEPT ![w] = NextJob(@)]
  /\ UNCHANGED <<clock, faults>>

\* An UPDATE that finds its row deleted raises StaleDataError, which nothing
\* in run_due_syncs catches: the claims not yet worked on are dropped.
RecordOnDeletedRow(w) ==
  /\ pass[w].at = "recording"
  /\ ~Live(pass[w].job)
  /\ pass[w].error # pass[w].seen
  /\ pass' = [pass EXCEPT ![w] = Asleep]
  /\ UNCHANGED <<clock, league, faults, settled>>

\* A write that waits 30 s for SQLite's lock raises "database is locked": in
\* _claim it loses the claims of this pass, in _sync_one the remaining jobs.
LockTimeout(w) ==
  /\ faults < MaxFaults
  /\ \/ pass[w].at = "claiming" /\ pass[w].due # {}
     \/ pass[w].at = "recording" /\ pass[w].error # pass[w].seen
  /\ faults' = faults + 1
  /\ pass' = [pass EXCEPT ![w] = Asleep]
  /\ UNCHANGED <<clock, league, settled>>

\* The worker process dies; its supervisor starts a new one.
Crash(w) ==
  /\ faults < MaxFaults
  /\ InPass(w)
  /\ faults' = faults + 1
  /\ pass' = [pass EXCEPT ![w] = Asleep]
  /\ UNCHANGED <<clock, league, settled>>

EndPass(w) ==
  /\ pass[w].at \in {"claiming", "syncing"}
  /\ pass[w].due = {} /\ pass[w].claimed = {} /\ pass[w].job = None
  /\ pass' = [pass EXCEPT ![w] = Asleep]
  /\ UNCHANGED <<clock, league, faults, settled>>
-----------------------------------------------------------------------------
\* What a worker does by itself, the unfinished business of its pass included.
Step(w) ==
  \/ Wake(w) \/ ListDue(w)
  \/ \E l \in Leagues, previous \in Stamp : Claim(w, l, previous)
  \/ \E l \in Leagues : StartJob(w, l)
  \/ \E error \in Outcome : EndSync(w, error)
  \/ ReadForOutcome(w) \/ RecordOutcome(w) \/ RecordOnDeletedRow(w)
  \/ EndPass(w)

Request ==
  \E l \in Leagues :
    \/ CreateLeague(l)
    \/ \E on \in BOOLEAN, hours \in 0 .. MaxInterval + 1 : SetAutoSync(l, on, hours)
    \/ DeleteLeague(l)

Next ==
  \/ Tick
  \/ Request
  \/ \E w \in Workers : Step(w) \/ LockTimeout(w) \/ Crash(w)

Spec == Init /\ [][Next]_vars

\* The event loop keeps running every worker's task; nothing is assumed of the
\* users, of the clock, or of faults.
FairSpec == Spec /\ \A w \in Workers : WF_vars(Step(w))
-----------------------------------------------------------------------------
\* A league is never attempted again before the shortest interval a user can
\* choose has passed, whatever the workers, the users and the faults do: the
\* compare-and-swap of _claim and the test of _due_leagues together.
AttemptsAreSpaced ==
  [][\A l \in Leagues :
       Live(l) /\ Live(l)' /\ league[l].stamp # None /\ league'[l].stamp # league[l].stamp
         => league'[l].stamp - league[l].stamp >= MinInterval]_vars

\* The docstring of _claim: a league is never synced twice concurrently.
NeverSyncedTwice ==
  \A v, w \in Workers : pass[v].job # None /\ pass[v].job = pass[w].job => v = w

\* No league is waiting or running in two workers' passes at once.
ClaimsAreExclusive ==
  \A v, w \in Workers : v # w => Held(v) \intersect Held(w) = {}

\* models.py on auto_sync_error: a league never quietly goes stale.  Every
\* attempt stamped on a row is still a worker's job or has left its outcome,
\* until a fault or the deletion of a league cuts a pass short.
AttemptsAreAccountedFor ==
  \A l \in Leagues : Live(l) /\ league[l].stamp # None =>
    \/ faults > 0
    \/ \E k \in Leagues : league[k].state = "deleted"
    \/ settled[l] = league[l].stamp
    \/ \E w \in Workers : l \in Held(w) /\ pass[w].now = league[l].stamp

\* A league that has come due is attempted, unless it is switched off, deleted
\* or given a longer interval first.
DueIsAttempted ==
  \A l \in Leagues : Due(l, clock) ~> ~Due(l, clock)
=============================================================================
