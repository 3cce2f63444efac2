--------------------------- MODULE Notifications ---------------------------
(***************************************************************************)
(* The notification pass of app/notifications.py.  After every round of    *)
(* syncs each worker's scheduler goes through the leagues whose owner has a *)
(* webhook, posts what is new, and stores in the league's notified column   *)
(* what it posted.  Unlike a sync, a pass claims nothing.                   *)
(***************************************************************************)
EXTENDS Integers, FiniteSets

CONSTANTS
  Workers,     \* processes whose scheduler runs notification passes
  Leagues,     \* ids of league rows of accounts with a webhook and a team set
  Problems,    \* fingerprints of the starters that need attention
  None,        \* SQL NULL; no problem; nothing posted yet
  Quiet,       \* bound: leagues to which nothing happens but their deletion
  MaxDigests,  \* bound: syncs that find changes, per league
  MaxFaults    \* bound: posts without a good answer, failed commits and crashes

ASSUME NotificationAssumption ==
  /\ MaxDigests \in Nat /\ MaxFaults \in Nat /\ IsFiniteSet(Workers)
  /\ None \notin Problems /\ None \notin Leagues /\ None \notin Nat

VARIABLES
  league,    \* league rows: the digest served and what was notified
  problem,   \* what get_roster_alerts would find for each league now
  pass,      \* each worker's pass
  sent,      \* messages the channel received: per league and digest
  alerted,   \* messages received about the current problem since it appeared
  told,      \* history: the problems the channel received a message about
  faults

vars == <<league, problem, pass, sent, alerted, told, faults>>
-----------------------------------------------------------------------------
Maybe(S) == S \union {None}
Digests == 1 .. MaxDigests

Notified == [alerts : Maybe(Problems), changes : Maybe(Digests)]
Row == [live : BOOLEAN, digest : Maybe(Digests), notified : Notified]

Pass == [at : {"idle", "next", "alerts", "changes", "save"},
         todo : SUBSET Leagues, loaded : Maybe([Leagues -> Row]),
         league : Maybe(Leagues), mine : Maybe(Row), already : Maybe(Notified)]

TypeOK ==
  /\ league \in [Leagues -> Row]
  /\ problem \in [Leagues -> Maybe(Problems)]
  /\ pass \in [Workers -> Pass]
  /\ sent \in [Leagues -> [Digests -> Nat]]
  /\ alerted \in [Leagues -> Nat]
  /\ told \in [Leagues -> SUBSET Problems]
  /\ faults \in 0 .. MaxFaults

Idle == [at |-> "idle", todo |-> {}, loaded |-> None, league |-> None,
         mine |-> None, already |-> None]

NothingSent == [alerts |-> None, changes |-> None]

Init ==
  /\ league = [l \in Leagues |-> [live |-> TRUE, digest |-> None, notified |-> NothingSent]]
  /\ problem = [l \in Leagues |-> None]
  /\ pass = [w \in Workers |-> Idle]
  /\ sent = [l \in Leagues |-> [d \in Digests |-> 0]]
  /\ alerted = [l \in Leagues |-> 0]
  /\ told = [l \in Leagues |-> {}]
  /\ faults = 0
-----------------------------------------------------------------------------
\* A sync stores a digest with items, known by its time.
NewDigest(l) ==
  /\ league[l].live /\ l \notin Quiet
  /\ LET last == IF league[l].digest = None THEN 0 ELSE league[l].digest
     IN  last < MaxDigests /\ league' = [league EXCEPT ![l].digest = last + 1]
  /\ UNCHANGED <<problem, pass, sent, alerted, told, faults>>

\* Starters get hurt, go on bye, recover or are replaced.
ProblemChanges(l, p) ==
  /\ league[l].live /\ problem[l] # p /\ l \notin Quiet
  /\ problem' = [problem EXCEPT ![l] = p]
  /\ alerted' = [alerted EXCEPT ![l] = 0]
  /\ UNCHANGED <<league, pass, sent, told, faults>>

\* With its teams gone, nothing is found for a league that is deleted.
DeleteLeague(l) ==
  /\ league[l].live
  /\ league' = [league EXCEPT ![l].live = FALSE]
  /\ problem' = [problem EXCEPT ![l] = None]
  /\ alerted' = [alerted EXCEPT ![l] = 0]
  /\ UNCHANGED <<pass, sent, told, faults>>
-----------------------------------------------------------------------------
\* One query loads every league of the pass.
StartPass(w) ==
  /\ pass[w].at = "idle"
  /\ pass' = [pass EXCEPT ![w] = [Idle EXCEPT
       !.at = "next",
       !.todo = {l \in Leagues : league[l].live},
       !.loaded = [l \in Leagues |-> [league[l] EXCEPT !.live = TRUE]]]]
  /\ UNCHANGED <<league, problem, sent, alerted, told, faults>>

\* notify_league begins.  Rows loaded at the start are still used unless a
\* commit of this pass has expired them: then they are read again.  (The model
\* forgets what it loaded with the last league, and that a league was live.)
TakeLeague(w, l) ==
  /\ pass[w].at = "next"
  /\ l \in pass[w].todo
  /\ pass[w].loaded # None \/ league[l].live
  /\ LET row == IF pass[w].loaded = None THEN league[l] ELSE pass[w].loaded[l]
     IN  pass' = [pass EXCEPT ![w] = [@ EXCEPT
           !.at = "alerts", !.todo = pass[w].todo \ {l}, !.league = l,
           !.loaded = IF pass[w].todo = {l} THEN None ELSE pass[w].loaded,
           !.mine = row, !.already = row.notified]]
  /\ UNCHANGED <<league, problem, sent, alerted, told, faults>>

\* A row that is gone raises when it is read, and the handler for that raises
\* once more when it logs the league's id: the pass is over.
TakeDeletedLeague(w, l) ==
  /\ pass[w].at = "next"
  /\ l \in pass[w].todo
  /\ pass[w].loaded = None /\ ~league[l].live
  /\ pass' = [pass EXCEPT ![w] = Idle]
  /\ UNCHANGED <<league, problem, sent, alerted, told, faults>>

\* A fingerprint or digest time other than the one recorded.
Unsent(already, key) == key # None /\ already # key

\* send_webhook says that a message landed only if the channel answers well and
\* in time.  Without such an answer it may have been received all the same.
Outcomes == {"confirmed", "unanswered", "failed"}
Arrives(outcome) == outcome # "failed"

\* Mutant: alerts are not recorded.
AlertsForgotten(already, key, landed) == already

\* Mutant: alerts are recorded whether or not the post landed.
AlertsRegardless(already, key, landed) == key

\* Mutant: what cleared up is not forgotten.
AlertsKept(already, key, landed) == IF landed THEN key ELSE already

AlertsAfter(already, key, landed) == IF key = None \/ landed THEN key ELSE already

ChangesAfter(already, key, landed) == IF landed THEN key ELSE already

\* Only a post can go wrong, and each time it does counts as a fault.
Attempt(posts, outcome) ==
  LET fault == outcome # "confirmed"
  IN  /\ fault => posts /\ faults < MaxFaults
      /\ faults' = IF fault THEN faults + 1 ELSE faults

\* A situation other than the one recorded is posted, and recorded if it
\* landed; one that cleared up is forgotten.
CheckAlerts(w, outcome) ==
  /\ pass[w].at = "alerts"
  /\ LET l == pass[w].league
         key == problem[l]
         posts == Unsent(pass[w].already.alerts, key)
         arrives == posts /\ Arrives(outcome)
     IN  /\ Attempt(posts, outcome)
         /\ alerted' = IF arrives THEN [alerted EXCEPT ![l] = @ + 1] ELSE alerted
         /\ told' = IF arrives THEN [told EXCEPT ![l] = @ \union {key}] ELSE told
         /\ pass' = [pass EXCEPT
              ![w].at = "changes",
              ![w].already.alerts = AlertsAfter(@, key, posts /\ outcome = "confirmed")]
  /\ UNCHANGED <<league, problem, sent>>

\* The digest is the one loaded with the row.
CheckChanges(w, outcome) ==
  /\ pass[w].at = "changes"
  /\ LET l == pass[w].league
         key == pass[w].mine.digest
         posts == Unsent(pass[w].already.changes, key)
     IN  /\ Attempt(posts, outcome)
         /\ sent' = IF posts /\ Arrives(outcome) THEN [sent EXCEPT ![l][key] = @ + 1] ELSE sent
         /\ pass' = [pass EXCEPT
              ![w].at = "save",
              ![w].already.changes = ChangesAfter(@, key, posts /\ outcome = "confirmed")]
  /\ UNCHANGED <<league, problem, alerted, told>>

\* The whole dictionary is written, if this pass changed it.
Save(w) ==
  /\ pass[w].at = "save"
  /\ LET l == pass[w].league
         p == pass[w]
         changed == p.already # p.mine.notified
     IN  IF changed /\ ~league[l].live
         THEN /\ pass' = [pass EXCEPT ![w] = Idle]
              /\ UNCHANGED league
         ELSE /\ league' = IF changed THEN [league EXCEPT ![l].notified = p.already] ELSE league
              /\ pass' = [pass EXCEPT ![w] = [Idle EXCEPT
                   !.at = "next", !.todo = p.todo, !.loaded = IF changed THEN None ELSE p.loaded]]
  /\ UNCHANGED <<problem, sent, alerted, told, faults>>

\* The commit waits too long for the lock: rolled back, on to the next league;
\* but logging the league's id reads the row again.
SaveFails(w) ==
  /\ faults < MaxFaults
  /\ pass[w].at = "save"
  /\ pass[w].already # pass[w].mine.notified
  /\ faults' = faults + 1
  /\ pass' = [pass EXCEPT ![w] = IF league[pass[w].league].live
                                  THEN [Idle EXCEPT !.at = "next", !.todo = pass[w].todo] ELSE Idle]
  /\ UNCHANGED <<league, problem, sent, alerted, told>>

Crash(w) ==
  /\ faults < MaxFaults
  /\ pass[w].at # "idle"
  /\ faults' = faults + 1
  /\ pass' = [pass EXCEPT ![w] = Idle]
  /\ UNCHANGED <<league, problem, sent, alerted, told>>

EndPass(w) ==
  /\ pass[w].at = "next"
  /\ pass[w].todo = {}
  /\ pass' = [pass EXCEPT ![w] = Idle]
  /\ UNCHANGED <<league, problem, sent, alerted, told, faults>>
-----------------------------------------------------------------------------
Step(w) ==
  \/ StartPass(w)
  \/ \E l \in Leagues : TakeLeague(w, l) \/ TakeDeletedLeague(w, l)
  \/ \E outcome \in Outcomes : CheckAlerts(w, outcome) \/ CheckChanges(w, outcome)
  \/ Save(w) \/ EndPass(w)

Next ==
  \/ \E l \in Leagues :
       \/ NewDigest(l) \/ DeleteLeague(l)
       \/ \E p \in Maybe(Problems) : ProblemChanges(l, p)
  \/ \E w \in Workers : Step(w) \/ SaveFails(w) \/ Crash(w)

Spec == Init /\ [][Next]_vars

\* Each worker's scheduler keeps making passes; posts time out after 10 s.
FairSpec == Spec /\ \A w \in Workers : WF_vars(Step(w))
-----------------------------------------------------------------------------
\* Twice the messages there may be about one thing.  Each of n workers may
\* still write back one old record; those that did, k after the k-th, may each
\* post once more.  A post that fails can leave a worker with an old record
\* again, and one that only went unanswered is a message by itself.
Allowed == LET n == Cardinality(Workers) IN n * (n + 1) + 2 * faults * n

\* notify_league: what was sent is recorded, so it isn't sent again; fingerprint:
\* the same problem isn't re-sent every time the scheduler wakes up.  Workers
\* whose passes overlap repeat a message, and may write the record back as it
\* was; after that only a fault costs repetitions, however many passes follow.
RepeatsAreBounded ==
  \A l \in Leagues :
    2 * alerted[l] <= Allowed /\ \A d \in Digests : 2 * sent[l][d] <= Allowed

\* No alert and no digest is recorded as notified that the channel never
\* received: posts that fail, answers and commits that are lost, crashes and
\* overlapping passes cost a repetition, not a message.
RecordedWasSent ==
  \A l \in Leagues : LET record == league[l].notified IN
    /\ record.alerts # None => record.alerts \in told[l]
    /\ record.changes # None => sent[l][record.changes] >= 1

\* The channel has heard of problem p since it appeared, or the record says so
\* of an earlier time and it is true; that there is no problem is on record.
Settled(l, p) ==
  IF p = None THEN league[l].notified.alerts = None
  ELSE alerted[l] > 0 \/ (league[l].notified.alerts = p /\ p \in told[l])

\* A problem that stays is reported in the end, however often posts fail; one
\* that stays away is forgotten in the end, so that the next one notifies.
StandingProblemIsReported ==
  \A l \in Leagues \ Quiet, p \in Maybe(Problems) :
    problem[l] = p ~> Settled(l, p) \/ problem[l] # p \/ ~league[l].live
=============================================================================
