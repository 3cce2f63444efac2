--------------------------- MODULE AutoSyncProofs ---------------------------
(***************************************************************************)
(* Proofs about AutoSync for every number of workers and leagues, every    *)
(* interval bound and every length of the clock.                           *)
(***************************************************************************)
EXTENDS AutoSync, TLAPS

\* Every interval used for a due test is at least the shortest one.
LEMMA ClampedInRange ==
  ASSUME NEW hours \in Nat
  PROVE  Clamped(hours) \in Intervals
BY IntervalAssumption DEF Clamped, Intervals

\* While its outcome is being stored a job is a league's.
JobInv == \A w \in Workers : pass[w].at \in {"outcome", "recording"} => pass[w].job \in Leagues

TypeInv == TypeOK /\ JobInv

LEMMA InitTypeOK == Init => TypeInv
<1> SUFFICES ASSUME Init PROVE TypeInv
  OBVIOUS
<1>1. [NewRow EXCEPT !.state = "unused"] \in Row
  BY IntervalAssumption DEF NewRow, Row, Intervals, Stamp, Outcome
<1>2. Asleep \in Pass
  BY BoundAssumption DEF Asleep, Pass, Times, Outcome
<1>3. QED
  BY <1>1, <1>2, BoundAssumption DEF Init, TypeInv, JobInv, TypeOK, Times, Stamp, Asleep

LEMMA NextTypeOK == TypeInv /\ [Next]_vars => TypeOK'
<1> SUFFICES ASSUME TypeOK, JobInv, [Next]_vars PROVE TypeOK'
  BY DEF TypeInv
<1> USE DEF TypeOK
<1>row. NewRow \in Row /\ [NewRow EXCEPT !.state = "deleted"] \in Row
  BY IntervalAssumption DEF NewRow, Row, Intervals, Stamp, Outcome
<1>asleep. Asleep \in Pass
  BY BoundAssumption DEF Asleep, Pass, Times, Outcome
<1>next. \A w \in Workers : NextJob(pass[w]) \in Pass
  BY DEF NextJob, Pass, Outcome
<1>1. CASE Tick
  BY <1>1, BoundAssumption DEF Tick, Times
<1>2. ASSUME NEW l \in Leagues, CreateLeague(l) PROVE TypeOK'
  BY <1>2, <1>row DEF CreateLeague, Stamp
<1>3. ASSUME NEW l \in Leagues, NEW on \in BOOLEAN,
             NEW hours \in 0 .. MaxInterval + 1, SetAutoSync(l, on, hours)
      PROVE  TypeOK'
  <2>1. Clamped(hours) \in Intervals
    BY ClampedInRange, IntervalAssumption
  <2> DEFINE row == [league[l] EXCEPT !.enabled = on, !.interval = Clamped(hours),
                                      !.error = IF on THEN @ ELSE None]
  <2>2. row \in Row
    <3>1. (IF on THEN league[l].error ELSE None) \in Outcome
      BY DEF Row, Outcome
    <3>2. QED
      BY <2>1, <3>1 DEF Row
  <2>3. league' = [league EXCEPT ![l] = row]
    BY <1>3 DEF SetAutoSync
  <2>4. league' \in [Leagues -> Row]
    <3> HIDE DEF row
    <3> QED BY <2>2, <2>3
  <2>5. QED
    BY <1>3, <2>4 DEF SetAutoSync
<1>4. ASSUME NEW l \in Leagues, DeleteLeague(l) PROVE TypeOK'
  BY <1>4, <1>row DEF DeleteLeague
<1>5. ASSUME NEW w \in Workers, Wake(w) PROVE TypeOK'
  <2>1. [Asleep EXCEPT !.at = "listing", !.now = clock] \in Pass
    BY <1>asleep DEF Pass, Asleep
  <2>2. QED
    BY <1>5, <2>1 DEF Wake
<1>6. ASSUME NEW w \in Workers, ListDue(w) PROVE TypeOK'
  <2> DEFINE found == {<<l, league[l].stamp>> : l \in {k \in Leagues : Due(k, pass[w].now)}}
  <2>1. found \in SUBSET (Leagues \X Stamp)
    BY DEF Row
  <2>2. [pass[w] EXCEPT !.at = "claiming", !.due = found] \in Pass
    <3> HIDE DEF found
    <3> QED BY <2>1 DEF Pass
  <2>3. pass' = [pass EXCEPT ![w] = [pass[w] EXCEPT !.at = "claiming", !.due = found]]
    BY <1>6 DEF ListDue
  <2>4. QED
    <3> HIDE DEF found
    <3> QED BY <1>6, <2>2, <2>3 DEF ListDue
<1>7. ASSUME NEW w \in Workers, NEW l \in Leagues, NEW previous \in Stamp,
             Claim(w, l, previous)
      PROVE  TypeOK'
  <2>1. league' \in [Leagues -> Row]
    <3>1. [league[l] EXCEPT !.stamp = pass[w].now] \in Row
      BY DEF Row, Pass, Stamp
    <3>2. league' \in {league, [league EXCEPT ![l] = [league[l] EXCEPT !.stamp = pass[w].now]]}
      BY <1>7 DEF Claim, Wins
    <3>3. QED
      BY <3>1, <3>2
  <2>2. pass' \in [Workers -> Pass]
    <3>1. PICK claims \in {pass[w].claimed, pass[w].claimed \union {l}} :
            pass' = [pass EXCEPT ![w] = [pass[w] EXCEPT !.due = @ \ {<<l, previous>>},
                                                        !.claimed = claims]]
      BY <1>7 DEF Claim, Wins
    <3>2. claims \in SUBSET Leagues
      BY DEF Pass
    <3>3. [pass[w] EXCEPT !.due = @ \ {<<l, previous>>}, !.claimed = claims] \in Pass
      BY <3>2 DEF Pass
    <3>4. QED
      BY <3>1, <3>3
  <2>3. QED
    BY <1>7, <2>1, <2>2 DEF Claim, Wins
<1>8. ASSUME NEW w \in Workers, NEW l \in Leagues, StartJob(w, l) PROVE TypeOK'
  BY <1>8 DEF StartJob, Pass
<1>9. ASSUME NEW w \in Workers, NEW error \in Outcome, EndSync(w, error) PROVE TypeOK'
  <2>1. [pass[w] EXCEPT !.at = "outcome", !.error = error] \in Pass
    BY DEF Pass
  <2>2. pass' = [pass EXCEPT ![w] = [pass[w] EXCEPT !.at = "outcome", !.error = error]]
    BY <1>9 DEF EndSync
  <2>3. QED
    BY <1>9, <2>1, <2>2 DEF EndSync
<1>10. ASSUME NEW w \in Workers, ReadForOutcome(w) PROVE TypeOK'
  <2>1. CASE Live(pass[w].job)
    <3>1. pass[w].job \in Leagues
      BY <1>10 DEF JobInv, ReadForOutcome
    <3>2. pass' = [pass EXCEPT ![w] = [pass[w] EXCEPT !.at = "recording",
                                                     !.seen = league[pass[w].job].error]]
      BY <1>10, <2>1 DEF ReadForOutcome
    <3>3. [pass[w] EXCEPT !.at = "recording", !.seen = league[pass[w].job].error] \in Pass
      BY <3>1 DEF Pass, Row
    <3>4. QED
      BY <1>10, <3>2, <3>3 DEF ReadForOutcome
  <2>2. CASE ~Live(pass[w].job)
    BY <1>10, <2>2, <1>next DEF ReadForOutcome
  <2>3. QED
    BY <2>1, <2>2
<1>11. ASSUME NEW w \in Workers, RecordOutcome(w) PROVE TypeOK'
  <2>1. league' \in [Leagues -> Row]
    <3> DEFINE l == pass[w].job
    <3>1. l \in Leagues
      BY <1>11 DEF JobInv, RecordOutcome
    <3>2. [league[l] EXCEPT !.error = pass[w].error] \in Row
      BY <3>1 DEF Row, Pass
    <3>3. league' \in {league, [league EXCEPT ![l] = [league[l] EXCEPT !.error = pass[w].error]]}
      BY <1>11 DEF RecordOutcome
    <3>4. QED
      BY <3>1, <3>2, <3>3
  <2>2. pass' \in [Workers -> Pass]
    BY <1>11, <1>next DEF RecordOutcome
  <2>3. settled' \in [Leagues -> Stamp]
    BY <1>11 DEF RecordOutcome, Pass, Stamp
  <2>4. QED
    BY <1>11, <2>1, <2>2, <2>3 DEF RecordOutcome
<1>12. ASSUME NEW w \in Workers, RecordOnDeletedRow(w) PROVE TypeOK'
  BY <1>12, <1>asleep DEF RecordOnDeletedRow
<1>13. ASSUME NEW w \in Workers, LockTimeout(w) PROVE TypeOK'
  BY <1>13, <1>asleep, BoundAssumption DEF LockTimeout
<1>14. ASSUME NEW w \in Workers, Crash(w) PROVE TypeOK'
  BY <1>14, <1>asleep, BoundAssumption DEF Crash
<1>15. ASSUME NEW w \in Workers, EndPass(w) PROVE TypeOK'
  BY <1>15, <1>asleep DEF EndPass
<1>16. CASE UNCHANGED vars
  BY <1>16 DEF vars
<1>17. QED
  BY <1>1, <1>2, <1>3, <1>4, <1>5, <1>6, <1>7, <1>8, <1>9, <1>10, <1>11,
     <1>12, <1>13, <1>14, <1>15, <1>16 DEF Next, Request, Step

LEMMA NextJobInv == TypeInv /\ [Next]_vars => JobInv'
<1> SUFFICES ASSUME TypeOK, JobInv, [Next]_vars PROVE JobInv'
  BY DEF TypeInv
<1> USE DEF TypeOK, JobInv
<1>1. CASE Tick \/ UNCHANGED vars
  BY <1>1 DEF Tick, vars
<1>2. CASE Request
  BY <1>2 DEF Request, CreateLeague, SetAutoSync, DeleteLeague
<1>3. ASSUME NEW w \in Workers, Step(w) \/ LockTimeout(w) \/ Crash(w) PROVE JobInv'
  <2>0. CASE Wake(w)
    <3>1. [Asleep EXCEPT !.at = "listing", !.now = clock].at = "listing"
      BY DEF Asleep
    <3>2. QED
      BY <2>0, <3>1 DEF Wake
  <2>1. CASE ListDue(w)
    BY <2>1 DEF ListDue, Pass
  <2>2. ASSUME NEW l \in Leagues, NEW previous \in Stamp, Claim(w, l, previous)
        PROVE  JobInv'
    <3>1. \A v \in Workers : pass'[v].at = pass[v].at /\ pass'[v].job = pass[v].job
      BY <2>2 DEF Claim, Wins, Pass
    <3>2. QED
      BY <3>1
  <2>3. ASSUME NEW l \in Leagues, StartJob(w, l) PROVE JobInv'
    BY <2>3 DEF StartJob, Pass
  <2>4. ASSUME NEW error \in Outcome, EndSync(w, error) PROVE JobInv'
    BY <2>4 DEF EndSync, Pass
  <2>5. CASE ReadForOutcome(w)
    <3>1. pass[w].job \in Leagues
      BY <2>5 DEF ReadForOutcome
    <3>2. \/ pass' = [pass EXCEPT ![w] = NextJob(pass[w])]
          \/ pass' = [pass EXCEPT ![w] = [pass[w] EXCEPT !.at = "recording",
                                                  !.seen = league[pass[w].job].error]]
      BY <2>5 DEF ReadForOutcome
    <3>3. CASE pass' = [pass EXCEPT ![w] = NextJob(pass[w])]
      BY <3>3 DEF NextJob, Pass
    <3>4. CASE pass' = [pass EXCEPT ![w] = [pass[w] EXCEPT !.at = "recording",
                                                  !.seen = league[pass[w].job].error]]
      BY <3>1, <3>4 DEF Pass
    <3>5. QED
      BY <3>2, <3>3, <3>4
  <2>6. CASE RecordOutcome(w)
    BY <2>6 DEF RecordOutcome, NextJob, Pass
  <2>7. CASE LockTimeout(w) \/ Crash(w) \/ EndPass(w) \/ RecordOnDeletedRow(w)
    <3>1. pass' = [pass EXCEPT ![w] = Asleep]
      BY <2>7 DEF LockTimeout, Crash, EndPass, RecordOnDeletedRow
    <3>2. QED
      BY <3>1 DEF Asleep
  <2>8. QED
    BY <1>3, <2>0, <2>1, <2>2, <2>3, <2>4, <2>5, <2>6, <2>7 DEF Step
<1>4. QED
  BY <1>1, <1>2, <1>3 DEF Next

LEMMA TypeInvariant == Spec => []TypeInv
<1>1. Init => TypeInv
  BY InitTypeOK
<1>2. TypeInv /\ [Next]_vars => TypeInv'
  BY NextTypeOK, NextJobInv DEF TypeInv
<1>3. QED
  BY <1>1, <1>2, PTL DEF Spec

\* Every reachable state is well typed; in particular an interval stored in a
\* row always lies between the shortest and the longest one.
THEOREM TypeCorrect == Spec => []TypeOK
<1>1. TypeInv => TypeOK
  BY DEF TypeInv
<1>2. QED
  BY TypeInvariant, <1>1, PTL
-----------------------------------------------------------------------------
\* A stamp a worker found old enough when it listed the due leagues is old
\* enough at its claims, which are stamped with the time the list was made for.
DueInv ==
  \A w \in Workers : \A d \in pass[w].due :
    d[2] # None => pass[w].now - d[2] >= MinInterval

LEMMA InitDueInv == Init => DueInv
BY DEF Init, DueInv, Asleep

LEMMA NextDueInv == TypeInv /\ DueInv /\ [Next]_vars => DueInv'
<1> SUFFICES ASSUME TypeOK, JobInv, DueInv, [Next]_vars PROVE DueInv'
  BY DEF TypeInv
<1> USE DEF TypeOK
<1>1. ASSUME NEW w \in Workers, ListDue(w) PROVE DueInv'
  <2>1. pass'[w].now = pass[w].now
    BY <1>1 DEF ListDue, Pass
  <2>2. \A v \in Workers \ {w} : pass'[v] = pass[v]
    BY <1>1 DEF ListDue
  <2>3. ASSUME NEW d \in pass'[w].due, d[2] # None
        PROVE  pass[w].now - d[2] >= MinInterval
    <3>1. PICK l \in Leagues : Due(l, pass[w].now) /\ d = <<l, league[l].stamp>>
      BY <1>1, <2>3 DEF ListDue, Pass
    <3>2. league[l].interval \in Intervals /\ league[l].stamp \in Nat
      BY <3>1, <2>3 DEF Row, Stamp, Times
    <3>3. Clamped(league[l].interval) \in Intervals
      BY <3>2, ClampedInRange, IntervalAssumption DEF Intervals
    <3>4. pass[w].now \in Nat
      BY DEF Pass, Times
    <3>5. QED
      BY <3>1, <3>2, <3>3, <3>4, <2>3, IntervalAssumption DEF Due, Intervals
  <2>4. QED
    BY <2>1, <2>2, <2>3 DEF DueInv
<1>2. ASSUME \A w \in Workers : \/ pass'[w].due \subseteq pass[w].due /\ pass'[w].now = pass[w].now
                                \/ pass'[w].due = {}
      PROVE  DueInv'
  BY <1>2 DEF DueInv
<1>3. CASE Tick \/ Request \/ UNCHANGED vars
  BY <1>2, <1>3 DEF Tick, Request, CreateLeague, SetAutoSync, DeleteLeague, vars
<1>4. ASSUME NEW w \in Workers, pass' = [pass EXCEPT ![w] = pass'[w]],
             \/ pass'[w].due \subseteq pass[w].due /\ pass'[w].now = pass[w].now
             \/ pass'[w].due = {}
      PROVE  DueInv'
  BY <1>2, <1>4
<1>5. ASSUME NEW w \in Workers, Wake(w) PROVE DueInv'
  BY <1>4, <1>5 DEF Wake, Asleep
<1>6. ASSUME NEW w \in Workers, NEW l \in Leagues, NEW previous \in Stamp,
             Claim(w, l, previous)
      PROVE  DueInv'
  BY <1>4, <1>6 DEF Claim, Wins, Pass
<1>7. ASSUME NEW w \in Workers, NEW l \in Leagues, StartJob(w, l) PROVE DueInv'
  BY <1>4, <1>7 DEF StartJob, Pass
<1>8. ASSUME NEW w \in Workers, NEW error \in Outcome, EndSync(w, error) PROVE DueInv'
  BY <1>4, <1>8 DEF EndSync, Pass
<1>9. ASSUME NEW w \in Workers, ReadForOutcome(w) \/ RecordOutcome(w) PROVE DueInv'
  <2>1. \/ pass' = [pass EXCEPT ![w] = NextJob(pass[w])]
        \/ pass' = [pass EXCEPT ![w] = [pass[w] EXCEPT !.at = "recording",
                                                !.seen = league[pass[w].job].error]]
    BY <1>9 DEF ReadForOutcome, RecordOutcome
  <2>2. /\ NextJob(pass[w]).due = pass[w].due
        /\ NextJob(pass[w]).now = pass[w].now
    BY DEF NextJob, Pass
  <2>3. /\ pass' = [pass EXCEPT ![w] = pass'[w]]
        /\ pass'[w].due = pass[w].due
        /\ pass'[w].now = pass[w].now
    <3>1. CASE pass' = [pass EXCEPT ![w] = NextJob(pass[w])]
      BY <3>1, <2>2
    <3>2. CASE pass' = [pass EXCEPT ![w] = [pass[w] EXCEPT !.at = "recording",
                                                  !.seen = league[pass[w].job].error]]
      BY <3>2 DEF Pass
    <3>3. QED
      BY <2>1, <3>1, <3>2
  <2>4. QED
    BY <1>4, <2>3
<1>10. ASSUME NEW w \in Workers,
              RecordOnDeletedRow(w) \/ LockTimeout(w) \/ Crash(w) \/ EndPass(w)
       PROVE  DueInv'
  BY <1>4, <1>10 DEF RecordOnDeletedRow, LockTimeout, Crash, EndPass, Asleep
<1>11. QED
  BY <1>1, <1>3, <1>5, <1>6, <1>7, <1>8, <1>9, <1>10 DEF Next, Step

\* Between two attempts of one league at least the shortest interval passes:
\* the compare-and-swap accepts only the stamp the due test was made on.
THEOREM Spacing == Spec => AttemptsAreSpaced
<1> DEFINE Spaced == \A l \in Leagues :
      Live(l) /\ Live(l)' /\ league[l].stamp # None /\ league'[l].stamp # league[l].stamp
        => league'[l].stamp - league[l].stamp >= MinInterval
<1>1. TypeInv /\ DueInv /\ [Next]_vars => Spaced
  <2> SUFFICES ASSUME TypeOK, DueInv, [Next]_vars, NEW k \in Leagues,
                      Live(k), Live(k)', league[k].stamp # None,
                      league'[k].stamp # league[k].stamp
               PROVE  league'[k].stamp - league[k].stamp >= MinInterval
    BY DEF TypeInv
  <2> USE DEF TypeOK
  <2>1. ASSUME NEW w \in Workers, NEW l \in Leagues, NEW previous \in Stamp,
               Claim(w, l, previous)
        PROVE  league'[k].stamp - league[k].stamp >= MinInterval
    <3>1. k = l /\ league[l].stamp = previous /\ league'[l].stamp = pass[w].now
      BY <2>1 DEF Claim, Wins, Row
    <3>2. <<l, previous>> \in pass[w].due
      BY <2>1 DEF Claim, Wins
    <3>3. QED
      BY <3>1, <3>2 DEF DueInv
  <2>2. ASSUME NEW l \in Leagues, CreateLeague(l) PROVE FALSE
    BY <2>2 DEF CreateLeague, Live
  <2>3. ASSUME NEW l \in Leagues, NEW on \in BOOLEAN,
               NEW hours \in 0 .. MaxInterval + 1, SetAutoSync(l, on, hours)
        PROVE  FALSE
    BY <2>3 DEF SetAutoSync, Row
  <2>4. ASSUME NEW l \in Leagues, DeleteLeague(l) PROVE FALSE
    BY <2>4 DEF DeleteLeague, Live
  <2>5. ASSUME NEW w \in Workers, RecordOutcome(w) PROVE FALSE
    BY <2>5 DEF RecordOutcome, Row
  <2>6. CASE UNCHANGED league
    BY <2>6
  <2>7. QED
    BY <2>1, <2>2, <2>3, <2>4, <2>5, <2>6 DEF Next, Request, Step, vars, Tick, Wake, ListDue,
       StartJob, EndSync, ReadForOutcome, RecordOnDeletedRow, LockTimeout, Crash, EndPass
<1>2. Spec => [](TypeInv /\ DueInv)
  BY TypeInvariant, InitDueInv, NextDueInv, PTL DEF Spec
<1>3. AttemptsAreSpaced <=> [][Spaced]_vars
  BY DEF AttemptsAreSpaced
<1> HIDE DEF Spaced
<1>4. QED
  BY <1>1, <1>2, <1>3, PTL DEF Spec
-----------------------------------------------------------------------------
\* No pass started later than now or more than PassSpan ago.
SpanInv ==
  \A w \in Workers : InPass(w) => pass[w].now <= clock /\ clock - pass[w].now <= PassSpan

\* Outside its pass a worker holds nothing.
IdleInv == \A w \in Workers : ~InPass(w) => Held(w) = {}

\* A league a worker holds bears a stamp at least as late as the worker's own:
\* its claim wrote it, and stamps only grow.
HeldInv ==
  \A w \in Workers : \A l \in Held(w) :
    /\ league[l].state # "unused"
    /\ Live(l) => league[l].stamp # None /\ pass[w].now <= league[l].stamp

ExclusionInv == DueInv /\ SpanInv /\ IdleInv /\ HeldInv /\ ClaimsAreExclusive

LEMMA InitExclusionInv == Init => ExclusionInv
BY DEF Init, ExclusionInv, DueInv, SpanInv, IdleInv, HeldInv, ClaimsAreExclusive,
       InPass, Held, Asleep

\* Every step of a worker other than Claim leaves it, after the step, asleep
\* with nothing held, or at the start of a pass, or with no more than it held.
LEMMA NoNewClaims ==
  ASSUME TypeInv, NEW w \in Workers,
         \/ Wake(w) \/ ListDue(w)
         \/ \E l \in Leagues : StartJob(w, l)
         \/ \E error \in Outcome : EndSync(w, error)
         \/ ReadForOutcome(w) \/ RecordOutcome(w) \/ RecordOnDeletedRow(w)
         \/ LockTimeout(w) \/ Crash(w) \/ EndPass(w)
  PROVE  /\ pass' = [pass EXCEPT ![w] = pass'[w]]
         /\ \/ pass'[w] = Asleep
            \/ pass'[w] = [Asleep EXCEPT !.at = "listing", !.now = clock]
            \/ InPass(w) /\ InPass(w)' /\ Held(w)' \subseteq Held(w) /\ pass'[w].now = pass[w].now
         /\ UNCHANGED clock
<1> USE DEF TypeInv, TypeOK
<1>1. CASE Wake(w)
  BY <1>1 DEF Wake
<1>2. CASE ListDue(w)
  BY <1>2 DEF ListDue, InPass, Held, Pass
<1>3. ASSUME NEW l \in Leagues, StartJob(w, l)
      PROVE  /\ pass' = [pass EXCEPT ![w] = pass'[w]]
             /\ InPass(w) /\ InPass(w)' /\ Held(w)' \subseteq Held(w) /\ pass'[w].now = pass[w].now
             /\ UNCHANGED clock
  <2>1. PICK job \in {l, None} :
          pass' = [pass EXCEPT ![w] = [pass[w] EXCEPT !.at = "syncing", !.claimed = @ \ {l}, !.job = job]]
    BY <1>3 DEF StartJob
  <2>2. /\ pass' = [pass EXCEPT ![w] = pass'[w]] /\ pass'[w].at = "syncing"
        /\ pass'[w].claimed = pass[w].claimed \ {l} /\ pass'[w].job = job
        /\ pass'[w].now = pass[w].now
    BY <2>1 DEF Pass
  <2>3. pass[w].at \in {"claiming", "syncing"} /\ l \in pass[w].claimed /\ UNCHANGED clock
    BY <1>3 DEF StartJob
  <2>4. InPass(w) /\ InPass(w)'
    BY <2>2, <2>3 DEF InPass
  <2>5. Held(w)' \subseteq Held(w)
    BY <2>1, <2>2, <2>3 DEF Held
  <2>6. QED
    BY <2>2, <2>3, <2>4, <2>5
<1>4. ASSUME NEW error \in Outcome, EndSync(w, error)
      PROVE  /\ pass' = [pass EXCEPT ![w] = pass'[w]]
             /\ InPass(w) /\ InPass(w)' /\ Held(w)' \subseteq Held(w) /\ pass'[w].now = pass[w].now
             /\ UNCHANGED clock
  BY <1>4 DEF EndSync, InPass, Held, Pass
<1>5. CASE ReadForOutcome(w) \/ RecordOutcome(w)
  <2>1. CASE pass' = [pass EXCEPT ![w] = NextJob(pass[w])]
    BY <1>5, <2>1 DEF ReadForOutcome, RecordOutcome, NextJob, InPass, Held, Pass
  <2>2. CASE pass' = [pass EXCEPT ![w] = [pass[w] EXCEPT !.at = "recording",
                                                !.seen = league[pass[w].job].error]]
    BY <1>5, <2>2 DEF ReadForOutcome, RecordOutcome, InPass, Held, Pass
  <2>3. QED
    BY <1>5, <2>1, <2>2 DEF ReadForOutcome, RecordOutcome
<1>6. CASE RecordOnDeletedRow(w) \/ LockTimeout(w) \/ Crash(w) \/ EndPass(w)
  BY <1>6 DEF RecordOnDeletedRow, LockTimeout, Crash, EndPass
<1>7. QED
  BY <1>1, <1>2, <1>3, <1>4, <1>5, <1>6

LEMMA NextExclusionInv ==
  ASSUME PassSpan < MinInterval, ~ReuseIds, TypeInv, ExclusionInv, [Next]_vars
  PROVE  ExclusionInv'
<1> USE DEF TypeInv, TypeOK
<1>due. DueInv'
  BY NextDueInv DEF ExclusionInv
<1>times. clock \in Nat /\ \A w \in Workers : pass[w].now \in Nat
  BY DEF Pass, Times
\* Steps that claim nothing: what every row shows to a holder is unchanged.
<1> DEFINE RowsKept == \A l \in Leagues :
      /\ league[l].state # "unused" => league'[l].state # "unused"
      /\ Live(l)' => league[l].state = "unused" \/ (Live(l) /\ league'[l].stamp = league[l].stamp)
<1>1. ASSUME NEW w \in Workers,
             \/ Wake(w) \/ ListDue(w)
             \/ \E l \in Leagues : StartJob(w, l)
             \/ \E error \in Outcome : EndSync(w, error)
             \/ ReadForOutcome(w) \/ RecordOutcome(w) \/ RecordOnDeletedRow(w)
             \/ LockTimeout(w) \/ Crash(w) \/ EndPass(w)
      PROVE  ExclusionInv'
  <2>1. RowsKept
    <3>1. CASE UNCHANGED league
      BY <3>1 DEF Live
    <3>2. CASE RecordOutcome(w)
      BY <3>2 DEF RecordOutcome, Live, Row
    <3>3. QED
      BY <1>1, <3>1, <3>2 DEF Wake, ListDue, StartJob, EndSync, ReadForOutcome,
         RecordOnDeletedRow, LockTimeout, Crash, EndPass
  <2>2. /\ pass' = [pass EXCEPT ![w] = pass'[w]]
        /\ \/ pass'[w] = Asleep
           \/ pass'[w] = [Asleep EXCEPT !.at = "listing", !.now = clock]
           \/ InPass(w) /\ InPass(w)' /\ Held(w)' \subseteq Held(w) /\ pass'[w].now = pass[w].now
        /\ UNCHANGED clock
    BY <1>1, NoNewClaims
  <2>3. \A v \in Workers \ {w} : pass'[v] = pass[v] /\ Held(v)' = Held(v) /\ InPass(v)' = InPass(v)
    BY <2>2 DEF Held, InPass
  <2>4. \/ Held(w)' = {} /\ (InPass(w)' => pass'[w].now = clock)
        \/ InPass(w) /\ InPass(w)' /\ Held(w)' \subseteq Held(w) /\ pass'[w].now = pass[w].now
    <3>1. CASE pass'[w] = Asleep
      BY <3>1 DEF Held, InPass, Asleep
    <3>2. CASE pass'[w] = [Asleep EXCEPT !.at = "listing", !.now = clock]
      BY <3>2 DEF Held, InPass, Asleep
    <3>3. QED
      BY <2>2, <3>1, <3>2
  <2>5. SpanInv'
    BY <2>2, <2>3, <2>4, <1>times, BoundAssumption DEF ExclusionInv, SpanInv
  <2>6. IdleInv'
    BY <2>3, <2>4 DEF ExclusionInv, IdleInv
  <2>7. HeldInv'
    <3> SUFFICES ASSUME NEW v \in Workers, NEW l \in Held(v)'
                 PROVE  /\ league'[l].state # "unused"
                        /\ Live(l)' => league'[l].stamp # None /\ pass'[v].now <= league'[l].stamp
      BY DEF HeldInv
    <3>1. l \in Held(v) /\ pass'[v].now = pass[v].now
      BY <2>3, <2>4
    <3>2. l \in Leagues
      BY <3>1 DEF Held, Pass
    <3>3. QED
      BY <2>1, <3>1, <3>2 DEF ExclusionInv, HeldInv
  <2>8. ClaimsAreExclusive'
    BY <2>3, <2>4 DEF ExclusionInv, ClaimsAreExclusive
  <2>9. QED
    BY <1>due, <2>5, <2>6, <2>7, <2>8 DEF ExclusionInv
<1>2. ASSUME NEW w \in Workers, NEW l \in Leagues, NEW previous \in Stamp, Claim(w, l, previous)
      PROVE  ExclusionInv'
  <2>1. /\ \A v \in Workers : InPass(v)' = InPass(v) /\ pass'[v].now = pass[v].now
        /\ \A v \in Workers \ {w} : Held(v)' = Held(v)
        /\ InPass(w)
        /\ UNCHANGED clock
    BY <1>2 DEF Claim, Wins, InPass, Held, Pass
  <2>2. SpanInv' /\ IdleInv'
    BY <2>1 DEF ExclusionInv, SpanInv, IdleInv
  <2>3. CASE Live(l) /\ league[l].stamp = previous
    <3>1. /\ league' = [league EXCEPT ![l].stamp = pass[w].now]
          /\ Held(w)' = Held(w) \union {l}
      BY <1>2, <2>3 DEF Claim, Wins, Held, Pass
    <3>2. previous # None => pass[w].now - previous >= MinInterval /\ previous \in Nat
      BY <1>2 DEF Claim, Wins, ExclusionInv, DueInv, Stamp, Times
    <3>3. ASSUME NEW v \in Workers, l \in Held(v)
          PROVE  pass[v].now + MinInterval <= pass[w].now
      BY <2>3, <3>2, <3>3, <1>times, IntervalAssumption DEF ExclusionInv, HeldInv
    <3>4. HeldInv'
      <4> SUFFICES ASSUME NEW v \in Workers, NEW k \in Held(v)'
                   PROVE  /\ league'[k].state # "unused"
                          /\ Live(k)' => league'[k].stamp # None /\ pass'[v].now <= league'[k].stamp
        BY DEF HeldInv
      <4>1. k \in Held(v) \/ (k = l /\ v = w)
        BY <2>1, <3>1
      <4>2. k \in Leagues
        BY <4>1 DEF Held, Pass
      <4>3. CASE k # l
        BY <2>1, <3>1, <4>1, <4>2, <4>3 DEF ExclusionInv, HeldInv, Live
      <4>4. CASE k = l
        <5>1. league'[l].stamp = pass[w].now /\ league'[l].state = "live"
          BY <2>3, <3>1 DEF Row, Live
        <5>2. pass[v].now <= pass[w].now
          BY <3>3, <4>1, <4>4, <1>times, IntervalAssumption
        <5>3. QED
          BY <2>1, <4>4, <5>1, <5>2, <1>times, NoneAssumption
      <4>5. QED
        BY <4>3, <4>4
    <3>5. \A v \in Workers \ {w} : l \notin Held(v)
      <4> SUFFICES ASSUME NEW v \in Workers \ {w}, l \in Held(v) PROVE FALSE
        OBVIOUS
      <4>1. pass[v].now + MinInterval <= pass[w].now
        BY <3>3
      <4>2. InPass(v)
        BY DEF ExclusionInv, IdleInv
      <4>3. clock - pass[v].now <= PassSpan /\ pass[w].now <= clock
        BY <2>1, <4>2 DEF ExclusionInv, SpanInv
      <4>4. QED
        BY <4>1, <4>3, <1>times, IntervalAssumption, BoundAssumption
    <3>6. ClaimsAreExclusive'
      BY <2>1, <3>1, <3>5 DEF ExclusionInv, ClaimsAreExclusive
    <3>7. QED
      BY <1>due, <2>2, <3>4, <3>6 DEF ExclusionInv
  <2>4. CASE ~(Live(l) /\ league[l].stamp = previous)
    <3>1. UNCHANGED league /\ Held(w)' = Held(w)
      BY <1>2, <2>4 DEF Claim, Wins, Held, Pass
    <3>2. HeldInv' /\ ClaimsAreExclusive'
      BY <2>1, <3>1 DEF ExclusionInv, HeldInv, ClaimsAreExclusive, Live
    <3>3. QED
      BY <1>due, <2>2, <3>2 DEF ExclusionInv
  <2>5. QED
    BY <2>3, <2>4
<1>3. CASE Request
  <2>1. UNCHANGED <<clock, pass>>
    BY <1>3 DEF Request, CreateLeague, SetAutoSync, DeleteLeague
  <2>2. \A l \in Leagues :
          /\ league[l].state # "unused" => league'[l].state # "unused"
          /\ Live(l)' /\ league[l].state # "unused" => Live(l) /\ league'[l].stamp = league[l].stamp
    <3>1. PICK l \in Leagues :
             \/ CreateLeague(l)
             \/ \E on \in BOOLEAN, hours \in 0 .. MaxInterval + 1 : SetAutoSync(l, on, hours)
             \/ DeleteLeague(l)
      BY <1>3 DEF Request
    <3>2. CASE CreateLeague(l)
      BY <3>2 DEF CreateLeague, NewRow, Live
    <3>3. ASSUME NEW on \in BOOLEAN, NEW hours \in 0 .. MaxInterval + 1,
                 SetAutoSync(l, on, hours)
          PROVE  \A k \in Leagues : /\ league'[k].state = league[k].state
                                    /\ league'[k].stamp = league[k].stamp
      BY <3>3 DEF SetAutoSync, Row
    <3>4. CASE DeleteLeague(l)
      BY <3>4 DEF DeleteLeague, NewRow, Live
    <3>5. QED
      BY <3>1, <3>2, <3>3, <3>4 DEF Live
  <2>3. \A w \in Workers : Held(w)' = Held(w) /\ Held(w) \subseteq Leagues /\ InPass(w)' = InPass(w)
    <3>1. \A w \in Workers : Held(w) \subseteq Leagues
      BY DEF Held, Pass
    <3>2. QED
      BY <2>1, <3>1 DEF Held, InPass
  <2>4. HeldInv'
    BY <2>1, <2>2, <2>3 DEF ExclusionInv, HeldInv
  <2>5. QED
    BY <1>due, <2>1, <2>3, <2>4 DEF ExclusionInv, SpanInv, IdleInv, ClaimsAreExclusive
<1>4. CASE Tick
  <2>1. UNCHANGED <<league, pass>>
    BY <1>4 DEF Tick
  <2>2. \A w \in Workers : Held(w)' = Held(w) /\ InPass(w)' = InPass(w)
    BY <2>1 DEF Held, InPass
  <2>3. SpanInv'
    BY <1>4, <2>1, <2>2, <1>times, BoundAssumption DEF Tick, ExclusionInv, SpanInv
  <2>4. QED
    BY <1>due, <2>1, <2>2, <2>3 DEF ExclusionInv, IdleInv, HeldInv, ClaimsAreExclusive, Live
<1>5. CASE UNCHANGED vars
  <2>1. UNCHANGED <<clock, league, pass>>
    BY <1>5 DEF vars
  <2>2. QED
    BY <1>due, <2>1 DEF ExclusionInv, SpanInv, IdleInv, HeldInv, ClaimsAreExclusive, InPass, Held, Live
<1>6. QED
  BY <1>1, <1>2, <1>3, <1>4, <1>5 DEF Next, Step

\* When no pass lasts as long as the shortest interval and SQLite never hands
\* a deleted league's id to another, no two workers hold the same league.
THEOREM Exclusion ==
  ASSUME PassSpan < MinInterval, ~ReuseIds
  PROVE  Spec => []ClaimsAreExclusive
<1>1. TypeInv /\ ExclusionInv /\ [Next]_vars => ExclusionInv'
  BY NextExclusionInv
<1>2. ExclusionInv => ClaimsAreExclusive
  BY DEF ExclusionInv
<1>3. QED
  BY <1>1, <1>2, TypeInvariant, InitExclusionInv, PTL DEF Spec

\* Under the same conditions the docstring of _claim is right: no league is
\* synchronised by two workers at once.
THEOREM NoConcurrentSync ==
  ASSUME PassSpan < MinInterval, ~ReuseIds
  PROVE  Spec => []NeverSyncedTwice
<1>1. ClaimsAreExclusive => NeverSyncedTwice
  <2> SUFFICES ASSUME ClaimsAreExclusive, NEW v \in Workers, NEW w \in Workers,
                      pass[v].job # None, pass[v].job = pass[w].job, v # w
               PROVE  FALSE
    BY DEF NeverSyncedTwice
  <2>1. pass[v].job \in Held(v) /\ pass[v].job \in Held(w)
    BY DEF Held
  <2>2. QED
    BY <2>1 DEF ClaimsAreExclusive
<1>2. QED
  BY <1>1, Exclusion, PTL
-----------------------------------------------------------------------------
\* What a worker holds was in the table when it claimed it.
KnownInv == \A w \in Workers : \A l \in Held(w) : league[l].state # "unused"

NothingDeleted == \A l \in Leagues : league[l].state # "deleted"

AccountInv == IdleInv /\ KnownInv /\ AttemptsAreAccountedFor

LEMMA InitAccountInv == Init => AccountInv
BY DEF Init, AccountInv, IdleInv, KnownInv, AttemptsAreAccountedFor, InPass, Held, Asleep, Live, NewRow

\* Without faults and deletions a worker lets go of a league only by recording
\* the outcome of its attempt.
LEMMA HeldUntilRecorded ==
  ASSUME TypeInv, IdleInv, KnownInv, NothingDeleted, NEW w \in Workers, NEW l \in Held(w),
         \/ Wake(w) \/ ListDue(w)
         \/ \E k \in Leagues : StartJob(w, k)
         \/ \E error \in Outcome : EndSync(w, error)
         \/ ReadForOutcome(w) \/ RecordOutcome(w) \/ RecordOnDeletedRow(w) \/ EndPass(w)
  PROVE  \/ l \in Held(w)' /\ pass'[w].now = pass[w].now
         \/ RecordOutcome(w) /\ l = pass[w].job
<1> USE DEF TypeInv, TypeOK
<1>0. /\ l \in Leagues /\ l # None /\ Live(l) /\ pass[w] \in Pass
      /\ l \in pass[w].claimed \/ l = pass[w].job
  BY NoneAssumption DEF Held, Pass, KnownInv, NothingDeleted, Row, Live
<1>1. CASE Wake(w)
  BY <1>1 DEF Wake, IdleInv, InPass
<1>2. CASE ListDue(w)
  BY <1>0, <1>2 DEF ListDue, Held, Pass
<1>3. ASSUME NEW k \in Leagues, StartJob(w, k)
      PROVE  l \in Held(w)' /\ pass'[w].now = pass[w].now
  <2>1. k \in Held(w) /\ Live(k) /\ k # None
    BY <1>3, NoneAssumption DEF StartJob, Held, Pass, KnownInv, NothingDeleted, Row, Live
  <2>2. pass'[w] = [pass[w] EXCEPT !.at = "syncing", !.claimed = @ \ {k}, !.job = k]
    BY <1>0, <1>3, <2>1 DEF StartJob
  <2>3. l \in pass[w].claimed
    BY <1>0, <1>3 DEF StartJob
  <2>4. pass'[w].claimed = pass[w].claimed \ {k} /\ pass'[w].job = k /\ pass'[w].now = pass[w].now
    BY <1>0, <2>2 DEF Pass
  <2>5. QED
    BY <1>0, <2>1, <2>3, <2>4 DEF Held
<1>4. ASSUME NEW error \in Outcome, EndSync(w, error)
      PROVE  l \in Held(w)' /\ pass'[w].now = pass[w].now
  BY <1>0, <1>4 DEF EndSync, Held, Pass
<1>5. CASE ReadForOutcome(w)
  <2>1. pass[w].job \in Leagues /\ pass[w].job \in Held(w)
    BY <1>5, NoneAssumption DEF ReadForOutcome, JobInv, Held
  <2>2. Live(pass[w].job)
    BY <2>1 DEF KnownInv, NothingDeleted, Row, Live
  <2>3. pass' = [pass EXCEPT ![w] = [pass[w] EXCEPT !.at = "recording",
                                                    !.seen = league[pass[w].job].error]]
    BY <1>5, <2>2 DEF ReadForOutcome
  <2>4. QED
    BY <1>0, <2>3 DEF Held, Pass
<1>6. CASE RecordOutcome(w)
  <2>1. pass' = [pass EXCEPT ![w] = NextJob(pass[w])]
    BY <1>6 DEF RecordOutcome
  <2>2. QED
    BY <1>0, <1>6, <2>1 DEF NextJob, Held, Pass
<1>7. CASE RecordOnDeletedRow(w)
  <2>1. pass[w].job \in Leagues /\ pass[w].job \in Held(w)
    BY <1>7, NoneAssumption DEF RecordOnDeletedRow, JobInv, Held
  <2>2. QED
    BY <1>7, <2>1 DEF RecordOnDeletedRow, KnownInv, NothingDeleted, Row, Live
<1>8. CASE EndPass(w)
  BY <1>0, <1>8 DEF EndPass
<1>9. QED
  BY <1>1, <1>2, <1>3, <1>4, <1>5, <1>6, <1>7, <1>8

LEMMA NextAccountInv ==
  ASSUME ~ReuseIds, TypeInv, AccountInv, [Next]_vars
  PROVE  AccountInv'
<1> USE DEF TypeInv, TypeOK
<1>held. \A w \in Workers : Held(w) \subseteq Leagues
  BY DEF Held, Pass
<1>1. ASSUME NEW w \in Workers,
             \/ Wake(w) \/ ListDue(w)
             \/ \E l \in Leagues : StartJob(w, l)
             \/ \E error \in Outcome : EndSync(w, error)
             \/ ReadForOutcome(w) \/ RecordOutcome(w) \/ RecordOnDeletedRow(w)
             \/ LockTimeout(w) \/ Crash(w) \/ EndPass(w)
      PROVE  AccountInv'
  <2>1. \A l \in Leagues : league'[l].state = league[l].state /\ league'[l].stamp = league[l].stamp
    <3>1. CASE UNCHANGED league
      BY <3>1
    <3>2. CASE RecordOutcome(w)
      BY <3>2 DEF RecordOutcome, Row
    <3>3. QED
      BY <1>1, <3>1, <3>2 DEF Wake, ListDue, StartJob, EndSync, ReadForOutcome,
         RecordOnDeletedRow, LockTimeout, Crash, EndPass
  <2>2. /\ pass' = [pass EXCEPT ![w] = pass'[w]]
        /\ \/ pass'[w] = Asleep
           \/ pass'[w] = [Asleep EXCEPT !.at = "listing", !.now = clock]
           \/ InPass(w) /\ InPass(w)' /\ Held(w)' \subseteq Held(w) /\ pass'[w].now = pass[w].now
    BY <1>1, NoNewClaims
  <2>3. \A v \in Workers \ {w} : pass'[v] = pass[v] /\ Held(v)' = Held(v) /\ InPass(v)' = InPass(v)
    BY <2>2 DEF Held, InPass
  <2>4. Held(w)' = {} \/ (InPass(w)' /\ Held(w)' \subseteq Held(w))
    <3>1. CASE pass'[w] = Asleep
      BY <3>1 DEF Held, InPass, Asleep
    <3>2. CASE pass'[w] = [Asleep EXCEPT !.at = "listing", !.now = clock]
      BY <3>2 DEF Held, InPass, Asleep
    <3>3. QED
      BY <2>2, <3>1, <3>2
  <2>5. IdleInv' /\ KnownInv'
    BY <1>held, <2>1, <2>3, <2>4 DEF AccountInv, IdleInv, KnownInv
  <2>6. AttemptsAreAccountedFor'
    <3> SUFFICES ASSUME NEW l \in Leagues, Live(l)', league'[l].stamp # None, ~(faults' > 0),
                        \A k \in Leagues : league'[k].state # "deleted",
                        settled'[l] # league'[l].stamp
                 PROVE  \E v \in Workers : l \in Held(v)' /\ pass'[v].now = league'[l].stamp
      BY DEF AttemptsAreAccountedFor
    <3>1. Live(l) /\ league[l].stamp # None /\ NothingDeleted
      BY <2>1 DEF Live, NothingDeleted
    <3>2. ~LockTimeout(w) /\ ~Crash(w) /\ ~(faults > 0)
      <4>1. faults \in Nat
        BY BoundAssumption
      <4>2. LockTimeout(w) \/ Crash(w) => faults' = faults + 1
        BY DEF LockTimeout, Crash
      <4>3. LockTimeout(w) \/ Crash(w) \/ UNCHANGED faults
        BY <1>1 DEF Wake, ListDue, StartJob, EndSync, ReadForOutcome, RecordOutcome,
           RecordOnDeletedRow, EndPass
      <4>4. QED
        BY <4>1, <4>2, <4>3
    <3>3. settled[l] # league[l].stamp
      <4>1. CASE RecordOutcome(w)
        BY <2>1, <4>1 DEF RecordOutcome
      <4>2. CASE UNCHANGED settled
        BY <2>1, <4>2
      <4>3. QED
        BY <1>1, <4>1, <4>2 DEF LockTimeout, Crash, Wake, ListDue, StartJob, EndSync, ReadForOutcome,
           RecordOnDeletedRow, EndPass
    <3>4. PICK v \in Workers : l \in Held(v) /\ pass[v].now = league[l].stamp
      BY <3>1, <3>2, <3>3 DEF AccountInv, AttemptsAreAccountedFor, NothingDeleted
    <3>5. CASE v # w
      BY <2>1, <2>3, <3>4, <3>5
    <3>6. CASE v = w
      <4>1. \/ l \in Held(w)' /\ pass'[w].now = pass[w].now
            \/ RecordOutcome(w) /\ l = pass[w].job
        BY <1>1, <3>1, <3>2, <3>4, <3>6, HeldUntilRecorded DEF AccountInv
      <4>2. ~(RecordOutcome(w) /\ l = pass[w].job)
        BY <2>1, <3>1, <3>4, <3>6 DEF RecordOutcome
      <4>3. QED
        BY <2>1, <3>4, <3>6, <4>1, <4>2
    <3>7. QED
      BY <3>5, <3>6
  <2>7. QED
    BY <2>5, <2>6 DEF AccountInv
<1>2. ASSUME NEW w \in Workers, NEW l \in Leagues, NEW previous \in Stamp, Claim(w, l, previous)
      PROVE  AccountInv'
  <2>1. /\ \A v \in Workers : InPass(v)' = InPass(v) /\ pass'[v].now = pass[v].now
        /\ \A v \in Workers \ {w} : Held(v)' = Held(v)
        /\ InPass(w) /\ UNCHANGED <<faults, settled>>
    BY <1>2 DEF Claim, Wins, InPass, Held, Pass
  <2>2. CASE Live(l) /\ league[l].stamp = previous
    <3>1. /\ league' = [league EXCEPT ![l].stamp = pass[w].now]
          /\ Held(w)' = Held(w) \union {l}
      BY <1>2, <2>2 DEF Claim, Wins, Held, Pass
    <3>2. /\ \A k \in Leagues : league'[k].state = league[k].state
          /\ \A k \in Leagues \ {l} : league'[k].stamp = league[k].stamp
          /\ league'[l].stamp = pass[w].now
      BY <3>1 DEF Row
    <3>3. IdleInv' /\ KnownInv'
      BY <1>held, <2>1, <2>2, <3>1, <3>2 DEF AccountInv, IdleInv, KnownInv, Live
    <3>4. AttemptsAreAccountedFor'
      <4> SUFFICES ASSUME NEW k \in Leagues, Live(k)', league'[k].stamp # None, ~(faults' > 0),
                          \A j \in Leagues : league'[j].state # "deleted",
                          settled'[k] # league'[k].stamp
                   PROVE  \E v \in Workers : k \in Held(v)' /\ pass'[v].now = league'[k].stamp
        BY DEF AttemptsAreAccountedFor
      <4>1. CASE k = l
        BY <2>1, <3>1, <3>2, <4>1
      <4>2. CASE k # l
        <5>1. PICK v \in Workers : k \in Held(v) /\ pass[v].now = league[k].stamp
          BY <2>1, <3>2, <4>2 DEF AccountInv, AttemptsAreAccountedFor, Live
        <5>2. QED
          BY <2>1, <3>1, <3>2, <4>2, <5>1
      <4>3. QED
        BY <4>1, <4>2
    <3>5. QED
      BY <3>3, <3>4 DEF AccountInv
  <2>3. CASE ~(Live(l) /\ league[l].stamp = previous)
    <3>1. UNCHANGED league /\ \A v \in Workers : Held(v)' = Held(v)
      BY <1>2, <2>1, <2>3 DEF Claim, Wins, Held, Pass
    <3>2. IdleInv' /\ KnownInv'
      BY <2>1, <3>1 DEF AccountInv, IdleInv, KnownInv
    <3>3. AttemptsAreAccountedFor'
      BY <2>1, <3>1 DEF AccountInv, AttemptsAreAccountedFor, Live
    <3>4. QED
      BY <3>2, <3>3 DEF AccountInv
  <2>4. QED
    BY <2>2, <2>3
<1>3. ASSUME UNCHANGED <<pass, faults>>,
             \A l \in Leagues :
               /\ league[l].state # "unused" => league'[l].state # "unused"
               /\ league[l].state = "deleted" => league'[l].state = "deleted"
               /\ Live(l)' => \/ league'[l].stamp = None
                              \/ Live(l) /\ league'[l].stamp = league[l].stamp /\ settled'[l] = settled[l]
      PROVE  AccountInv'
  <2>1. \A w \in Workers : Held(w)' = Held(w) /\ InPass(w)' = InPass(w)
    BY <1>3 DEF Held, InPass
  <2>2. IdleInv' /\ KnownInv'
    BY <1>held, <1>3, <2>1 DEF AccountInv, IdleInv, KnownInv
  <2>3. AttemptsAreAccountedFor'
    BY <1>3, <2>1 DEF AccountInv, AttemptsAreAccountedFor
  <2>4. QED
    BY <2>2, <2>3 DEF AccountInv
<1>4. ASSUME NEW l \in Leagues,
             \/ CreateLeague(l)
             \/ \E on \in BOOLEAN, hours \in 0 .. MaxInterval + 1 : SetAutoSync(l, on, hours)
             \/ DeleteLeague(l)
      PROVE  AccountInv'
  <2>1. CASE CreateLeague(l)
    <3>1. league[l].state = "unused" /\ league' = [league EXCEPT ![l] = NewRow]
      BY <2>1 DEF CreateLeague
    <3>2. /\ league'[l].state = "live" /\ league'[l].stamp = None
          /\ \A k \in Leagues \ {l} : league'[k] = league[k] /\ settled'[k] = settled[k]
          /\ UNCHANGED <<pass, faults>>
      BY <2>1, <3>1 DEF CreateLeague, NewRow
    <3>3. QED
      BY <1>3, <3>1, <3>2 DEF Live
  <2>2. ASSUME NEW on \in BOOLEAN, NEW hours \in 0 .. MaxInterval + 1, SetAutoSync(l, on, hours)
        PROVE  AccountInv'
    <3>1. \A k \in Leagues : league'[k].state = league[k].state /\ league'[k].stamp = league[k].stamp
      BY <2>2 DEF SetAutoSync, Row
    <3>2. UNCHANGED <<pass, faults, settled>>
      BY <2>2 DEF SetAutoSync
    <3>3. QED
      BY <1>3, <3>1, <3>2 DEF Live
  <2>3. CASE DeleteLeague(l)
    <3>1. /\ league'[l].state = "deleted" /\ \A k \in Leagues \ {l} : league'[k] = league[k]
          /\ UNCHANGED <<pass, faults, settled>>
      BY <2>3 DEF DeleteLeague, NewRow
    <3>2. QED
      BY <1>3, <3>1 DEF Live
  <2>4. QED
    BY <1>4, <2>1, <2>2, <2>3
<1>5. CASE Tick \/ UNCHANGED vars
  <2>1. UNCHANGED <<league, pass, faults, settled>>
    BY <1>5 DEF Tick, vars
  <2>2. QED
    BY <1>3, <2>1 DEF Live
<1>6. QED
  BY <1>1, <1>2, <1>4, <1>5 DEF Next, Step, Request

\* models.py's "never quietly goes stale": when SQLite never hands a deleted
\* league's id to another, a stamp on a row is a worker's job or has left its
\* outcome, until a fault or a deletion cuts a pass short; however long passes last
\* and however many of them overlap.
THEOREM Accounting ==
  ASSUME ~ReuseIds
  PROVE  Spec => []AttemptsAreAccountedFor
<1>1. TypeInv /\ AccountInv /\ [Next]_vars => AccountInv'
  BY NextAccountInv
<1>2. AccountInv => AttemptsAreAccountedFor
  BY DEF AccountInv
<1>3. QED
  BY <1>1, <1>2, TypeInvariant, InitAccountInv, PTL DEF Spec
=============================================================================
