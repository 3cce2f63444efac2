------------------------ MODULE NotificationsProofs ------------------------
(***************************************************************************)
(* For any number of schedulers, leagues, digests and faults: what is       *)
(* recorded as notified was received, and messages are repeated a bounded   *)
(* number of times.                                                         *)
(***************************************************************************)
EXTENDS Notifications, FiniteSetTheorems, TLAPS

\* What a record says was posted about league l is among the messages received.
Among(messages, heard, l, notified) ==
  /\ notified.alerts # None => notified.alerts \in heard[l]
  /\ notified.changes # None => messages[l][notified.changes] >= 1

Received(l, notified) == Among(sent, told, l, notified)

\* A pass in the middle of a league works on a row and a record of it.
Working(w) == pass[w].at \in {"alerts", "changes", "save"}

WorkInv ==
  \A w \in Workers :
    Working(w) => /\ pass[w].league \in Leagues
                  /\ pass[w].mine \in Row
                  /\ pass[w].already \in Notified

\* Copies of the record that passes hold are as true as the record itself:
\* they are what is written back.
CopiesInv ==
  /\ \A l \in Leagues : Received(l, league[l].notified)
  /\ \A w \in Workers :
       /\ pass[w].loaded # None =>
            \A l \in Leagues : Received(l, pass[w].loaded[l].notified)
       /\ Working(w) => Received(pass[w].league, pass[w].already)

Inv == TypeOK /\ WorkInv /\ CopiesInv

USE NotificationAssumption DEF Maybe
-----------------------------------------------------------------------------
LEMMA InitInv == Init => Inv
<1> SUFFICES ASSUME Init PROVE Inv
  OBVIOUS
<1>1. TypeOK
  BY DEF Init, TypeOK, Row, Notified, NothingSent, Pass, Idle
<1>2. WorkInv /\ CopiesInv
  BY DEF Init, WorkInv, CopiesInv, Working, Received, Among, Idle, NothingSent
<1>3. QED
  BY <1>1, <1>2 DEF Inv

\* Nothing is taken back once it was received.
LEMMA ReceivedStays ==
  ASSUME NEW before \in [Leagues -> [Digests -> Nat]],
         NEW after \in [Leagues -> [Digests -> Nat]],
         \A k \in Leagues, d \in Digests : after[k][d] >= before[k][d],
         NEW heard, NEW hears, \A k \in Leagues : heard[k] \subseteq hears[k],
         NEW l \in Leagues, NEW n \in Notified, Among(before, heard, l, n)
  PROVE  Among(after, hears, l, n)
<1>0. n.alerts # None => n.alerts \in hears[l]
  BY DEF Among
<1>1. CASE n.changes = None
  BY <1>0, <1>1 DEF Among
<1>2. CASE n.changes # None
  <2>1. n.changes \in Digests
    BY <1>2 DEF Notified
  <2>2. before[l][n.changes] \in Nat /\ after[l][n.changes] \in Nat
    BY <2>1
  <2>3. before[l][n.changes] >= 1 /\ after[l][n.changes] >= before[l][n.changes]
    BY <1>2, <2>1 DEF Among
  <2>4. QED
    BY <1>0, <2>2, <2>3 DEF Among
<1>3. QED
  BY <1>1, <1>2

\* A step that changes one pass, and may let the channel receive something:
\* what is left to show is about that pass and the rows.
LEMMA PassStep ==
  ASSUME Inv, NEW w \in Workers, NEW p \in Pass,
         pass' = [pass EXCEPT ![w] = p],
         league' \in [Leagues -> Row], sent' \in [Leagues -> [Digests -> Nat]],
         problem' = problem, alerted' \in [Leagues -> Nat], faults' \in 0 .. MaxFaults,
         told' \in [Leagues -> SUBSET Problems], \A k \in Leagues : told[k] \subseteq told'[k],
         \A k \in Leagues, d \in Digests : sent'[k][d] >= sent[k][d],
         \A l \in Leagues : Among(sent', told', l, league'[l].notified),
         p.loaded = pass[w].loaded \/ p.loaded = None
           \/ \A l \in Leagues : Among(sent', told', l, p.loaded[l].notified),
         p.at \in {"alerts", "changes", "save"} =>
           /\ p.league \in Leagues /\ p.mine \in Row /\ p.already \in Notified
           /\ Among(sent', told', p.league, p.already)
  PROVE  Inv'
<1> USE DEF Inv
<1>1. /\ pass' \in [Workers -> Pass] /\ pass'[w] = p
      /\ \A v \in Workers : v # w => pass'[v] = pass[v]
  BY DEF TypeOK
<1>2. TypeOK'
  BY <1>1 DEF TypeOK
<1>3. WorkInv'
  BY <1>1 DEF WorkInv, Working
<1>4. /\ sent \in [Leagues -> [Digests -> Nat]] /\ sent' \in [Leagues -> [Digests -> Nat]]
      /\ \A k \in Leagues, d \in Digests : sent'[k][d] >= sent[k][d]
      /\ \A k \in Leagues : told[k] \subseteq told'[k]
  BY DEF TypeOK
<1>5. ASSUME NEW v \in Workers, pass'[v].loaded # None, NEW l \in Leagues
      PROVE  Among(sent', told', l, pass'[v].loaded[l].notified)
  <2>1. CASE pass'[v].loaded = pass[v].loaded
    <3>1. pass[v].loaded \in [Leagues -> Row]
      BY <1>5, <2>1 DEF TypeOK, Pass
    <3>2. /\ pass[v].loaded[l].notified \in Notified
          /\ Among(sent, told, l, pass[v].loaded[l].notified)
      BY <1>5, <2>1, <3>1 DEF Row, CopiesInv, Received
    <3>3. Among(sent', told', l, pass[v].loaded[l].notified)
      BY ONLY <1>4, <3>2, l \in Leagues, ReceivedStays
    <3>4. QED
      BY <2>1, <3>3
  <2>2. CASE v = w /\ pass'[v].loaded # pass[v].loaded
    BY <1>1, <1>5, <2>2
  <2>3. QED
    BY <1>1, <2>1, <2>2
<1>6. ASSUME NEW v \in Workers, Working(v)'
      PROVE  Among(sent', told', pass'[v].league, pass'[v].already)
  <2>1. CASE v = w
    BY <1>1, <1>6, <2>1 DEF Working
  <2>2. CASE v # w
    <3>1. Working(v) /\ pass'[v] = pass[v]
      BY <1>1, <1>6, <2>2 DEF Working
    <3>2. /\ pass[v].league \in Leagues /\ pass[v].already \in Notified
          /\ Among(sent, told, pass[v].league, pass[v].already)
      BY <3>1 DEF WorkInv, CopiesInv, Received
    <3>3. Among(sent', told', pass[v].league, pass[v].already)
      BY ONLY <1>4, <3>2, ReceivedStays
    <3>4. QED
      BY <3>1, <3>3
  <2>3. QED
    BY <2>1, <2>2
<1>7. CopiesInv'
  BY <1>5, <1>6 DEF CopiesInv, Received
<1>8. QED
  BY <1>2, <1>3, <1>7

-----------------------------------------------------------------------------
\* What others do to the rows leaves the passes and the messages alone.
LEMMA EventStep ==
  ASSUME Inv, NEW l \in Leagues,
         NewDigest(l) \/ DeleteLeague(l) \/ \E p \in Maybe(Problems) : ProblemChanges(l, p)
  PROVE  Inv'
<1> USE DEF Inv
<1>1. pass' = pass /\ sent' = sent /\ told' = told /\ faults' = faults
  BY DEF NewDigest, DeleteLeague, ProblemChanges
<1>2. /\ league' \in [Leagues -> Row]
      /\ \A k \in Leagues : league'[k].notified = league[k].notified
  <2>1. CASE NewDigest(l)
    <3> DEFINE last == IF league[l].digest = None THEN 0 ELSE league[l].digest
    <3>1. last \in 0 .. MaxDigests
      BY DEF TypeOK, Row, Digests
    <3>2. last < MaxDigests /\ league' = [league EXCEPT ![l].digest = last + 1]
      BY <2>1 DEF NewDigest
    <3>3. last + 1 \in Digests
      BY <3>1, <3>2 DEF Digests
    <3> DEFINE d == last + 1
    <3>4. d \in Digests /\ league' = [league EXCEPT ![l].digest = d]
      BY <3>2, <3>3
    <3> HIDE DEF last, d
    <3>5. league \in [Leagues -> Row]
      BY DEF TypeOK
    <3>6. QED
      BY <3>4, <3>5 DEF Row
  <2>2. CASE DeleteLeague(l)
    <3>1. league' = [league EXCEPT ![l].live = FALSE]
      BY <2>2 DEF DeleteLeague
    <3>2. \A row \in Row : /\ [row EXCEPT !.live = FALSE] \in Row
                           /\ [row EXCEPT !.live = FALSE].notified = row.notified
      BY DEF Row
    <3>3. QED
      BY <3>1, <3>2 DEF TypeOK
  <2>3. CASE \E p \in Maybe(Problems) : ProblemChanges(l, p)
    BY <2>3 DEF ProblemChanges, TypeOK
  <2>4. QED
    BY <2>1, <2>2, <2>3
<1>3. problem' \in [Leagues -> Maybe(Problems)] /\ alerted' \in [Leagues -> Nat]
  <2>1. CASE NewDigest(l)
    BY <2>1 DEF NewDigest, TypeOK
  <2>2. CASE \E p \in Maybe(Problems) : ProblemChanges(l, p)
    BY <2>2 DEF ProblemChanges, TypeOK
  <2>3. CASE DeleteLeague(l)
    <3>1. /\ problem \in [Leagues -> Maybe(Problems)] /\ alerted \in [Leagues -> Nat]
          /\ problem' = [problem EXCEPT ![l] = None] /\ alerted' = [alerted EXCEPT ![l] = 0]
      BY <2>3 DEF DeleteLeague, TypeOK
    <3>2. QED
      BY <3>1
  <2>4. QED
    BY <2>1, <2>2, <2>3
<1>4. TypeOK'
  BY <1>1, <1>2, <1>3 DEF TypeOK
<1>5. WorkInv'
  BY <1>1 DEF WorkInv, Working
<1>6. CopiesInv'
  BY <1>1, <1>2 DEF CopiesInv, Received, Among, Working
<1>7. QED
  BY <1>4, <1>5, <1>6

\* Steps that post nothing and write nothing: the pass begins, ends, or takes
\* its next league, from what it loaded or from the row.
LEMMA MoveStep ==
  ASSUME Inv, NEW w \in Workers, NEW p \in Pass,
         pass' = [pass EXCEPT ![w] = p],
         UNCHANGED <<league, problem, sent, alerted, told>>, faults' \in 0 .. MaxFaults,
         p.loaded \in {pass[w].loaded, None}
           \/ \A l \in Leagues : Received(l, p.loaded[l].notified),
         p.at \in {"alerts", "changes", "save"} =>
           /\ p.league \in Leagues /\ p.mine \in Row /\ p.already \in Notified
           /\ Received(p.league, p.already)
  PROVE  Inv'
<1>1. /\ \A k \in Leagues, d \in Digests : sent'[k][d] >= sent[k][d]
      /\ \A k \in Leagues : told[k] \subseteq told'[k]
  BY DEF Inv, TypeOK
<1>2. /\ league' \in [Leagues -> Row] /\ sent' \in [Leagues -> [Digests -> Nat]]
      /\ alerted' \in [Leagues -> Nat] /\ told' \in [Leagues -> SUBSET Problems]
      /\ \A l \in Leagues : Among(sent', told', l, league'[l].notified)
  BY DEF Inv, TypeOK, CopiesInv, Received
<1>3. QED
  BY <1>1, <1>2, PassStep DEF Received

LEMMA StartStep == ASSUME Inv, NEW w \in Workers, StartPass(w) PROVE Inv'
<1> DEFINE p == [Idle EXCEPT !.at = "next", !.todo = {l \in Leagues : league[l].live},
                             !.loaded = [l \in Leagues |-> [league[l] EXCEPT !.live = TRUE]]]
<1>1. p \in Pass
  <2>1. [l \in Leagues |-> [league[l] EXCEPT !.live = TRUE]] \in [Leagues -> Row]
    <3>1. ASSUME NEW l \in Leagues PROVE [league[l] EXCEPT !.live = TRUE] \in Row
      <4>1. league[l] \in Row
        BY DEF Inv, TypeOK
      <4>2. QED
        BY <4>1 DEF Row
    <3>2. QED
      BY <3>1
  <2>2. QED
    BY <2>1 DEF Pass, Idle
<1>2. \A l \in Leagues : Received(l, p.loaded[l].notified)
  BY DEF Inv, TypeOK, Row, CopiesInv, Idle
<1>3. p.at = "next"
  BY DEF Idle
<1>4. QED
  BY <1>1, <1>2, <1>3, MoveStep DEF StartPass, Inv, TypeOK

LEMMA TakeStep ==
  ASSUME Inv, NEW w \in Workers, NEW l \in Leagues, TakeLeague(w, l) PROVE Inv'
<1> DEFINE row == IF pass[w].loaded = None THEN league[l] ELSE pass[w].loaded[l]
           p == [pass[w] EXCEPT !.at = "alerts", !.todo = @ \ {l}, !.league = l,
                                !.loaded = IF pass[w].todo = {l} THEN None ELSE @,
                                !.mine = row, !.already = row.notified]
<1>1. pass[w] \in Pass
  BY DEF Inv, TypeOK
<1>2. row \in Row /\ Received(l, row.notified)
  BY <1>1 DEF Inv, TypeOK, Pass, CopiesInv
<1>3. p \in Pass /\ row.notified \in Notified
  BY <1>1, <1>2 DEF Pass, Row
<1>4. /\ p.loaded \in {pass[w].loaded, None} /\ p.league = l /\ p.mine = row
      /\ p.already = row.notified
  BY <1>1 DEF Pass
<1>5. pass' = [pass EXCEPT ![w] = p]
  BY DEF TakeLeague
<1>6. /\ UNCHANGED <<league, problem, sent, alerted, told>> /\ faults' \in 0 .. MaxFaults
      /\ Received(p.league, p.already)
  BY <1>2, <1>4 DEF TakeLeague, Inv, TypeOK
<1> HIDE DEF p, row
<1>7. QED
  BY <1>2, <1>3, <1>4, <1>5, <1>6, MoveStep

\* Giving up and going on to the next league.
LEMMA EndStep ==
  ASSUME Inv, NEW w \in Workers,
         \/ \E l \in Leagues : TakeDeletedLeague(w, l)
         \/ SaveFails(w) \/ Crash(w) \/ EndPass(w)
  PROVE  Inv'
<1> DEFINE next == [Idle EXCEPT !.at = "next", !.todo = pass[w].todo]
<1>1. Idle \in Pass /\ next \in Pass
  BY DEF Inv, TypeOK, Pass, Idle
<1>2. PICK p \in {Idle, next} : pass' = [pass EXCEPT ![w] = p]
  BY DEF TakeDeletedLeague, SaveFails, Crash, EndPass
<1>3. p.loaded = None /\ p.at \in {"idle", "next"} /\ p \in Pass
  <2>1. Idle.loaded = None /\ Idle.at = "idle" /\ next.loaded = None /\ next.at = "next"
    BY DEF Idle
  <2>2. QED
    BY <1>1, <1>2, <2>1
<1>4. faults' \in 0 .. MaxFaults /\ UNCHANGED <<league, problem, sent, alerted, told>>
  BY DEF TakeDeletedLeague, SaveFails, Crash, EndPass, Inv, TypeOK
<1>5. QED
  BY <1>2, <1>3, <1>4, MoveStep
-----------------------------------------------------------------------------
\* What CheckAlerts leaves of its pass, written as one record.
LEMMA AlertPass ==
  ASSUME Inv, NEW w \in Workers, NEW outcome \in Outcomes, CheckAlerts(w, outcome)
  PROVE  LET old == pass[w].already.alerts
             key == problem[pass[w].league]
             after == AlertsAfter(old, key, Unsent(old, key) /\ outcome = "confirmed")
         IN  pass' = [pass EXCEPT ![w] = [pass[w] EXCEPT !.at = "changes", !.already.alerts = after]]
<1>1. pass[w] \in Pass /\ pass[w].already \in Notified
  BY DEF CheckAlerts, Inv, TypeOK, WorkInv, Working
<1>2. pass \in [Workers -> Pass]
  BY DEF Inv, TypeOK
<1>3. QED
  BY <1>1, <1>2 DEF CheckAlerts, Pass, Notified

LEMMA AlertStep ==
  ASSUME Inv, NEW w \in Workers, NEW outcome \in Outcomes, CheckAlerts(w, outcome) PROVE Inv'
<1> DEFINE l == pass[w].league
           delivered == Unsent(pass[w].already.alerts, problem[l]) /\ outcome = "confirmed"
           after == AlertsAfter(pass[w].already.alerts, problem[l], delivered)
           p == [pass[w] EXCEPT !.at = "changes", !.already.alerts = after]
<1>1. /\ pass[w] \in Pass /\ Working(w) /\ l \in Leagues
      /\ pass[w].mine \in Row /\ pass[w].already \in Notified
      /\ Received(l, pass[w].already)
  BY DEF CheckAlerts, Inv, TypeOK, WorkInv, CopiesInv, Working
<1>2. after \in Maybe(Problems)
  BY <1>1 DEF AlertsAfter, Inv, TypeOK, Notified
<1>3. /\ p.already \in Notified /\ p.already.changes = pass[w].already.changes
      /\ p.league = l /\ p.mine = pass[w].mine /\ p.loaded = pass[w].loaded /\ p \in Pass
  BY <1>1, <1>2 DEF Notified, Pass
<1>4. pass' = [pass EXCEPT ![w] = p]
  BY AlertPass
<1>5. faults' \in 0 .. MaxFaults /\ alerted' \in [Leagues -> Nat]
  BY <1>1 DEF CheckAlerts, Attempt, Inv, TypeOK
<1>6. /\ \A k \in Leagues, d \in Digests : sent'[k][d] >= sent[k][d]
      /\ league' \in [Leagues -> Row] /\ sent' \in [Leagues -> [Digests -> Nat]]
      /\ problem' = problem /\ league' = league /\ sent' = sent
  BY DEF CheckAlerts, Inv, TypeOK
<1>7. /\ told' \in [Leagues -> SUBSET Problems] /\ \A k \in Leagues : told[k] \subseteq told'[k]
      /\ delivered => problem[l] \in told'[l]
  <2>1. told \in [Leagues -> SUBSET Problems] /\ problem[l] \in Maybe(Problems)
    BY <1>1 DEF Inv, TypeOK
  <2>2. told' = IF Unsent(pass[w].already.alerts, problem[l]) /\ Arrives(outcome)
                THEN [told EXCEPT ![l] = @ \union {problem[l]}] ELSE told
    BY DEF CheckAlerts
  <2>3. Unsent(pass[w].already.alerts, problem[l]) => problem[l] \in Problems
    BY <2>1 DEF Unsent
  <2>4. delivered => Unsent(pass[w].already.alerts, problem[l]) /\ Arrives(outcome)
    BY DEF Arrives
  <2> HIDE DEF l, delivered
  <2>5. QED
    BY <1>1, <2>1, <2>2, <2>3, <2>4
<1>8. \A k \in Leagues : Among(sent', told', k, league'[k].notified)
  <2>1. SUFFICES ASSUME NEW k \in Leagues PROVE Among(sent', told', k, league[k].notified)
    BY <1>6
  <2>2. league[k].notified \in Notified /\ Among(sent, told, k, league[k].notified)
    BY DEF Inv, TypeOK, Row, CopiesInv, Received
  <2>3. sent \in [Leagues -> [Digests -> Nat]]
    BY DEF Inv, TypeOK
  <2>4. QED
    BY <1>6, <1>7, <2>2, <2>3, ReceivedStays
<1>9. Among(sent', told', p.league, p.already)
  <2>1. p.already.alerts = after /\ p.already.changes = pass[w].already.changes
    BY <1>1, <1>2 DEF Notified, Pass
  <2>2. after # None => after \in told'[l]
    <3>1. CASE delivered
      BY <1>7, <3>1 DEF AlertsAfter
    <3>2. CASE ~delivered
      <4>1. after = None \/ after = pass[w].already.alerts
        BY <3>2 DEF AlertsAfter
      <4>2. pass[w].already.alerts # None => pass[w].already.alerts \in told'[l]
        BY <1>1, <1>7 DEF Received, Among
      <4>3. QED
        BY <4>1, <4>2
    <3>3. QED
      BY <3>1, <3>2
  <2>3. pass[w].already.changes # None => sent'[l][pass[w].already.changes] >= 1
    BY <1>1, <1>6 DEF Received, Among
  <2>4. QED
    BY <1>3, <2>1, <2>2, <2>3 DEF Among
<1>10. QED
  BY <1>1, <1>3, <1>4, <1>5, <1>6, <1>7, <1>8, <1>9, PassStep

LEMMA ChangesStep ==
  ASSUME Inv, NEW w \in Workers, NEW outcome \in Outcomes, CheckChanges(w, outcome) PROVE Inv'
<1> DEFINE l == pass[w].league
           key == pass[w].mine.digest
           posts == Unsent(pass[w].already.changes, key)
           after == ChangesAfter(pass[w].already.changes, key, posts /\ outcome = "confirmed")
           p == [pass[w] EXCEPT !.at = "save", !.already.changes = after]
<1>1. /\ pass[w] \in Pass /\ Working(w) /\ l \in Leagues
      /\ pass[w].mine \in Row /\ pass[w].already \in Notified
      /\ Received(l, pass[w].already)
  BY DEF CheckChanges, Inv, TypeOK, WorkInv, CopiesInv, Working
<1>2. key \in Maybe(Digests) /\ after \in Maybe(Digests)
  BY <1>1 DEF ChangesAfter, Notified, Row
<1>3. /\ p.already \in Notified /\ p.already.changes = after
      /\ p.league = l /\ p.mine = pass[w].mine /\ p.loaded = pass[w].loaded /\ p \in Pass
  BY <1>1, <1>2 DEF Notified, Pass
<1>4. pass' = [pass EXCEPT ![w] = p]
  BY <1>1 DEF CheckChanges, Inv, TypeOK, Pass, Notified
<1>5. faults' \in 0 .. MaxFaults /\ told' = told
  BY DEF CheckChanges, Attempt, Inv, TypeOK
<1>6. sent \in [Leagues -> [Digests -> Nat]]
  BY DEF Inv, TypeOK
<1>7. posts => key \in Digests
  BY <1>2 DEF Unsent
<1>8. sent' = IF posts /\ Arrives(outcome) THEN [sent EXCEPT ![l][key] = @ + 1] ELSE sent
  BY DEF CheckChanges
<1>9. /\ sent' \in [Leagues -> [Digests -> Nat]]
      /\ \A k \in Leagues, d \in Digests : sent'[k][d] >= sent[k][d]
      /\ posts /\ Arrives(outcome) => sent'[l][key] >= 1
  BY <1>1, <1>6, <1>7, <1>8
<1>10. \A k \in Leagues : Among(sent', told', k, league[k].notified)
  <2>1. SUFFICES ASSUME NEW k \in Leagues PROVE Among(sent', told', k, league[k].notified)
    OBVIOUS
  <2>2. league[k].notified \in Notified /\ Among(sent, told, k, league[k].notified)
    BY DEF Inv, TypeOK, Row, CopiesInv, Received
  <2>3. QED
    BY <1>5, <1>6, <1>9, <2>2, ReceivedStays
<1>11. Among(sent', told', l, p.already)
  <2>0. Among(sent', told', l, pass[w].already) /\ p.already.alerts = pass[w].already.alerts
    <3>1. Among(sent, told, l, pass[w].already)
      BY <1>1 DEF Received
    <3>2. /\ pass[w].already \in Notified /\ l \in Leagues
          /\ \A k \in Leagues : told[k] \subseteq told'[k]
      BY <1>1, <1>5
    <3>s. Among(sent', told', l, pass[w].already)
      BY ONLY <1>6, <1>9, <3>1, <3>2, ReceivedStays
    <3>3. QED
      BY <1>1, <3>s DEF Pass, Notified
  <2>1. CASE posts /\ outcome = "confirmed"
    BY <1>3, <1>9, <2>0, <2>1 DEF Among, ChangesAfter, Arrives
  <2>2. CASE ~(posts /\ outcome = "confirmed")
    <3>1. after = pass[w].already.changes
      BY <2>2 DEF ChangesAfter
    <3>2. QED
      BY <1>3, <2>0, <3>1 DEF Among
  <2>3. QED
    BY <2>1, <2>2
<1>12. league' = league /\ problem' = problem /\ alerted' = alerted
  BY DEF CheckChanges
<1>13. /\ league' \in [Leagues -> Row] /\ alerted' \in [Leagues -> Nat]
       /\ told' \in [Leagues -> SUBSET Problems] /\ \A k \in Leagues : told[k] \subseteq told'[k]
  BY <1>5, <1>12 DEF Inv, TypeOK
<1>14. QED
  BY <1>1, <1>3, <1>4, <1>5, <1>9, <1>10, <1>11, <1>12, <1>13, PassStep

\* The record is replaced by a copy that is true.
LEMMA SaveStep == ASSUME Inv, NEW w \in Workers, Save(w) PROVE Inv'
<1> DEFINE l == pass[w].league
           changed == pass[w].already # pass[w].mine.notified
           next == [Idle EXCEPT !.at = "next", !.todo = pass[w].todo,
                                !.loaded = IF changed THEN None ELSE pass[w].loaded]
<1>1. /\ pass[w] \in Pass /\ l \in Leagues
      /\ pass[w].already \in Notified /\ Among(sent, told, l, pass[w].already)
  BY DEF Save, Inv, TypeOK, WorkInv, CopiesInv, Working, Received
<1>2. Idle \in Pass /\ next \in Pass
  BY <1>1 DEF Pass, Idle
<1>3. PICK p \in {Idle, next} : pass' = [pass EXCEPT ![w] = p]
  BY DEF Save
<1>4. p \in Pass /\ p.loaded \in {pass[w].loaded, None} /\ p.at \in {"idle", "next"}
  <2>1. /\ Idle.loaded = None /\ Idle.at = "idle"
        /\ next.loaded \in {pass[w].loaded, None} /\ next.at = "next"
    BY DEF Idle
  <2>2. QED
    BY <1>2, <1>3, <2>1
<1>5. league' \in {league, [league EXCEPT ![l].notified = pass[w].already]}
  BY DEF Save
<1>6. /\ league' \in [Leagues -> Row]
      /\ \A k \in Leagues : Among(sent, told, k, league'[k].notified)
  <2>1. league \in [Leagues -> Row] /\ \A k \in Leagues : Among(sent, told, k, league[k].notified)
    BY DEF Inv, TypeOK, CopiesInv, Received
  <2>2. QED
    BY <1>1, <1>5, <2>1 DEF Row
<1>7. /\ sent' = sent /\ problem' = problem /\ alerted' = alerted
      /\ told' = told /\ faults' = faults
  BY DEF Save
<1>8. /\ told' \in [Leagues -> SUBSET Problems] /\ \A k \in Leagues : told[k] \subseteq told'[k]
      /\ sent' \in [Leagues -> [Digests -> Nat]] /\ alerted' \in [Leagues -> Nat]
      /\ faults' \in 0 .. MaxFaults
      /\ \A k \in Leagues, d \in Digests : sent'[k][d] >= sent[k][d]
  BY <1>7 DEF Inv, TypeOK
<1>9. QED
  BY <1>3, <1>4, <1>6, <1>7, <1>8, PassStep
-----------------------------------------------------------------------------
LEMMA NextInv == Inv /\ [Next]_vars => Inv'
<1> SUFFICES ASSUME Inv, [Next]_vars PROVE Inv'
  OBVIOUS
<1>1. CASE \E l \in Leagues :
        \/ NewDigest(l) \/ DeleteLeague(l) \/ \E p \in Maybe(Problems) : ProblemChanges(l, p)
  BY <1>1, EventStep
<1>2. ASSUME NEW w \in Workers, Step(w) \/ SaveFails(w) \/ Crash(w)
      PROVE  Inv'
  BY <1>2, StartStep, TakeStep, EndStep, AlertStep, ChangesStep, SaveStep DEF Step
<1>3. CASE UNCHANGED vars
  BY <1>3 DEF vars, Inv, TypeOK, WorkInv, CopiesInv, Working, Received
<1>4. QED
  BY <1>1, <1>2, <1>3 DEF Next

LEMMA Invariant == Spec => []Inv
<1>1. QED
  BY InitInv, NextInv, PTL DEF Spec

\* The rows, the passes and the counts stay within their types.
THEOREM TypeCorrect == Spec => []TypeOK
<1>1. Inv => TypeOK
  BY DEF Inv
<1>2. QED
  BY <1>1, Invariant, PTL

\* notify_league stores what it posted, so the record of a league never claims
\* an alert or a digest that its channel did not receive, whatever posts fail
\* or go unanswered, passes overlap or processes die.
THEOREM NothingIsSwallowed == Spec => []RecordedWasSent
<1>1. Inv => RecordedWasSent
  BY DEF Inv, CopiesInv, Received, Among, RecordedWasSent
<1>2. QED
  BY <1>1, Invariant, PTL
-----------------------------------------------------------------------------
\* A pass is idle with nothing, or takes leagues off its list before it works
\* on them, with what it loaded until it has posted.
Sane(p) ==
  /\ p.at = "idle" => p = Idle
  /\ p.at \in {"alerts", "changes", "save"} => p.league \notin p.todo
  /\ p.at = "alerts" => p.already = p.mine.notified
  /\ p.at = "changes" => p.already.changes = p.mine.notified.changes

PassInv == \A w \in Workers : Sane(pass[w])

\* A digest is in no copy before it is in the row.
Reached(last, d) == d # None => last # None /\ d <= last
AgeInv ==
  \A w \in Workers :
    /\ pass[w].loaded # None => \A l \in Leagues : Reached(league[l].digest, pass[w].loaded[l].digest)
    /\ Working(w) => Reached(league[pass[w].league].digest, pass[w].mine.digest)

\* What pass p can still do about the alert key of league l: post it, write back
\* a record without it, record that it was posted, or none of these.
Roles == {"post", "relapse", "record", "free"}

AlertRole(p, l, key) ==
  IF p.at \in {"alerts", "changes", "save"} /\ p.league = l
  THEN IF p.already.alerts # key THEN IF p.at = "alerts" THEN "post" ELSE "relapse"
       ELSE IF p.at # "alerts" /\ p.mine.notified.alerts # key THEN "record" ELSE "free"
  ELSE IF l \in p.todo /\ p.loaded # None /\ p.loaded[l].notified.alerts # key THEN "post"
  ELSE "free"

\* The same about digest d.
CopyRole(digest, changes, d) ==
  IF digest # d THEN "relapse" ELSE IF changes # d THEN "post" ELSE "free"

DigestRole(p, l, d) ==
  IF p.at \in {"alerts", "changes"} /\ p.league = l THEN CopyRole(p.mine.digest, p.already.changes, d)
  ELSE IF p.at = "save" /\ p.league = l
  THEN IF p.already.changes # d THEN "relapse"
       ELSE IF p.mine.notified.changes # d THEN "record" ELSE "free"
  ELSE IF l \in p.todo /\ p.loaded # None
  THEN CopyRole(p.loaded[l].digest, p.loaded[l].notified.changes, d)
  ELSE "free"

AlertRoles(l) == [w \in Workers |-> AlertRole(pass[w], l, problem[l])]
DigestRoles(l, d) == [w \in Workers |-> DigestRole(pass[w], l, d)]

\* An open row makes every pass that reads it post.
AlertRow(l) ==
  IF league[l].live /\ league[l].notified.alerts # problem[l] THEN "open" ELSE "closed"
DigestRow(l, d) ==
  IF league[l].live /\ league[l].notified.changes # d THEN "open" ELSE "closed"

Count(roles, r) == Cardinality({w \in Workers : roles[w] = r})

\* Twice the posts of the rounds that u records written back start among n.
Rounds(n, u) == u * (2 * n + 1 - u)

\* Twice the messages that may still follow without a fault.
Load(roles, at) ==
  LET n == Cardinality(Workers)
      u == Count(roles, "relapse")
  IN  Rounds(n, u) + 2 * (IF at = "open" THEN n - u - Count(roles, "record") ELSE Count(roles, "post"))

\* Twice the messages that f faults allow.
Cap(f) == LET n == Cardinality(Workers) IN n * (n + 1) + 2 * f * n

AlertInv == \A l \in Leagues : 2 * alerted[l] + Load(AlertRoles(l), AlertRow(l)) <= Cap(faults)

DigestInv ==
  \A l \in Leagues, d \in Digests :
    LET last == league[l].digest IN
    /\ last = None => sent[l][d] = 0
    /\ last # None /\ last < d => sent[l][d] = 0
    /\ last = d => 2 * sent[l][d] + Load(DigestRoles(l, d), DigestRow(l, d)) <= Cap(faults)
    /\ last # None /\ last > d => 2 * sent[l][d] + 2 * Count(DigestRoles(l, d), "post") <= Cap(faults)

Standing == PassInv /\ AgeInv /\ AlertInv /\ DigestInv
-----------------------------------------------------------------------------
LEMMA Rounding ==
  ASSUME NEW n \in Nat, NEW u \in 0 .. n
  PROVE  /\ Rounds(n, u) \in Int
         /\ Rounds(n, u + 1) = Rounds(n, u) + 2 * (n - u)
         /\ Rounds(n, u) + 2 * (n - u) <= n * (n + 1)
<1>1. Rounds(n, u) \in Int
  BY DEF Rounds
<1>2. Rounds(n, u + 1) = Rounds(n, u) + 2 * (n - u)
  BY DEF Rounds
<1>3. PICK m \in 0 .. n : u = n - m
  <2>1. n - u \in 0 .. n /\ u = n - (n - u)
    OBVIOUS
  <2>2. QED
    BY <2>1
<1>4. m <= m * m
  <2>1. CASE m = 0
    BY <2>1
  <2>2. CASE m >= 1
    BY <2>2
  <2>3. QED
    BY <2>1, <2>2
<1>5. Rounds(n, u) + 2 * (n - u) = n * (n + 1) + m - m * m
  BY <1>3 DEF Rounds
<1>6. m * m \in Int /\ n * (n + 1) \in Int
  OBVIOUS
<1>7. QED
  BY <1>1, <1>2, <1>4, <1>5, <1>6

LEMMA Caps ==
  ASSUME NEW f \in Nat
  PROVE  LET n == Cardinality(Workers)
         IN  /\ n \in Nat /\ Cap(f) \in Int /\ n * (n + 1) <= Cap(f)
             /\ Cap(f + 1) = Cap(f) + 2 * n
<1> DEFINE n == Cardinality(Workers)
<1>1. n \in Nat
  BY FS_CardinalityType
<1>2. \A g \in Nat : Cap(g) = n * (n + 1) + 2 * g * n
  BY DEF Cap
<1> HIDE DEF n
<1>3. f * n \in Nat /\ n * (n + 1) \in Nat
  BY <1>1
<1>4. (f + 1) * n = f * n + n
  BY <1>1
<1>5. Cap(f) = n * (n + 1) + 2 * (f * n) /\ Cap(f + 1) = n * (n + 1) + 2 * ((f + 1) * n)
  BY <1>1, <1>2
<1>6. n \in Nat /\ Cap(f) \in Int /\ n * (n + 1) <= Cap(f) /\ Cap(f + 1) = Cap(f) + 2 * n
  BY <1>1, <1>3, <1>4, <1>5
<1>7. QED
  BY <1>6 DEF n

LEMMA DisjointUnion ==
  ASSUME NEW A, NEW B, IsFiniteSet(A), IsFiniteSet(B), A \cap B = {}
  PROVE  IsFiniteSet(A \cup B) /\ Cardinality(A \cup B) = Cardinality(A) + Cardinality(B)
<1>1. /\ IsFiniteSet(A \cup B)
      /\ Cardinality(A \cup B) = Cardinality(A) + Cardinality(B) - Cardinality({})
  BY FS_Union
<1>2. Cardinality({}) = 0 /\ Cardinality(A) \in Nat /\ Cardinality(B) \in Nat
  BY FS_EmptySet, FS_CardinalityType
<1>3. QED
  BY <1>1, <1>2

\* How many workers play each part, and how one that changes its part moves that.
LEMMA Counts ==
  ASSUME NEW roles \in [Workers -> Roles]
  PROVE  LET u == Count(roles, "relapse")
             p == Count(roles, "record")
             s == Count(roles, "post")
         IN  u \in Nat /\ p \in Nat /\ s \in Nat /\ u + p + s <= Cardinality(Workers)
<1> DEFINE U == {w \in Workers : roles[w] = "relapse"}
           P == {w \in Workers : roles[w] = "record"}
           S == {w \in Workers : roles[w] = "post"}
<1>1. /\ IsFiniteSet(U) /\ IsFiniteSet(P) /\ IsFiniteSet(S)
      /\ Cardinality(U) \in Nat /\ Cardinality(P) \in Nat /\ Cardinality(S) \in Nat
  BY FS_Subset, FS_CardinalityType
<1>2. U \cap P = {} /\ (U \cup P) \cap S = {}
  OBVIOUS
<1>s. U \in SUBSET Workers /\ P \in SUBSET Workers /\ S \in SUBSET Workers
  OBVIOUS
<1> HIDE DEF U, P, S
<1>3. Cardinality(U \cup P) = Cardinality(U) + Cardinality(P) /\ IsFiniteSet(U \cup P)
  BY <1>1, <1>2, DisjointUnion
<1>4. Cardinality((U \cup P) \cup S) = Cardinality(U) + Cardinality(P) + Cardinality(S)
  BY <1>1, <1>2, <1>3, DisjointUnion
<1>5. Cardinality((U \cup P) \cup S) <= Cardinality(Workers)
  <2>1. (U \cup P) \cup S \in SUBSET Workers
    BY <1>s
  <2>2. QED
    BY <2>1, FS_Subset
<1>6. QED
  BY <1>1, <1>4, <1>5 DEF Count, U, P, S

Bit(a, b) == IF a = b THEN 1 ELSE 0

LEMMA CountMoves ==
  ASSUME NEW roles \in [Workers -> Roles], NEW w \in Workers, NEW y \in Roles, NEW r \in Roles
  PROVE  Count([roles EXCEPT ![w] = y], r) = Count(roles, r) - Bit(roles[w], r) + Bit(y, r)
<1> DEFINE A == {v \in Workers : roles[v] = r}
           B == {v \in Workers : [roles EXCEPT ![w] = y][v] = r}
<1>1. IsFiniteSet(A) /\ IsFiniteSet(A \ {w}) /\ Cardinality(A) \in Nat
  BY FS_Subset, FS_CardinalityType, FS_RemoveElement
<1>2. B = IF y = r THEN (A \ {w}) \cup {w} ELSE A \ {w}
  OBVIOUS
<1>3. w \in A <=> roles[w] = r
  OBVIOUS
<1> HIDE DEF A, B
<1>4. Cardinality(A \ {w}) = Cardinality(A) - Bit(roles[w], r)
  BY <1>1, <1>3, FS_RemoveElement DEF Bit
<1>5. Cardinality((A \ {w}) \cup {w}) = Cardinality(A \ {w}) + 1
  BY <1>1, FS_AddElement
<1>6. Cardinality(A \ {w}) \in Nat
  BY <1>1, FS_CardinalityType
<1>7. Cardinality(B) = Cardinality(A \ {w}) + Bit(y, r)
  <2>1. CASE y = r
    BY <1>2, <1>5, <2>1 DEF Bit
  <2>2. CASE y # r
    BY <1>2, <1>6, <2>2 DEF Bit
  <2>3. QED
    BY <2>1, <2>2
<1>8. QED
  BY <1>4, <1>7 DEF Count, A, B

\* The load is at most that of all workers writing back, at least that of those
\* that post, and no greater if the row does not invite any.
LEMMA Loads ==
  ASSUME NEW roles \in [Workers -> Roles], NEW at
  PROVE  LET n == Cardinality(Workers)
         IN  /\ Load(roles, at) \in Int
             /\ Load(roles, at) <= n * (n + 1)
             /\ Count(roles, "post") \in Nat /\ 2 * Count(roles, "post") <= Load(roles, at)
             /\ Load(roles, "closed") <= Load(roles, at)
<1> DEFINE n == Cardinality(Workers)
           u == Count(roles, "relapse")
           p == Count(roles, "record")
           s == Count(roles, "post")
<1>1. n \in Nat /\ u \in Nat /\ p \in Nat /\ s \in Nat /\ u + p + s <= n
  BY Counts, FS_CardinalityType
<1>2. Load(roles, at) = Rounds(n, u) + 2 * (IF at = "open" THEN n - u - p ELSE s)
  BY DEF Load
<1>3. Load(roles, "closed") = Rounds(n, u) + 2 * s
  BY DEF Load
<1> HIDE DEF n, u, p, s
<1>4. u \in 0 .. n /\ 0 <= 2 * n + 1 - u
  BY <1>1
<1>5. Rounds(n, u) >= 0
  BY <1>1, <1>4 DEF Rounds
<1>6. Rounds(n, u) \in Int /\ Rounds(n, u) + 2 * (n - u) <= n * (n + 1)
  BY <1>1, <1>4, Rounding
<1> DEFINE most == n * (n + 1)
           rounds == Rounds(n, u)
           load == Load(roles, at)
           least == Load(roles, "closed")
<1>7. most \in Int
  BY <1>1
<1> HIDE DEF most, rounds, load, least
<1>8. rounds \in Int /\ rounds >= 0 /\ rounds + 2 * (n - u) <= most
  BY <1>5, <1>6 DEF most, rounds
<1>9. CASE at = "open"
  <2>1. load = rounds + 2 * (n - u - p) /\ least = rounds + 2 * s
    BY <1>2, <1>3, <1>9 DEF rounds, load, least
  <2>2. load \in Int /\ load <= most /\ s \in Nat /\ 2 * s <= load /\ least <= load
    BY <1>1, <1>7, <1>8, <2>1
  <2>3. QED
    BY <2>2 DEF n, s, most, load, least
<1>10. CASE at # "open"
  <2>1. load = rounds + 2 * s /\ least = rounds + 2 * s
    BY <1>2, <1>3, <1>10 DEF rounds, load, least
  <2>2. load \in Int /\ load <= most /\ s \in Nat /\ 2 * s <= load /\ least <= load
    BY <1>1, <1>7, <1>8, <2>1
  <2>3. QED
    BY <2>2 DEF n, s, most, load, least
<1>11. QED
  BY <1>9, <1>10

\* What one step may make of a worker's part x, of whether the row is open, of
\* the messages n and of the faults f: it does nothing here; it reads an open
\* row; it posts; it gives up, which loses a record only if the row is closed
\* or for a fault; its post fails or goes unanswered; it writes back what it has.
Turn(x, y, at, at2, n, n2, f, f2) ==
  \/ y = x /\ (at2 = "open" => at = "open") /\ n2 = n /\ f2 \in {f, f + 1}
  \/ x = "free" /\ y = "post" /\ at = "open" /\ at2 = "open" /\ n2 = n /\ f2 = f
  \/ x = "post" /\ y = "record" /\ at2 = at /\ n2 \in {n, n + 1} /\ f2 = f
  \/ y = "free" /\ (at2 = "open" => at = "open") /\ n2 = n
       /\ (f2 = f + 1 \/ (f2 = f /\ (x # "record" \/ at2 # "open")))
  \/ x = "post" /\ y = "relapse" /\ at2 = at /\ n2 \in {n, n + 1} /\ f2 = f + 1
  \/ x = "relapse" /\ y = "free" /\ n2 = n /\ f2 = f

LEMMA TurnKeeps ==
  ASSUME NEW roles \in [Workers -> Roles], NEW w \in Workers, NEW x, x = roles[w], NEW y \in Roles,
         NEW at, NEW at2, NEW n \in Nat, NEW n2 \in Nat,
         NEW f \in Nat, NEW f2, Turn(x, y, at, at2, n, n2, f, f2),
         2 * n + Load(roles, at) <= Cap(f)
  PROVE  2 * n2 + Load([roles EXCEPT ![w] = y], at2) <= Cap(f2)
<1> DEFINE size == Cardinality(Workers)
           after == [roles EXCEPT ![w] = y]
           u == Count(roles, "relapse")
           p == Count(roles, "record")
           s == Count(roles, "post")
           u2 == Count(after, "relapse")
           p2 == Count(after, "record")
           s2 == Count(after, "post")
           R(k) == Rounds(size, k)
<1>0. after \in [Workers -> Roles] /\ x \in Roles /\ {"relapse", "record", "post"} \subseteq Roles
  BY DEF Roles
<1>1. size \in Nat /\ u \in Nat /\ p \in Nat /\ s \in Nat /\ u + p + s <= size
  BY Counts, FS_CardinalityType
<1>2. u2 \in Nat /\ p2 \in Nat /\ s2 \in Nat /\ u2 + p2 + s2 <= size
  BY <1>0, Counts, FS_CardinalityType
<1>3. /\ u2 = u - Bit(x, "relapse") + Bit(y, "relapse")
      /\ p2 = p - Bit(x, "record") + Bit(y, "record")
      /\ s2 = s - Bit(x, "post") + Bit(y, "post")
  <2>1. \A r \in Roles : Count(after, r) = Count(roles, r) - Bit(x, r) + Bit(y, r)
    BY CountMoves
  <2>2. QED
    BY <1>0, <2>1
<1>4. /\ Load(roles, at) = R(u) + 2 * (IF at = "open" THEN size - u - p ELSE s)
      /\ Load(after, at2) = R(u2) + 2 * (IF at2 = "open" THEN size - u2 - p2 ELSE s2)
  BY DEF Load
<1>5. /\ Cap(f) \in Int /\ Cap(f + 1) \in Int /\ Cap(f + 1) = Cap(f) + 2 * size
      /\ size >= 1
  <2>1. IsFiniteSet(Workers) /\ Workers # {}
    OBVIOUS
  <2>2. size # 0
    BY <2>1, FS_EmptySet
  <2>3. QED
    BY <1>1, <2>2, Caps
<1>6. R(u) \in Int /\ R(u2) \in Int
  <2>1. u \in 0 .. size /\ u2 \in 0 .. size
    BY <1>1, <1>2
  <2>2. QED
    BY <1>1, <2>1, Rounding
<1>7. R(u + 1) = R(u) + 2 * (size - u) /\ (u >= 1 => R(u) = R(u - 1) + 2 * (size - (u - 1)))
  <2>1. R(u + 1) = R(u) + 2 * (size - u)
    BY <1>1, Rounding
  <2>2. ASSUME u >= 1 PROVE R(u) = R(u - 1) + 2 * (size - (u - 1))
    <3>1. u - 1 \in 0 .. size /\ (u - 1) + 1 = u
      BY <1>1, <2>2
    <3>2. R((u - 1) + 1) = R(u - 1) + 2 * (size - (u - 1))
      BY <1>1, <3>1, Rounding
    <3>3. QED
      BY <3>1, <3>2
  <2>3. QED
    BY <2>1, <2>2
<1> SUFFICES 2 * n2 + Load(after, at2) <= Cap(f2)
  OBVIOUS
<1> HIDE DEF size, after, u, p, s, u2, p2, s2, R
<1>8. CASE y = x /\ (at2 = "open" => at = "open") /\ n2 = n /\ f2 \in {f, f + 1}
  BY <1>1, <1>2, <1>3, <1>4, <1>5, <1>6, <1>8 DEF Bit
<1>9. CASE x = "free" /\ y = "post" /\ at = "open" /\ at2 = "open" /\ n2 = n /\ f2 = f
  BY <1>1, <1>2, <1>3, <1>4, <1>5, <1>6, <1>9 DEF Bit
<1>10. CASE x = "post" /\ y = "record" /\ at2 = at /\ n2 \in {n, n + 1} /\ f2 = f
  BY <1>1, <1>2, <1>3, <1>4, <1>5, <1>6, <1>10 DEF Bit
<1>11. CASE x # "relapse" /\ y = "free" /\ (at2 = "open" => at = "open") /\ n2 = n
              /\ (f2 = f + 1 \/ (f2 = f /\ (x # "record" \/ at2 # "open")))
  BY <1>0, <1>1, <1>2, <1>3, <1>4, <1>5, <1>6, <1>11 DEF Bit, Roles
<1>12. CASE x = "post" /\ y = "relapse" /\ at2 = at /\ n2 \in {n, n + 1} /\ f2 = f + 1
  BY <1>1, <1>2, <1>3, <1>4, <1>5, <1>6, <1>7, <1>12 DEF Bit
<1>13. CASE x = "relapse" /\ y = "free" /\ n2 = n /\ f2 \in {f, f + 1}
  <2>1. u2 = u - 1 /\ p2 = p /\ s2 = s /\ u >= 1
    BY <1>1, <1>2, <1>3, <1>13 DEF Bit
  <2>2. R(u) = R(u2) + 2 * (size - u + 1)
    BY <1>1, <1>2, <1>7, <2>1
  <2>3. QED
    BY <1>1, <1>2, <1>4, <1>5, <1>6, <1>13, <2>1, <2>2
<1>14. QED
  BY <1>8, <1>9, <1>10, <1>11, <1>12, <1>13 DEF Turn
-----------------------------------------------------------------------------
LEMMA RoleTypes ==
  ASSUME NEW p, NEW l, NEW x
  PROVE  AlertRole(p, l, x) \in Roles /\ DigestRole(p, l, x) \in Roles
  BY DEF AlertRole, DigestRole, CopyRole, Roles

\* A step of one pass changes the part of its worker only.
LEMMA RolesMove ==
  ASSUME Inv, NEW w \in Workers, NEW p, pass' = [pass EXCEPT ![w] = p], problem' = problem,
         NEW l \in Leagues, NEW d \in Digests
  PROVE  /\ AlertRoles(l)' = [AlertRoles(l) EXCEPT ![w] = AlertRole(p, l, problem[l])]
         /\ AlertRoles(l)[w] = AlertRole(pass[w], l, problem[l])
         /\ DigestRoles(l, d)' = [DigestRoles(l, d) EXCEPT ![w] = DigestRole(p, l, d)]
         /\ DigestRoles(l, d)[w] = DigestRole(pass[w], l, d)
  BY DEF Inv, TypeOK, AlertRoles, DigestRoles

LEMMA RolesAreFunctions ==
  ASSUME NEW l, NEW d
  PROVE  AlertRoles(l) \in [Workers -> Roles] /\ DigestRoles(l, d) \in [Workers -> Roles]
  BY RoleTypes DEF AlertRoles, DigestRoles

\* What a step may do about a digest that is not the row's: nobody reads it any
\* more.
Fade(x, y, n, n2) ==
  \/ n2 = n /\ (y = "post" => x = "post")
  \/ n2 = n + 1 /\ x = "post" /\ y # "post"

LEMMA FadeKeeps ==
  ASSUME NEW roles \in [Workers -> Roles], NEW w \in Workers, NEW x, x = roles[w], NEW y \in Roles,
         NEW n \in Nat, NEW n2 \in Nat, Fade(x, y, n, n2), NEW m \in Int,
         2 * n + 2 * Count(roles, "post") <= m
  PROVE  2 * n2 + 2 * Count([roles EXCEPT ![w] = y], "post") <= m
<1>1. "post" \in Roles
  BY DEF Roles
<1>2. Count([roles EXCEPT ![w] = y], "post") = Count(roles, "post") - Bit(x, "post") + Bit(y, "post")
  BY <1>1, CountMoves
<1>3. Count(roles, "post") \in Nat
  BY Counts
<1>4. QED
  BY <1>2, <1>3 DEF Bit, Fade

\* A worker that still posts a digest has read it in the row.
LEMMA PostsWhatItRead ==
  ASSUME Inv, AgeInv, NEW w \in Workers, NEW l \in Leagues, NEW d \in Digests,
         DigestRole(pass[w], l, d) = "post"
  PROVE  league[l].digest # None /\ d <= league[l].digest
<1>1. d # None
  BY DEF Digests
<1>2. CASE pass[w].at \in {"alerts", "changes"} /\ pass[w].league = l
  BY <1>1, <1>2 DEF DigestRole, CopyRole, AgeInv, Reached, Working
<1>3. CASE ~(pass[w].at \in {"alerts", "changes"} /\ pass[w].league = l)
  BY <1>1, <1>3 DEF DigestRole, CopyRole, AgeInv, Reached
<1>4. QED
  BY <1>2, <1>3

LEMMA StandStep ==
  ASSUME Inv, Inv', Standing, NEW w \in Workers, NEW p,
         pass' = [pass EXCEPT ![w] = p], problem' = problem, faults' \in {faults, faults + 1},
         \A l \in Leagues : league'[l].digest = league[l].digest,
         Sane(p),
         \/ p.loaded \in {pass[w].loaded, None}
         \/ \A l \in Leagues : Reached(league[l].digest, p.loaded[l].digest),
         p.at \in {"alerts", "changes", "save"} => Reached(league[p.league].digest, p.mine.digest),
         \A l \in Leagues :
           Turn(AlertRole(pass[w], l, problem[l]), AlertRole(p, l, problem[l]),
                AlertRow(l), AlertRow(l)', alerted[l], alerted'[l], faults, faults'),
         \A l \in Leagues, d \in Digests : league[l].digest = d =>
           Turn(DigestRole(pass[w], l, d), DigestRole(p, l, d),
                DigestRow(l, d), DigestRow(l, d)', sent[l][d], sent'[l][d], faults, faults'),
         \A l \in Leagues, d \in Digests : league[l].digest # d =>
           Fade(DigestRole(pass[w], l, d), DigestRole(p, l, d), sent[l][d], sent'[l][d])
  PROVE  Standing'
<1>1. /\ pass'[w] = p /\ \A v \in Workers : v # w => pass'[v] = pass[v]
      /\ faults \in Nat /\ faults' \in Nat
      /\ Cap(faults) \in Int /\ Cap(faults') \in Int /\ Cap(faults) <= Cap(faults')
  <2>1. faults \in Nat /\ faults' \in Nat
    BY DEF Inv, TypeOK
  <2>2. Cap(faults) \in Int /\ Cap(faults + 1) \in Int /\ Cap(faults) <= Cap(faults + 1)
    BY <2>1, Caps
  <2>3. QED
    BY <2>1, <2>2 DEF Inv, TypeOK
<1>2. PassInv'
  BY <1>1 DEF Standing, PassInv
<1>3. AgeInv'
  <2> SUFFICES ASSUME NEW v \in Workers
               PROVE  /\ pass'[v].loaded # None => \A l \in Leagues : Reached(league'[l].digest, pass'[v].loaded[l].digest)
                      /\ pass'[v].at \in {"alerts", "changes", "save"} => Reached(league'[pass'[v].league].digest, pass'[v].mine.digest)
    BY DEF AgeInv, Working
  <2>2. CASE v = w
    <3>1. pass'[v].loaded # None => \A l \in Leagues : Reached(league[l].digest, p.loaded[l].digest)
      BY <1>1, <2>2 DEF Standing, AgeInv
    <3>2. pass'[v].at \in {"alerts", "changes", "save"} => p.league \in Leagues /\ Reached(league[p.league].digest, p.mine.digest)
      BY <1>1, <2>2 DEF Working, Inv, WorkInv
    <3>3. QED
      BY <1>1, <2>2, <3>1, <3>2
  <2>3. CASE v # w
    <3>1. pass'[v].at \in {"alerts", "changes", "save"} => pass[v].league \in Leagues /\ Reached(league[pass[v].league].digest, pass[v].mine.digest)
      BY <1>1, <2>3 DEF Working, Inv, WorkInv, Standing, AgeInv
    <3>2. QED
      BY <1>1, <2>3, <3>1 DEF Standing, AgeInv
  <2>4. QED
    BY <2>2, <2>3
<1>4. ASSUME NEW l \in Leagues
      PROVE  2 * alerted'[l] + Load(AlertRoles(l)', AlertRow(l)') <= Cap(faults')
  <2> DEFINE at == AlertRow(l)
             at2 == AlertRow(l)'
             x == AlertRole(pass[w], l, problem[l])
             y == AlertRole(p, l, problem[l])
             roles == AlertRoles(l)
  <2>2. roles \in [Workers -> Roles] /\ y \in Roles /\ x = roles[w] /\ AlertRoles(l)' = [roles EXCEPT ![w] = y]
    BY RolesAreFunctions, RoleTypes DEF Inv, TypeOK, AlertRoles
  <2>3. alerted[l] \in Nat /\ alerted'[l] \in Nat
    BY DEF Inv, TypeOK
  <2>4. 2 * alerted[l] + Load(roles, at) <= Cap(faults)
    BY DEF Standing, AlertInv
  <2>5. Turn(x, y, at, at2, alerted[l], alerted'[l], faults, faults')
    OBVIOUS
  <2> HIDE DEF at, at2, x, y, roles
  <2>6. 2 * alerted'[l] + Load([roles EXCEPT ![w] = y], at2) <= Cap(faults')
    BY <1>1, <2>2, <2>3, <2>4, <2>5, TurnKeeps
  <2>7. QED
    BY <2>2, <2>6 DEF at2
<1>5. ASSUME NEW l \in Leagues, NEW d \in Digests, league[l].digest = d
      PROVE  2 * sent'[l][d] + Load(DigestRoles(l, d)', DigestRow(l, d)') <= Cap(faults')
  <2> DEFINE at == DigestRow(l, d)
             at2 == DigestRow(l, d)'
             x == DigestRole(pass[w], l, d)
             y == DigestRole(p, l, d)
             roles == DigestRoles(l, d)
  <2>2. roles \in [Workers -> Roles] /\ y \in Roles /\ x = roles[w] /\ DigestRoles(l, d)' = [roles EXCEPT ![w] = y]
    BY RolesAreFunctions, RoleTypes DEF Inv, TypeOK, DigestRoles
  <2>3. sent[l][d] \in Nat /\ sent'[l][d] \in Nat
    BY DEF Inv, TypeOK
  <2>4. 2 * sent[l][d] + Load(roles, at) <= Cap(faults)
    BY <1>5 DEF Standing, DigestInv
  <2>5. Turn(x, y, at, at2, sent[l][d], sent'[l][d], faults, faults')
    BY <1>5
  <2> HIDE DEF at, at2, x, y, roles
  <2>6. 2 * sent'[l][d] + Load([roles EXCEPT ![w] = y], at2) <= Cap(faults')
    BY <1>1, <2>2, <2>3, <2>4, <2>5, TurnKeeps
  <2>7. QED
    BY <2>2, <2>6 DEF at2
<1>6. ASSUME NEW l \in Leagues, NEW d \in Digests, league[l].digest # d
      PROVE  /\ league[l].digest = None => sent'[l][d] = 0
             /\ league[l].digest # None /\ league[l].digest < d => sent'[l][d] = 0
             /\ league[l].digest # None /\ league[l].digest > d =>
                  2 * sent'[l][d] + 2 * Count(DigestRoles(l, d)', "post") <= Cap(faults')
  <2> DEFINE x == DigestRole(pass[w], l, d)
             y == DigestRole(p, l, d)
             roles == DigestRoles(l, d)
             last == league[l].digest
  <2>1. roles \in [Workers -> Roles] /\ y \in Roles /\ x = roles[w] /\ DigestRoles(l, d)' = [roles EXCEPT ![w] = y]
    BY RolesAreFunctions, RoleTypes DEF Inv, TypeOK, DigestRoles
  <2>2. sent[l][d] \in Nat /\ sent'[l][d] \in Nat /\ d \in Nat /\ last \in Nat \cup {None}
    BY DEF Inv, TypeOK, Row, Digests
  <2>3. Fade(x, y, sent[l][d], sent'[l][d])
    BY <1>6
  <2>4. x = "post" => last # None /\ d <= last
    BY PostsWhatItRead DEF Standing
  <2>5. /\ last = None => sent[l][d] = 0
        /\ last # None /\ last < d => sent[l][d] = 0
        /\ last # None /\ last > d => 2 * sent[l][d] + 2 * Count(roles, "post") <= Cap(faults)
    BY DEF Standing, DigestInv
  <2>6. Count([roles EXCEPT ![w] = y], "post") \in Nat
    BY <2>1, Counts
  <2> HIDE DEF x, y, roles, last
  <2>7. last = None \/ last < d => sent'[l][d] = 0
    BY <1>6, <2>2, <2>3, <2>4, <2>5 DEF Fade
  <2>8. ASSUME last # None, last > d PROVE 2 * sent'[l][d] + 2 * Count([roles EXCEPT ![w] = y], "post") <= Cap(faults')
    <3>1. 2 * sent'[l][d] + 2 * Count([roles EXCEPT ![w] = y], "post") <= Cap(faults)
      BY <1>1, <2>1, <2>2, <2>3, <2>5, <2>8, FadeKeeps
    <3>2. QED
      BY <1>1, <2>2, <2>6, <3>1
  <2>9. QED
    BY <2>1, <2>7, <2>8 DEF last
<1>7. AlertInv'
  BY <1>4 DEF AlertInv
<1>8. DigestInv'
  BY <1>5, <1>6 DEF DigestInv, Digests, Inv, TypeOK, Row
<1>9. QED
  BY <1>2, <1>3, <1>7, <1>8 DEF Standing

-----------------------------------------------------------------------------
\* A pass that begins has nothing in hand, and reads every row.
LEMMA StartStands ==
  ASSUME Inv, Inv', Standing, NEW w \in Workers, StartPass(w) PROVE Standing'
<1> DEFINE p == [Idle EXCEPT !.at = "next", !.todo = {l \in Leagues : league[l].live},
                             !.loaded = [l \in Leagues |-> [league[l] EXCEPT !.live = TRUE]]]
<1>1. pass[w] = Idle
  BY DEF StartPass, Standing, PassInv, Sane
<1>2. /\ p.at = "next" /\ p.todo = {l \in Leagues : league[l].live}
      /\ p.loaded = [l \in Leagues |-> [league[l] EXCEPT !.live = TRUE]]
  BY DEF Idle
<1>3. /\ \A l \in Leagues : p.loaded[l].digest = league[l].digest /\ p.loaded[l].notified = league[l].notified
      /\ \A l \in p.todo : l \in Leagues /\ league[l].live
      /\ p.at = "next"
  BY <1>2 DEF Inv, TypeOK, Row
<1>4. pass' = [pass EXCEPT ![w] = p]
  BY DEF StartPass
<1>5. UNCHANGED <<league, problem, sent, alerted, told, faults>> /\ faults' \in {faults, faults + 1}
  BY DEF StartPass
<1>6. \A l, x : AlertRole(Idle, l, x) = "free" /\ DigestRole(Idle, l, x) = "free"
  BY DEF AlertRole, DigestRole, Idle
<1> HIDE DEF p
<1>7. \A l \in Leagues : Turn(AlertRole(pass[w], l, problem[l]), AlertRole(p, l, problem[l]),
        AlertRow(l), AlertRow(l)', alerted[l], alerted'[l], faults, faults')
  <2> SUFFICES ASSUME NEW l \in Leagues
               PROVE  Turn("free", AlertRole(p, l, problem[l]), AlertRow(l), AlertRow(l)',
                           alerted[l], alerted[l], faults, faults)
    BY <1>1, <1>5, <1>6
  <2>1. AlertRow(l)' = AlertRow(l)
    BY <1>5 DEF AlertRow
  <2>2. AlertRole(p, l, problem[l]) = "free" \/ (AlertRole(p, l, problem[l]) = "post" /\ AlertRow(l) = "open")
    BY <1>3 DEF AlertRole, AlertRow
  <2>3. QED
    BY <2>1, <2>2 DEF Turn
<1>8. \A l \in Leagues, d \in Digests : league[l].digest = d =>
        Turn(DigestRole(pass[w], l, d), DigestRole(p, l, d), DigestRow(l, d), DigestRow(l, d)',
             sent[l][d], sent'[l][d], faults, faults')
  <2> SUFFICES ASSUME NEW l \in Leagues, NEW d \in Digests, league[l].digest = d
               PROVE  Turn("free", DigestRole(p, l, d), DigestRow(l, d), DigestRow(l, d)',
                           sent[l][d], sent[l][d], faults, faults)
    BY <1>1, <1>5, <1>6
  <2>1. DigestRow(l, d)' = DigestRow(l, d)
    BY <1>5 DEF DigestRow
  <2>2. DigestRole(p, l, d) = "free" \/ (DigestRole(p, l, d) = "post" /\ DigestRow(l, d) = "open")
    BY <1>3 DEF DigestRole, CopyRole, DigestRow
  <2>3. QED
    BY <2>1, <2>2 DEF Turn
<1>9. \A l \in Leagues, d \in Digests : league[l].digest # d =>
        Fade(DigestRole(pass[w], l, d), DigestRole(p, l, d), sent[l][d], sent'[l][d])
  <2> SUFFICES ASSUME NEW l \in Leagues, NEW d \in Digests, league[l].digest # d
               PROVE  DigestRole(p, l, d) # "post"
    BY <1>5 DEF Fade
  <2>1. QED
    BY <1>3 DEF DigestRole, CopyRole
<1>10. Sane(p)
  BY <1>2 DEF Sane
<1>11. \A l \in Leagues : Reached(league[l].digest, p.loaded[l].digest)
  BY <1>3 DEF Reached, Inv, TypeOK, Row, Digests
<1>12. QED
  BY <1>2, <1>4, <1>5, <1>7, <1>8, <1>9, <1>10, <1>11, StandStep

\* Steps that write and send nothing, and after which the pass has less in hand
\* than before, or as much.
Drops(x, y, f, f2) == y = x \/ (y = "free" /\ (x # "record" \/ f2 = f + 1))

LEMMA DropStands ==
  ASSUME Inv, Inv', Standing, NEW w \in Workers, NEW p,
         pass' = [pass EXCEPT ![w] = p], UNCHANGED <<league, problem, sent, alerted, told>>,
         faults' \in {faults, faults + 1}, Sane(p), p.loaded \in {pass[w].loaded, None},
         p.at \in {"alerts", "changes", "save"} => Reached(league[p.league].digest, p.mine.digest),
         \A l \in Leagues :
           Drops(AlertRole(pass[w], l, problem[l]), AlertRole(p, l, problem[l]), faults, faults'),
         \A l \in Leagues, d \in Digests :
           Drops(DigestRole(pass[w], l, d), DigestRole(p, l, d), faults, faults')
  PROVE  Standing'
<1>1. \A l \in Leagues : AlertRow(l)' = AlertRow(l) /\ \A d \in Digests : DigestRow(l, d)' = DigestRow(l, d)
  BY DEF AlertRow, DigestRow
<1>2. ASSUME NEW x, NEW y, NEW at, NEW n, Drops(x, y, faults, faults')
      PROVE  Turn(x, y, at, at, n, n, faults, faults') /\ (y = "post" => x = "post")
  <2>1. CASE y = x
    BY <2>1 DEF Turn
  <2>2. CASE y = "free" /\ (x # "record" \/ faults' = faults + 1)
    BY <2>2 DEF Turn
  <2>3. QED
    BY <1>2, <2>1, <2>2 DEF Drops
<1>3. \A l \in Leagues :
        Turn(AlertRole(pass[w], l, problem[l]), AlertRole(p, l, problem[l]),
             AlertRow(l), AlertRow(l)', alerted[l], alerted'[l], faults, faults')
  BY <1>1, <1>2
<1>4. \A l \in Leagues, d \in Digests :
        /\ Turn(DigestRole(pass[w], l, d), DigestRole(p, l, d),
                DigestRow(l, d), DigestRow(l, d)', sent[l][d], sent'[l][d], faults, faults')
        /\ Fade(DigestRole(pass[w], l, d), DigestRole(p, l, d), sent[l][d], sent'[l][d])
  BY <1>1, <1>2 DEF Fade
<1>5. QED
  BY <1>3, <1>4, StandStep

\* Ending the pass, and going on to the next league after a failed commit.
LEMMA EndStands ==
  ASSUME Inv, Inv', Standing, NEW w \in Workers,
         \/ \E l \in Leagues : TakeDeletedLeague(w, l)
         \/ SaveFails(w) \/ Crash(w) \/ EndPass(w)
  PROVE  Standing'
<1> DEFINE next == [Idle EXCEPT !.at = "next", !.todo = pass[w].todo]
<1>1. PICK p \in {Idle, next} : pass' = [pass EXCEPT ![w] = p]
  BY DEF TakeDeletedLeague, SaveFails, Crash, EndPass
<1>2. /\ p.loaded = None /\ p.at \in {"idle", "next"} /\ (p.at = "idle" => p = Idle)
  <2>1. Idle.loaded = None /\ Idle.at = "idle" /\ next.loaded = None /\ next.at = "next"
    BY DEF Idle
  <2>2. QED
    BY <1>1, <2>1
<1>3. \A l, x : AlertRole(p, l, x) = "free" /\ DigestRole(p, l, x) = "free"
  BY <1>2 DEF AlertRole, DigestRole
<1>4. faults' = faults + 1 \/ (faults' = faults /\ pass[w].at = "next")
  <2>1. CASE \E l \in Leagues : TakeDeletedLeague(w, l)
    BY <2>1 DEF TakeDeletedLeague
  <2>2. CASE SaveFails(w) \/ Crash(w) \/ EndPass(w)
    BY <2>2 DEF SaveFails, Crash, EndPass
  <2>3. QED
    BY <2>1, <2>2
<1>5. pass[w].at = "next" => \A l, x : AlertRole(pass[w], l, x) # "record" /\ DigestRole(pass[w], l, x) # "record"
  BY DEF AlertRole, DigestRole, CopyRole
<1>6. UNCHANGED <<league, problem, sent, alerted, told>>
  BY DEF TakeDeletedLeague, SaveFails, Crash, EndPass
<1>7. Sane(p)
  BY <1>2 DEF Sane
<1>8. /\ \A l \in Leagues :
           Drops(AlertRole(pass[w], l, problem[l]), AlertRole(p, l, problem[l]), faults, faults')
      /\ \A l \in Leagues, d \in Digests :
           Drops(DigestRole(pass[w], l, d), DigestRole(p, l, d), faults, faults')
  BY <1>3, <1>4, <1>5 DEF Drops
<1> HIDE DEF next
<1>9. QED
  BY <1>1, <1>2, <1>4, <1>6, <1>7, <1>8, DropStands

\* The next league, with the row loaded before or with the row as it is.
LEMMA TakeStands ==
  ASSUME Inv, Inv', Standing, NEW w \in Workers, NEW l0 \in Leagues, TakeLeague(w, l0)
  PROVE  Standing'
<1> DEFINE row == IF pass[w].loaded = None THEN league[l0] ELSE pass[w].loaded[l0]
           p == [pass[w] EXCEPT !.at = "alerts", !.todo = @ \ {l0}, !.league = l0,
                                !.loaded = IF pass[w].todo = {l0} THEN None ELSE @,
                                !.mine = row, !.already = row.notified]
<1>1. pass[w] \in Pass /\ pass[w].at = "next" /\ l0 \in pass[w].todo
  BY DEF Inv, TypeOK, TakeLeague
<1>2. /\ p.at = "alerts" /\ p.todo = pass[w].todo \ {l0} /\ p.league = l0
      /\ p.loaded = IF pass[w].todo = {l0} THEN None ELSE pass[w].loaded
      /\ p.mine = row /\ p.already = row.notified
  BY <1>1 DEF Pass
<1>3. /\ pass' = [pass EXCEPT ![w] = p]
      /\ UNCHANGED <<league, problem, sent, alerted, told, faults>>
      /\ pass[w].loaded # None \/ league[l0].live
  BY DEF TakeLeague
<1> HIDE DEF p
<1>4. Sane(p)
  BY <1>2 DEF Sane
<1>5. p.loaded \in {pass[w].loaded, None}
  BY <1>2
<1>6. CASE pass[w].loaded # None
  <2>1. Reached(league[l0].digest, row.digest)
    BY <1>6 DEF Standing, AgeInv
  <2>2. ASSUME NEW l \in Leagues, NEW x
        PROVE  /\ AlertRole(pass[w], l, x) = AlertRole(p, l, x)
               /\ DigestRole(pass[w], l, x) = DigestRole(p, l, x)
    <3>1. CASE l = l0
      BY <1>1, <1>2, <1>6, <3>1 DEF AlertRole, DigestRole
    <3>2. CASE l # l0
      <4>1. p.league # l /\ (l \in p.todo <=> l \in pass[w].todo)
            /\ (l \in p.todo => p.loaded = pass[w].loaded)
        BY <1>2, <3>2
      <4>2. QED
        BY <1>1, <1>2, <4>1 DEF AlertRole, DigestRole
    <3>3. QED
      BY <3>1, <3>2
  <2>3. /\ \A l \in Leagues :
             Drops(AlertRole(pass[w], l, problem[l]), AlertRole(p, l, problem[l]), faults, faults')
        /\ \A l \in Leagues, d \in Digests :
             Drops(DigestRole(pass[w], l, d), DigestRole(p, l, d), faults, faults')
    BY <2>2 DEF Drops
  <2>4. QED
    BY <1>2, <1>3, <1>4, <1>5, <2>1, <2>3, DropStands
<1>7. CASE pass[w].loaded = None
  <2>1. row = league[l0] /\ league[l0] \in Row /\ league[l0].live
    BY <1>3, <1>7 DEF Inv, TypeOK
  <2>2. \A l, x : AlertRole(pass[w], l, x) = "free" /\ DigestRole(pass[w], l, x) = "free"
    BY <1>1, <1>7 DEF AlertRole, DigestRole
  <2>3. \A l, x : l # l0 => AlertRole(p, l, x) = "free" /\ DigestRole(p, l, x) = "free"
    BY <1>2, <1>7 DEF AlertRole, DigestRole
  <2>4. \A x : AlertRole(p, l0, x) = IF league[l0].notified.alerts # x THEN "post" ELSE "free"
    BY <1>2, <2>1 DEF AlertRole
  <2>5. \A x : DigestRole(p, l0, x) = CopyRole(league[l0].digest, league[l0].notified.changes, x)
    BY <1>2, <2>1 DEF DigestRole
  <2>6. \A l \in Leagues : AlertRow(l)' = AlertRow(l) /\ \A d \in Digests : DigestRow(l, d)' = DigestRow(l, d)
    BY <1>3 DEF AlertRow, DigestRow
  <2>7. \A l \in Leagues : Turn(AlertRole(pass[w], l, problem[l]), AlertRole(p, l, problem[l]),
          AlertRow(l), AlertRow(l)', alerted[l], alerted'[l], faults, faults')
    <3> SUFFICES ASSUME NEW l \in Leagues
                 PROVE  Turn("free", AlertRole(p, l, problem[l]), AlertRow(l), AlertRow(l),
                             alerted[l], alerted[l], faults, faults)
      BY <1>3, <2>2, <2>6
    <3>1. AlertRole(p, l, problem[l]) = "free"
          \/ (AlertRole(p, l, problem[l]) = "post" /\ AlertRow(l) = "open")
      BY <2>1, <2>3, <2>4 DEF AlertRow
    <3>2. QED
      BY <3>1 DEF Turn
  <2>8. \A l \in Leagues, d \in Digests : league[l].digest = d =>
          Turn(DigestRole(pass[w], l, d), DigestRole(p, l, d), DigestRow(l, d), DigestRow(l, d)',
               sent[l][d], sent'[l][d], faults, faults')
    <3> SUFFICES ASSUME NEW l \in Leagues, NEW d \in Digests, league[l].digest = d
                 PROVE  Turn("free", DigestRole(p, l, d), DigestRow(l, d), DigestRow(l, d),
                             sent[l][d], sent[l][d], faults, faults)
      BY <1>3, <2>2, <2>6
    <3>1. DigestRole(p, l, d) = "free"
          \/ (DigestRole(p, l, d) = "post" /\ DigestRow(l, d) = "open")
      BY <2>1, <2>3, <2>5 DEF DigestRow, CopyRole
    <3>2. QED
      BY <3>1 DEF Turn
  <2>9. \A l \in Leagues, d \in Digests : league[l].digest # d =>
          Fade(DigestRole(pass[w], l, d), DigestRole(p, l, d), sent[l][d], sent'[l][d])
    BY <1>3, <2>3, <2>5 DEF Fade, CopyRole
  <2>10. Reached(league[l0].digest, row.digest)
    BY <2>1 DEF Reached, Row, Digests
  <2>11. QED
    BY <1>2, <1>3, <1>4, <1>5, <2>7, <2>8, <2>9, <2>10, StandStep
<1>8. QED
  BY <1>6, <1>7

\* A post about league l0: the parts played about other leagues stay as they are.
LEMMA AlertStands ==
  ASSUME Inv, Inv', Standing, NEW w \in Workers, NEW outcome \in Outcomes, CheckAlerts(w, outcome)
  PROVE  Standing'
<1> DEFINE l0 == pass[w].league
           key == problem[l0]
           old == pass[w].already.alerts
           delivered == Unsent(old, key) /\ outcome = "confirmed"
           after == AlertsAfter(old, key, delivered)
           p == [pass[w] EXCEPT !.at = "changes", !.already.alerts = after]
<1>1. /\ pass[w] \in Pass /\ pass[w].at = "alerts" /\ l0 \in Leagues
      /\ pass[w].mine \in Row /\ pass[w].already \in Notified
      /\ pass[w].already = pass[w].mine.notified /\ l0 \notin pass[w].todo
      /\ Reached(league[l0].digest, pass[w].mine.digest)
  BY DEF CheckAlerts, Inv, TypeOK, WorkInv, Working, Standing, PassInv, Sane, AgeInv
<1>2. /\ p.at = "changes" /\ p.league = l0 /\ p.mine = pass[w].mine
      /\ p.loaded = pass[w].loaded /\ p.todo = pass[w].todo
      /\ p.already.alerts = after /\ p.already.changes = pass[w].already.changes
  BY <1>1 DEF Pass, Notified
<1>3. pass' = [pass EXCEPT ![w] = p]
  BY AlertPass
<1>4. UNCHANGED <<league, problem, sent>>
  BY DEF CheckAlerts
<1>5. /\ faults' \in {faults, faults + 1}
      /\ \A l \in Leagues : l # l0 => alerted'[l] = alerted[l]
      /\ \/ old = key /\ after = key /\ faults' = faults /\ alerted'[l0] = alerted[l0]
         \/ old # key /\ after = key /\ faults' = faults /\ alerted'[l0] \in {alerted[l0], alerted[l0] + 1}
         \/ /\ old # key /\ after = old /\ faults' = faults + 1
            /\ alerted'[l0] \in {alerted[l0], alerted[l0] + 1}
  BY <1>1 DEF CheckAlerts, Attempt, AlertsAfter, Unsent, Inv, TypeOK
<1>6. Sane(p)
  BY <1>1, <1>2 DEF Sane
<1>7. /\ AlertRole(pass[w], l0, key) = IF old # key THEN "post" ELSE "free"
      /\ AlertRole(p, l0, key) = IF after # key THEN "relapse" ELSE IF old # key THEN "record" ELSE "free"
      /\ \A d : DigestRole(p, l0, d) = DigestRole(pass[w], l0, d)
  BY <1>1, <1>2 DEF AlertRole, DigestRole
<1>8. ASSUME NEW l, l # l0, NEW x
      PROVE  AlertRole(p, l, x) = AlertRole(pass[w], l, x) /\ DigestRole(p, l, x) = DigestRole(pass[w], l, x)
  BY <1>1, <1>2, <1>8 DEF AlertRole, DigestRole
<1>9. \A l \in Leagues : AlertRow(l)' = AlertRow(l) /\ \A d \in Digests : DigestRow(l, d)' = DigestRow(l, d)
  BY <1>4 DEF AlertRow, DigestRow
<1> HIDE DEF p, delivered, after, old, key, l0
<1>10. ASSUME NEW l \in Leagues
       PROVE  Turn(AlertRole(pass[w], l, problem[l]), AlertRole(p, l, problem[l]),
                   AlertRow(l), AlertRow(l)', alerted[l], alerted'[l], faults, faults')
  <2>1. CASE l = l0
    BY <1>5, <1>7, <1>9, <2>1 DEF Turn, key
  <2>2. CASE l # l0
    BY <1>5, <1>8, <1>9, <2>2 DEF Turn
  <2>3. QED
    BY <2>1, <2>2
<1>11. ASSUME NEW l \in Leagues, NEW d \in Digests
       PROVE  /\ Turn(DigestRole(pass[w], l, d), DigestRole(p, l, d), DigestRow(l, d), DigestRow(l, d)',
                      sent[l][d], sent'[l][d], faults, faults')
              /\ Fade(DigestRole(pass[w], l, d), DigestRole(p, l, d), sent[l][d], sent'[l][d])
  <2>1. DigestRole(p, l, d) = DigestRole(pass[w], l, d)
    BY <1>7, <1>8
  <2>2. QED
    BY <1>4, <1>5, <1>9, <2>1 DEF Turn, Fade
<1>12. QED
  BY <1>1, <1>2, <1>3, <1>4, <1>5, <1>6, <1>10, <1>11, StandStep

LEMMA ChangesStands ==
  ASSUME Inv, Inv', Standing, NEW w \in Workers, NEW outcome \in Outcomes, CheckChanges(w, outcome)
  PROVE  Standing'
<1> DEFINE l0 == pass[w].league
           key == pass[w].mine.digest
           old == pass[w].already.changes
           posts == Unsent(old, key)
           after == ChangesAfter(old, key, posts /\ outcome = "confirmed")
           p == [pass[w] EXCEPT !.at = "save", !.already.changes = after]
<1>1. /\ pass[w] \in Pass /\ pass[w].at = "changes" /\ l0 \in Leagues
      /\ pass[w].mine \in Row /\ pass[w].already \in Notified
      /\ old = pass[w].mine.notified.changes /\ l0 \notin pass[w].todo
      /\ Reached(league[l0].digest, key)
  BY DEF CheckChanges, Inv, TypeOK, WorkInv, Working, Standing, PassInv, Sane, AgeInv
<1>2. /\ p.at = "save" /\ p.league = l0 /\ p.mine = pass[w].mine
      /\ p.loaded = pass[w].loaded /\ p.todo = pass[w].todo
      /\ p.already.changes = after /\ p.already.alerts = pass[w].already.alerts
  BY <1>1 DEF Pass, Notified
<1>3. pass' = [pass EXCEPT ![w] = p]
  BY <1>1 DEF CheckChanges, Inv, TypeOK, Pass, Notified
<1>4. UNCHANGED <<league, problem, alerted>>
  BY DEF CheckChanges
<1>5. /\ faults' \in {faults, faults + 1}
      /\ \A l \in Leagues, d \in Digests : l # l0 \/ d # key => sent'[l][d] = sent[l][d]
      /\ \/ posts /\ after = key /\ faults' = faults /\ sent'[l0][key] = sent[l0][key] + 1
         \/ /\ posts /\ after = old /\ faults' = faults + 1
            /\ sent'[l0][key] \in {sent[l0][key], sent[l0][key] + 1}
         \/ ~posts /\ after = old /\ faults' = faults /\ sent' = sent
  <2>1. sent \in [Leagues -> [Digests -> Nat]] /\ key \in Digests \cup {None}
    BY <1>1 DEF Inv, TypeOK, Row
  <2>2. posts => key \in Digests
    BY <2>1 DEF Unsent
  <2>3. /\ Attempt(posts, outcome)
        /\ sent' = IF posts /\ Arrives(outcome) THEN [sent EXCEPT ![l0][key] = @ + 1] ELSE sent
    BY DEF CheckChanges
  <2> HIDE DEF posts, key, l0, p
  <2>4. \A l \in Leagues, d \in Digests : l # l0 \/ d # key => sent'[l][d] = sent[l][d]
    BY <1>1, <2>1, <2>2, <2>3
  <2>5. posts => sent'[l0][key] = IF Arrives(outcome) THEN sent[l0][key] + 1 ELSE sent[l0][key]
    BY <1>1, <2>1, <2>2, <2>3
  <2>6. ~posts => sent' = sent
    BY <2>3
  <2>7. QED
    BY <2>3, <2>4, <2>5, <2>6 DEF ChangesAfter, Attempt, Arrives
<1>6. Sane(p)
  BY <1>1, <1>2 DEF Sane
<1>7. /\ \A d : DigestRole(pass[w], l0, d) = CopyRole(key, old, d)
      /\ \A d : DigestRole(p, l0, d) = IF after # d THEN "relapse" ELSE IF old # d THEN "record" ELSE "free"
      /\ AlertRole(p, l0, problem[l0]) = AlertRole(pass[w], l0, problem[l0])
  BY <1>1, <1>2 DEF AlertRole, DigestRole
<1>8. ASSUME NEW l, l # l0, NEW x
      PROVE  AlertRole(p, l, x) = AlertRole(pass[w], l, x) /\ DigestRole(p, l, x) = DigestRole(pass[w], l, x)
  BY <1>1, <1>2, <1>8 DEF AlertRole, DigestRole
<1>9. \A l \in Leagues : AlertRow(l)' = AlertRow(l) /\ \A d \in Digests : DigestRow(l, d)' = DigestRow(l, d)
  BY <1>4 DEF AlertRow, DigestRow
<1>10. posts <=> key # None /\ old # key
  BY DEF Unsent
<1> HIDE DEF p, posts, after, old, key, l0
<1>11. ASSUME NEW l \in Leagues
       PROVE  Turn(AlertRole(pass[w], l, problem[l]), AlertRole(p, l, problem[l]),
                   AlertRow(l), AlertRow(l)', alerted[l], alerted'[l], faults, faults')
  <2>1. AlertRole(p, l, problem[l]) = AlertRole(pass[w], l, problem[l])
    BY <1>7, <1>8
  <2>2. QED
    BY <1>4, <1>5, <1>9, <2>1 DEF Turn
<1>12. ASSUME NEW l \in Leagues, NEW d \in Digests
       PROVE  /\ Turn(DigestRole(pass[w], l, d), DigestRole(p, l, d), DigestRow(l, d), DigestRow(l, d)',
                      sent[l][d], sent'[l][d], faults, faults')
              /\ Fade(DigestRole(pass[w], l, d), DigestRole(p, l, d), sent[l][d], sent'[l][d])
  <2>1. CASE l # l0
    BY <1>5, <1>8, <1>9, <2>1 DEF Turn, Fade
  <2>2. CASE l = l0 /\ d # key
    BY <1>5, <1>7, <1>9, <2>2 DEF Turn, Fade, CopyRole
  <2>3. CASE l = l0 /\ d = key
    <3>1. d # None
      BY DEF Digests
    <3>2. QED
      BY <1>5, <1>7, <1>9, <1>10, <2>3, <3>1 DEF Turn, Fade, CopyRole
  <2>4. QED
    BY <2>1, <2>2, <2>3
<1>13. QED
  BY <1>1, <1>2, <1>3, <1>4, <1>5, <1>6, <1>11, <1>12, StandStep DEF key

\* The commit: what is written back ends the part played about this league.
LEMMA SaveStands ==
  ASSUME Inv, Inv', Standing, NEW w \in Workers, Save(w) PROVE Standing'
<1> DEFINE l0 == pass[w].league
           already == pass[w].already
           old == pass[w].mine.notified
           changed == already # old
           next == [Idle EXCEPT !.at = "next", !.todo = pass[w].todo,
                                !.loaded = IF changed THEN None ELSE pass[w].loaded]
<1>1. /\ pass[w] \in Pass /\ pass[w].at = "save" /\ l0 \in Leagues /\ already \in Notified
      /\ l0 \notin pass[w].todo
  BY DEF Save, Inv, TypeOK, WorkInv, Working, Standing, PassInv, Sane
<1>2. UNCHANGED <<problem, sent, alerted, faults>>
  BY DEF Save
<1>3. PICK p : /\ pass' = [pass EXCEPT ![w] = p]
               /\ \/ changed /\ ~league[l0].live /\ p = Idle /\ league' = league
                  \/ changed /\ p = next /\ league' = [league EXCEPT ![l0].notified = already]
                  \/ ~changed /\ p = next /\ league' = league
  BY DEF Save
<1>4. /\ next.at = "next" /\ next.todo = pass[w].todo /\ next.loaded \in {pass[w].loaded, None}
      /\ Idle.at = "idle" /\ Idle.todo = {} /\ Idle.loaded = None
  BY DEF Idle
<1> HIDE DEF next
<1>5. /\ Sane(p) /\ p.loaded \in {pass[w].loaded, None} /\ p.at \in {"idle", "next"}
      /\ p.loaded # None => p.todo = pass[w].todo
  BY <1>3, <1>4 DEF Sane
<1>6. /\ \A l \in Leagues : league'[l].digest = league[l].digest /\ league'[l].live = league[l].live
      /\ \A l \in Leagues : l # l0 => league'[l] = league[l]
      /\ \/ changed /\ ~league[l0].live /\ league'[l0] = league[l0]
         \/ changed /\ league'[l0].notified = already
         \/ ~changed /\ league'[l0] = league[l0]
  <2>1. league \in [Leagues -> Row]
    BY DEF Inv, TypeOK
  <2>2. CASE league' = league /\ (~changed \/ ~league[l0].live)
    BY <2>2
  <2>3. CASE changed /\ league' = [league EXCEPT ![l0].notified = already]
    BY <1>1, <2>1, <2>3 DEF Row
  <2>4. QED
    BY <1>3, <2>2, <2>3
<1>7. \A x : AlertRole(p, l0, x) = "free" /\ DigestRole(p, l0, x) = "free"
  BY <1>1, <1>4, <1>5 DEF AlertRole, DigestRole
<1>8. ASSUME NEW l, l # l0, NEW x
      PROVE  /\ AlertRole(p, l, x) = AlertRole(pass[w], l, x)
                  \/ (AlertRole(p, l, x) = "free" /\ AlertRole(pass[w], l, x) # "record")
             /\ DigestRole(p, l, x) = DigestRole(pass[w], l, x)
                  \/ (DigestRole(p, l, x) = "free" /\ DigestRole(pass[w], l, x) # "record")
  BY <1>1, <1>5, <1>8 DEF AlertRole, DigestRole, CopyRole
<1>9. \A x : /\ AlertRole(pass[w], l0, x) =
                  IF already.alerts # x THEN "relapse" ELSE IF old.alerts # x THEN "record" ELSE "free"
             /\ DigestRole(pass[w], l0, x) =
                  IF already.changes # x THEN "relapse" ELSE IF old.changes # x THEN "record" ELSE "free"
  BY <1>1 DEF AlertRole, DigestRole
<1> HIDE DEF l0, already, old
<1>10. ASSUME NEW l \in Leagues
       PROVE  Turn(AlertRole(pass[w], l, problem[l]), AlertRole(p, l, problem[l]),
                   AlertRow(l), AlertRow(l)', alerted[l], alerted'[l], faults, faults')
  <2>1. CASE l = l0
    <3>1. AlertRole(pass[w], l, problem[l]) # "relapse"
            => AlertRow(l)' = "closed" \/ (AlertRole(pass[w], l, problem[l]) = "free" /\ AlertRow(l)' = AlertRow(l))
      BY <1>2, <1>6, <1>9, <2>1 DEF AlertRow
    <3>2. QED
      BY <1>2, <1>7, <2>1, <3>1 DEF Turn
  <2>2. CASE l # l0
    <3>1. AlertRow(l)' = AlertRow(l)
      BY <1>2, <1>6, <2>2 DEF AlertRow
    <3>2. QED
      BY <1>2, <1>8, <2>2, <3>1 DEF Turn
  <2>3. QED
    BY <2>1, <2>2
<1>11. ASSUME NEW l \in Leagues, NEW d \in Digests
       PROVE  /\ Turn(DigestRole(pass[w], l, d), DigestRole(p, l, d), DigestRow(l, d), DigestRow(l, d)',
                      sent[l][d], sent'[l][d], faults, faults')
              /\ Fade(DigestRole(pass[w], l, d), DigestRole(p, l, d), sent[l][d], sent'[l][d])
  <2>1. CASE l = l0
    <3>1. DigestRole(pass[w], l, d) # "relapse"
            => DigestRow(l, d)' = "closed" \/ (DigestRole(pass[w], l, d) = "free" /\ DigestRow(l, d)' = DigestRow(l, d))
      BY <1>2, <1>6, <1>9, <2>1 DEF DigestRow
    <3>2. QED
      BY <1>2, <1>7, <2>1, <3>1 DEF Turn, Fade
  <2>2. CASE l # l0
    <3>1. DigestRow(l, d)' = DigestRow(l, d)
      BY <1>2, <1>6, <2>2 DEF DigestRow
    <3>2. QED
      BY <1>2, <1>8, <2>2, <3>1 DEF Turn, Fade
  <2>3. QED
    BY <2>1, <2>2
<1>12. QED
  BY <1>2, <1>3, <1>5, <1>6, <1>10, <1>11, StandStep
-----------------------------------------------------------------------------
\* Nothing about the passes changes.
LEMMA PassesStand ==
  ASSUME Inv, Inv', Standing, pass' = pass,
         \A l \in Leagues, d \in Maybe(Digests) : Reached(league[l].digest, d) => Reached(league'[l].digest, d)
  PROVE  PassInv' /\ AgeInv'
<1>1. PassInv'
  BY DEF Standing, PassInv
<1>2. \A w \in Workers : Working(w) => pass[w].league \in Leagues /\ pass[w].mine.digest \in Maybe(Digests)
  BY DEF Inv, WorkInv, Row
<1>3. \A w \in Workers : pass[w].loaded # None => \A l \in Leagues : pass[w].loaded[l].digest \in Maybe(Digests)
  BY DEF Inv, TypeOK, Pass, Row
<1>4. AgeInv'
  BY <1>2, <1>3 DEF Standing, AgeInv, Working
<1>5. QED
  BY <1>1, <1>4

\* A new digest is in no copy and nothing about it was sent; the one before it
\* is read by nobody any more.
LEMMA DigestStands ==
  ASSUME Inv, Inv', Standing, NEW l0 \in Leagues, NewDigest(l0) PROVE Standing'
<1> DEFINE last == league[l0].digest
           new == IF last = None THEN 1 ELSE last + 1
<1>1. /\ last \in Maybe(Digests) /\ new \in Nat
      /\ last = None \/ last < new
      /\ UNCHANGED <<problem, pass, sent, alerted, faults>>
  BY DEF NewDigest, Inv, TypeOK, Row, Digests
<1>2. league' = [league EXCEPT ![l0].digest = new]
  BY DEF NewDigest
<1> HIDE DEF new
<1>3. /\ league'[l0].digest = new
      /\ \A l \in Leagues : league'[l].live = league[l].live /\ league'[l].notified = league[l].notified
      /\ \A l \in Leagues : l # l0 => league'[l] = league[l]
  BY <1>2 DEF Inv, TypeOK, Row
<1>4. faults' = faults /\ faults \in Nat /\ Cap(faults) \in Int
      /\ Cardinality(Workers) \in Nat
      /\ Cardinality(Workers) * (Cardinality(Workers) + 1) <= Cap(faults)
  BY <1>1, Caps DEF Inv, TypeOK
<1>5. PassInv' /\ AgeInv'
  <2>1. \A l \in Leagues, d \in Maybe(Digests) : Reached(league[l].digest, d) => Reached(league'[l].digest, d)
    BY <1>1, <1>3 DEF Reached, Digests
  <2>2. QED
    BY <1>1, <2>1, PassesStand
<1>6. \A l \in Leagues : AlertRoles(l)' = AlertRoles(l) /\ \A d \in Digests : DigestRoles(l, d)' = DigestRoles(l, d)
  BY <1>1 DEF AlertRoles, DigestRoles
<1>7. AlertInv'
  <2>1. \A l \in Leagues : AlertRow(l)' = AlertRow(l)
    BY <1>1, <1>3 DEF AlertRow
  <2>2. QED
    BY <1>1, <1>4, <1>6, <2>1 DEF Standing, AlertInv
<1>8. ASSUME NEW l \in Leagues, NEW d \in Digests
      PROVE  /\ league'[l].digest = None => sent[l][d] = 0
             /\ league'[l].digest # None /\ league'[l].digest < d => sent[l][d] = 0
             /\ league'[l].digest = d => 2 * sent[l][d] + Load(DigestRoles(l, d), DigestRow(l, d)') <= Cap(faults)
             /\ league'[l].digest # None /\ league'[l].digest > d =>
                  2 * sent[l][d] + 2 * Count(DigestRoles(l, d), "post") <= Cap(faults)
  <2>0. DigestRow(l, d)' = DigestRow(l, d)
    BY <1>3 DEF DigestRow
  <2>1. CASE l # l0
    BY <1>3, <2>0, <2>1 DEF Standing, DigestInv
  <2>2. CASE l = l0
    <3> DEFINE load == Load(DigestRoles(l0, d), DigestRow(l0, d))
               posts == Count(DigestRoles(l0, d), "post")
    <3>1. /\ load \in Int /\ load <= Cardinality(Workers) * (Cardinality(Workers) + 1)
          /\ posts \in Nat /\ 2 * posts <= load
      BY RolesAreFunctions, Loads
    <3>2. sent[l0][d] \in Nat /\ d \in Nat
      BY DEF Inv, TypeOK, Digests
    <3>3. /\ last = None => sent[l0][d] = 0
          /\ last # None /\ last < d => sent[l0][d] = 0
          /\ last = d => 2 * sent[l0][d] + load <= Cap(faults)
          /\ last # None /\ last > d => 2 * sent[l0][d] + 2 * posts <= Cap(faults)
      BY DEF Standing, DigestInv
    <3> DEFINE most == Cardinality(Workers) * (Cardinality(Workers) + 1)
    <3>4. most \in Int /\ most <= Cap(faults) /\ load <= most
      BY <1>4, <3>1
    <3> HIDE DEF load, posts, most, last
    <3>5. /\ new < d => sent[l0][d] = 0
          /\ new = d => 2 * sent[l0][d] + load <= Cap(faults)
          /\ new > d => 2 * sent[l0][d] + 2 * posts <= Cap(faults)
      <4>1. new > d => (last # None /\ last >= d) \/ sent[l0][d] = 0
        BY <1>1, <3>2, <3>3 DEF Digests
      <4>2. new <= d => sent[l0][d] = 0
        BY <1>1, <3>2, <3>3 DEF Digests
      <4>3. QED
        BY <1>1, <1>4, <3>1, <3>2, <3>3, <3>4, <4>1, <4>2 DEF Digests
    <3>6. new # None
      BY <1>1
    <3>7. QED
      BY <1>3, <2>0, <2>2, <3>5, <3>6 DEF load, posts
  <2>3. QED
    BY <2>1, <2>2
<1>9. DigestInv'
  BY <1>1, <1>4, <1>6, <1>8 DEF DigestInv
<1>10. QED
  BY <1>5, <1>7, <1>9 DEF Standing

\* Of a situation that has just begun nothing was said.
LEMMA NothingSaid ==
  ASSUME Inv, Inv', NEW l0 \in Leagues, alerted'[l0] = 0, faults' = faults
  PROVE  2 * alerted'[l0] + Load(AlertRoles(l0)', AlertRow(l0)') <= Cap(faults')
<1> DEFINE roles == AlertRoles(l0)'
           at == AlertRow(l0)'
           most == Cardinality(Workers) * (Cardinality(Workers) + 1)
<1>1. roles \in [Workers -> Roles]
  BY RoleTypes DEF AlertRoles
<1>2. most <= Cap(faults) /\ Cap(faults) \in Int /\ most \in Int
  BY Caps DEF Inv, TypeOK
<1> HIDE DEF roles, at
<1>3. Load(roles, at) \in Int /\ Load(roles, at) <= most
  BY <1>1, Loads
<1> HIDE DEF most
<1>4. 2 * 0 + Load(roles, at) <= Cap(faults)
  BY <1>2, <1>3
<1>5. QED
  BY <1>4 DEF roles, at

\* Other leagues keep their problems and what was said of them.
LEMMA OthersStand ==
  ASSUME Inv, Inv', Standing, NEW l0 \in Leagues, UNCHANGED <<pass, faults>>, alerted'[l0] = 0,
         \A l \in Leagues : l # l0 => /\ alerted'[l] = alerted[l] /\ problem'[l] = problem[l]
                                      /\ league'[l] = league[l]
  PROVE  AlertInv'
<1>1. ASSUME NEW l \in Leagues
      PROVE  2 * alerted'[l] + Load(AlertRoles(l)', AlertRow(l)') <= Cap(faults')
  <2>1. CASE l # l0
    <3>1. AlertRoles(l)' = AlertRoles(l) /\ AlertRow(l)' = AlertRow(l)
      BY <2>1 DEF AlertRoles, AlertRow
    <3>2. QED
      BY <2>1, <3>1 DEF Standing, AlertInv
  <2>2. CASE l = l0
    BY <2>2, NothingSaid
  <2>3. QED
    BY <2>1, <2>2
<1>2. QED
  BY <1>1 DEF AlertInv

\* A row that is gone is closed.
LEMMA DeleteStands ==
  ASSUME Inv, Inv', Standing, NEW l0 \in Leagues, DeleteLeague(l0) PROVE Standing'
<1>1. /\ UNCHANGED <<pass, sent, faults>>
      /\ alerted'[l0] = 0
      /\ \A l \in Leagues : /\ league'[l].digest = league[l].digest
                            /\ league'[l].notified = league[l].notified
                            /\ league'[l].live => league[l].live
      /\ \A l \in Leagues : l # l0 => /\ alerted'[l] = alerted[l] /\ problem'[l] = problem[l]
                                      /\ league'[l] = league[l]
  BY DEF DeleteLeague, Inv, TypeOK, Row
<1>2. PassInv' /\ AgeInv'
  BY <1>1, PassesStand
<1>3. \A l \in Leagues, d \in Digests : DigestRoles(l, d)' = DigestRoles(l, d)
  BY <1>1 DEF DigestRoles
<1>4. faults \in Nat /\ Cap(faults) \in Int
  BY Caps DEF Inv, TypeOK
<1>5. DigestInv'
  <2>1. ASSUME NEW l \in Leagues, NEW d \in Digests, league[l].digest = d
        PROVE  2 * sent[l][d] + Load(DigestRoles(l, d), DigestRow(l, d)') <= Cap(faults)
    <3> DEFINE roles == DigestRoles(l, d)
               at == DigestRow(l, d)
               at2 == DigestRow(l, d)'
    <3>1. at2 = at \/ at2 = "closed"
      BY <1>1 DEF DigestRow
    <3>2. sent[l][d] \in Nat /\ 2 * sent[l][d] + Load(roles, at) <= Cap(faults)
      BY <2>1 DEF Inv, TypeOK, Standing, DigestInv
    <3>3. roles \in [Workers -> Roles]
      BY RolesAreFunctions
    <3> HIDE DEF roles, at, at2
    <3>4. Load(roles, at) \in Int /\ Load(roles, at2) \in Int /\ Load(roles, at2) <= Load(roles, at)
      BY <3>1, <3>3, Loads
    <3>5. 2 * sent[l][d] + Load(roles, at2) <= Cap(faults)
      BY <1>4, <3>2, <3>4
    <3>6. QED
      BY <3>5 DEF roles, at2
  <2>2. QED
    BY <1>1, <1>3, <2>1 DEF Standing, DigestInv
<1>6. QED
  BY <1>1, <1>2, <1>5, OthersStand DEF Standing

\* Another problem, or none.
LEMMA ProblemStands ==
  ASSUME Inv, Inv', Standing, NEW l0 \in Leagues, NEW k \in Maybe(Problems), ProblemChanges(l0, k)
  PROVE  Standing'
<1>1. /\ UNCHANGED <<league, pass, sent, faults>>
      /\ alerted'[l0] = 0
      /\ \A l \in Leagues : l # l0 => alerted'[l] = alerted[l] /\ problem'[l] = problem[l]
  BY DEF ProblemChanges, Inv, TypeOK
<1>2. PassInv' /\ AgeInv'
  BY <1>1, PassesStand
<1>3. DigestInv'
  <2>1. \A l \in Leagues, d \in Digests :
          DigestRoles(l, d)' = DigestRoles(l, d) /\ DigestRow(l, d)' = DigestRow(l, d)
    BY <1>1 DEF DigestRoles, DigestRow
  <2>2. QED
    BY <1>1, <2>1 DEF Standing, DigestInv
<1>4. QED
  BY <1>1, <1>2, <1>3, OthersStand DEF Standing
-----------------------------------------------------------------------------
LEMMA StandingInit == Init => Standing
<1> SUFFICES ASSUME Init PROVE Standing
  OBVIOUS
<1>1. PassInv /\ AgeInv
  BY DEF Init, PassInv, Sane, AgeInv, Working, Idle
<1>2. \A l \in Leagues : AlertRoles(l) \in [Workers -> Roles]
  BY RolesAreFunctions
<1>3. AlertInv
  <2> SUFFICES ASSUME NEW l \in Leagues PROVE 2 * 0 + Load(AlertRoles(l), AlertRow(l)) <= Cap(0)
    BY DEF Init, AlertInv
  <2> DEFINE load == Load(AlertRoles(l), AlertRow(l))
             most == Cardinality(Workers) * (Cardinality(Workers) + 1)
  <2>1. load \in Int /\ load <= most
    BY <1>2, Loads
  <2>2. most \in Int /\ most <= Cap(0) /\ Cap(0) \in Int
    BY Caps
  <2> HIDE DEF load, most
  <2>3. 2 * 0 + load <= Cap(0)
    BY <2>1, <2>2
  <2>4. QED
    BY <2>3 DEF load
<1>4. DigestInv
  BY DEF Init, DigestInv, Digests
<1>5. QED
  BY <1>1, <1>3, <1>4 DEF Standing

LEMMA StandingNext == Inv /\ Inv' /\ Standing /\ [Next]_vars => Standing'
<1> SUFFICES ASSUME Inv, Inv', Standing, [Next]_vars PROVE Standing'
  OBVIOUS
<1>1. ASSUME NEW l \in Leagues,
             NewDigest(l) \/ DeleteLeague(l) \/ \E p \in Maybe(Problems) : ProblemChanges(l, p)
      PROVE  Standing'
  BY <1>1, DigestStands, DeleteStands, ProblemStands
<1>2. ASSUME NEW w \in Workers, Step(w) \/ SaveFails(w) \/ Crash(w)
      PROVE  Standing'
  BY <1>2, StartStands, TakeStands, EndStands, AlertStands, ChangesStands, SaveStands DEF Step
<1>3. CASE UNCHANGED vars
  BY <1>3 DEF vars, Standing, PassInv, AgeInv, Working, AlertInv, AlertRoles, AlertRow,
              DigestInv, DigestRoles, DigestRow
<1>4. QED
  BY <1>1, <1>2, <1>3 DEF Next

\* However many passes follow one another, n workers send the same alert or the
\* same digest at most n * (n + 1) / 2 times, and for each post that failed or
\* went unanswered, failed commit or crash n times more: notify_league records
\* what it sent, and a record is only lost to what was under way before.
THEOREM Repetition == Spec => []RepeatsAreBounded
<1>1. Inv /\ Standing => RepeatsAreBounded
  <2> SUFFICES ASSUME Inv, Standing PROVE RepeatsAreBounded
    OBVIOUS
  <2>1. Allowed = Cap(faults) /\ faults \in Nat
    BY DEF Allowed, Cap, Inv, TypeOK
  <2>2. Cap(faults) \in Int
    BY <2>1, Caps
  <2>3. ASSUME NEW l \in Leagues PROVE 2 * alerted[l] <= Cap(faults)
    <3> DEFINE load == Load(AlertRoles(l), AlertRow(l))
               posts == Count(AlertRoles(l), "post")
    <3>1. load \in Int /\ posts \in Nat /\ 2 * posts <= load
      BY RolesAreFunctions, Loads
    <3>2. alerted[l] \in Nat /\ 2 * alerted[l] + load <= Cap(faults)
      BY DEF Inv, TypeOK, Standing, AlertInv
    <3> HIDE DEF load, posts
    <3>3. QED
      BY <2>2, <3>1, <3>2
  <2>4. ASSUME NEW l \in Leagues, NEW d \in Digests PROVE 2 * sent[l][d] <= Cap(faults)
    <3> DEFINE load == Load(DigestRoles(l, d), DigestRow(l, d))
               posts == Count(DigestRoles(l, d), "post")
               last == league[l].digest
    <3>1. load \in Int /\ posts \in Nat /\ 2 * posts <= load
      BY RolesAreFunctions, Loads
    <3>2. sent[l][d] \in Nat /\ d \in Nat /\ last \in Nat \cup {None}
      BY DEF Inv, TypeOK, Row, Digests
    <3>3. /\ last = None => sent[l][d] = 0
          /\ last # None /\ last < d => sent[l][d] = 0
          /\ last = d => 2 * sent[l][d] + load <= Cap(faults)
          /\ last # None /\ last > d => 2 * sent[l][d] + 2 * posts <= Cap(faults)
      BY DEF Standing, DigestInv
    <3>4. 0 <= Cap(faults)
      <4> DEFINE n == Cardinality(Workers)
                 most == n * (n + 1)
      <4>1. n \in Nat /\ most <= Cap(faults)
        BY <2>1, Caps
      <4>2. most \in Nat
        BY <4>1
      <4> HIDE DEF most
      <4>3. QED
        BY <2>2, <4>1, <4>2
    <3> HIDE DEF load, posts, last
    <3>5. QED
      BY <2>2, <3>1, <3>2, <3>3, <3>4
  <2>5. QED
    BY <2>1, <2>3, <2>4 DEF RepeatsAreBounded
<1>2. Spec => []Standing
  BY StandingInit, StandingNext, Invariant, PTL DEF Spec
<1>3. QED
  BY <1>1, <1>2, Invariant, PTL
=============================================================================
