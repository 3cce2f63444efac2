------------------------------- MODULE Trades -------------------------------
(***************************************************************************)
(* Trade suggestions and the trade grader of app/recommendations/trades.py. *)
(* A team is a function from positions to the projections of its players    *)
(* there; values are whole numbers of tenths of a point.                    *)
(***************************************************************************)
EXTENDS Ranking

CONSTANT Positions  \* POSITIONS, or some of them

\* Hundredths of a starter: a shared slot counts in part for each position.
PrimarySlots == "QB" :> 1 @@ "RB" :> 2 @@ "WR" :> 4 @@ "TE" :> 6 @@ "D/ST" :> 16 @@ "K" :> 17
SharedSlotShares ==
  [slot \in {23, 7} |-> IF slot = 23 THEN [RB |-> 45, WR |-> 45, TE |-> 10]
                        ELSE [QB |-> 40, RB |-> 20, WR |-> 20, TE |-> 20]]

\* counts: how many slots of each id a roster has.
StartersNeeded(counts) ==
  [pos \in Positions |->
     LET shared == {s \in DOMAIN counts \intersect DOMAIN SharedSlotShares :
                      pos \in DOMAIN SharedSlotShares[s]}
     IN  (IF PrimarySlots[pos] \in DOMAIN counts THEN 100 * counts[PrimarySlots[pos]] ELSE 0)
           + SumFunction([s \in shared |-> counts[s] * SharedSlotShares[s][pos]])]

\* sorted(values, reverse=True) and sum(values)
Identity(n) == n
Sorted(values) == Descending(values, Identity)
SumOf(values) == Total(values, Identity)

\* Mutant: the last starter is counted on the bench as well.
ProfileOverlapping(roster, needed) ==
  [pos \in Positions |->
     LET points == Sorted(roster[pos])
         k == AtLeast(RoundDiv(needed[pos], 100), 1)
     IN  [strength |-> SumOf(Take(points, k)),
          depth |-> SumOf(Drop(points, AtMost(k - 1, Len(points))))]]

\* The best k make the starting strength, the others the bench depth.
Profile(roster, needed) ==
  [pos \in Positions |->
     LET points == Sorted(roster[pos])
         k == AtLeast(RoundDiv(needed[pos], 100), 1)
     IN  [strength |-> SumOf(Take(points, k)),
          depth |-> SumOf(Drop(points, AtMost(k, Len(points))))]]

\* Twice statistics.median, which may be half a number.
TwiceMedian(s) ==
  LET sorted == Sorted(s)
      n == Len(s)
  IN  sorted[(n + 1) \div 2] + sorted[n \div 2 + 1]

\* Positions where a team starts less than the median team of the league.
Needs(profiles, t) ==
  {pos \in Positions :
     2 * profiles[t][pos].strength < TwiceMedian([i \in DOMAIN profiles |-> profiles[i][pos].strength])}

\* The team with the deepest bench; of equals the first listed.
Deepest(profiles, pos) ==
  LET Depth(i) == profiles[i][pos].depth
  IN  First([i \in DOMAIN profiles |-> i], Depth)

Surpluses(profiles, t) ==
  {pos \in Positions : Deepest(profiles, pos) = t /\ profiles[t][pos].depth > 0}

\* Who has depth where the team is weak and is weak where the team is deep.
Suggestions(rosters, counts, t) ==
  LET needed == StartersNeeded(counts)
      profiles == [i \in DOMAIN rosters |-> Profile(rosters[i], needed)]
      Sends(i) == {pos \in Needs(profiles, t) : profiles[i][pos].depth > 0}
      Wants(i) == Surpluses(profiles, t) \intersect Needs(profiles, i)
  IN  [profiles |-> profiles,
       needs |-> Needs(profiles, t),
       surpluses |-> Surpluses(profiles, t),
       partners |-> {[team |-> i, sends |-> Sends(i), wants |-> Wants(i)] :
                       i \in {j \in DOMAIN rosters \ {t} : Sends(j) # {} /\ Wants(j) # {}}}]
-----------------------------------------------------------------------------
\* Rest-of-season value: the average over the projected weeks from the current
\* one on, else the cached projection, else nothing.  A week or the cache
\* without a projection holds None.
TradedPlayer == [weeks : Seq(Int \union {None}), cached : Int \union {None}]

RosValue(player, current) ==
  LET weeks == {w \in DOMAIN player.weeks : w >= current /\ player.weeks[w] # None}
  IN  IF weeks # {}
      THEN RoundDiv(SumFunction([w \in weeks |-> player.weeks[w]]), Cardinality(weeks))
      ELSE IF player.cached = None THEN 0 ELSE player.cached

\* A share of the total value below 5, 15 or 30 per cent.
GradeForEdge(edge, total) ==
  IF total <= 0 \/ 100 * edge < 5 * total THEN "A"
  ELSE IF 100 * edge < 15 * total THEN "B"
  ELSE IF 100 * edge < 30 * total THEN "C"
  ELSE "D"

\* The side that receives less is graded by how much less; the other gets an A.
GradeOf(sent, received) ==
  IF received < sent THEN GradeForEdge(sent - received, sent + received) ELSE "A"

\* sends[side] is the sequence of players that side gives up.
GradeTrade(sends, current) ==
  LET Value(p) == RosValue(p, current)
      a == Total(sends.a, Value)
      b == Total(sends.b, Value)
  IN  [value |-> [a |-> a, b |-> b],
       grade |-> [a |-> GradeOf(a, b), b |-> GradeOf(b, a)]]
-----------------------------------------------------------------------------
\* Every projection counts once, no two teams are told to trade away the same
\* position, and at most half the teams of a league lack one.
ProfilesAreFair(rosters, all) ==
  /\ \A t \in DOMAIN rosters, pos \in Positions :
       all[t].profiles[t][pos].strength + all[t].profiles[t][pos].depth = SumOf(rosters[t][pos])
  /\ \A t, u \in DOMAIN rosters : t # u => all[t].surpluses \intersect all[u].surpluses = {}
  /\ \A pos \in Positions : 2 * Cardinality({t \in DOMAIN all : pos \in all[t].needs}) <= Len(rosters)

\* A partner has what the team lacks at a position and lacks what it has too
\* much of at another.
PartnersComplement(all) ==
  \A t \in DOMAIN all : \A p \in all[t].partners :
    /\ p.team # t
    /\ p.sends # {} /\ p.sends \subseteq all[t].needs
    /\ p.wants # {} /\ p.wants \subseteq all[p.team].needs \ UNION {all[u].surpluses : u \in DOMAIN all \ {t}}

Letters == [A |-> 4, B |-> 3, C |-> 2, D |-> 1]

\* The side that comes out ahead is never graded below the other; the grades do
\* not depend on which side is called A; and sending a player more, of no
\* negative value, never improves a side's grade.  mirrored is the grading with
\* the sides exchanged, lighter the one without the last player A sends.
GradesAreImpartial(graded, mirrored, lighter) ==
  /\ graded.value.b >= graded.value.a => Letters[graded.grade.a] >= Letters[graded.grade.b]
  /\ graded.grade = [a |-> mirrored.grade.b, b |-> mirrored.grade.a]
  /\ lighter.value.a <= graded.value.a => Letters[graded.grade.a] <= Letters[lighter.grade.a]
=============================================================================
