------------------------------ MODULE StartSit ------------------------------
(***************************************************************************)
(* Whom to start, and the head-to-head of the week: get_start_sit and       *)
(* get_matchup_preview of app/recommendations/.  A roster is a sequence of  *)
(* entries in database order.                                               *)
(***************************************************************************)
EXTENDS Ranking

CONSTANT BenchSlots  \* the slots of is_bench_slot

PointsOr(e, default) == IF e.points = None THEN default ELSE e.points

Starters(roster) == {i \in DOMAIN roster : roster[i].slot \notin BenchSlots}

Candidates(roster, slot) == {i \in DOMAIN roster : slot \in roster[i].eligible}

\* Mutant: in the order of the roster.
UnorderedSlots(roster) == Listed(Starters(roster))

\* The starters, those of the most constrained slots first.
SlotOrder(roster) ==
  LET CandidatesOf(i) == Cardinality(Candidates(roster, roster[i].slot))
  IN  Ascending(Listed(Starters(roster)), CandidatesOf)

Untaken(roster, slot, taken) == Candidates(roster, slot) \ taken

\* The best of those left; no projection counts as a point below nothing.
BestOf(roster, free) ==
  LET Worth(i) == PointsOr(roster[i], -1)
  IN  First(Listed(free), Worth)

\* The players who have a row already.
Recommended(rows) == {rows[k].best : k \in DOMAIN rows}

\* A slot for which nobody is left gets no row.
Fill(roster, rows, i) ==
  LET free == Untaken(roster, roster[i].slot, Recommended(rows))
  IN  IF free = {} THEN rows
      ELSE Append(rows, [slot |-> roster[i].slot, current |-> i, best |-> BestOf(roster, free)])

\* The rows [slot, current, best], in the order the slots are filled.
StartSit(roster) ==
  LET slots == SlotOrder(roster)
      rows[n \in 0 .. Len(slots)] == IF n = 0 THEN <<>> ELSE Fill(roster, rows[n - 1], slots[n])
  IN  rows[Len(slots)]

Swap(row) == row.best # row.current

Gain(roster, row) == PointsOr(roster[row.best], 0) - PointsOr(roster[row.current], 0)

\* The swap with the greatest gain, if one gains anything.
BiggestSwing(roster) ==
  LET GainOf(row) == Gain(roster, row)
      rows == StartSit(roster)
      gaining == Kept(rows, {k \in DOMAIN rows : Swap(rows[k]) /\ GainOf(rows[k]) > 0})
  IN  IF gaining = <<>> THEN None ELSE First(gaining, GainOf)

Projected(roster) == SumFunction([i \in Starters(roster) |-> PointsOr(roster[i], 0)])

\* opponent is None without a schedule, on a bye, or if the team is not there.
Preview(mine, opponent) ==
  IF opponent = None THEN [opponent |-> None, swing |-> None]
  ELSE [opponent |-> Projected(opponent), margin |-> Projected(mine) - Projected(opponent),
        swing |-> BiggestSwing(mine)]
-----------------------------------------------------------------------------
PointsOfSet(roster, S) == SumFunction([i \in S |-> PointsOr(roster[i], -1)])

\* Every way to put different eligible players into some of the starting slots.
StartSitLineups(roster) ==
  {f \in [Starters(roster) -> DOMAIN roster \union {0}] :
     \A i, j \in Starters(roster) :
       f[i] # 0 => /\ roster[i].slot \in roster[f[i]].eligible
                   /\ f[i] = f[j] => i = j}

\* Nobody is recommended twice or where he may not play.
LineupIsLegal(roster, rows) ==
  \A k, j \in DOMAIN rows :
    /\ rows[k].slot \in roster[rows[k].best].eligible
    /\ rows[k].best = rows[j].best => k = j

\* Slots that share candidates only if one has all of the other's.
Nested(roster) ==
  \A i, j \in Starters(roster) :
    LET a == Candidates(roster, roster[i].slot)
        b == Candidates(roster, roster[j].slot)
    IN  a \intersect b = {} \/ a \subseteq b \/ b \subseteq a

\* start_sit.py promises the best lineup.  Filling the most constrained slot
\* first delivers it as long as the slots are nested.
GreedyIsBest(roster, rows) ==
  Nested(roster) =>
    \A f \in StartSitLineups(roster) :
      LET fielded == {f[i] : i \in DOMAIN f} \ {0}
      IN  /\ Cardinality(fielded) <= Len(rows)
          /\ Cardinality(fielded) = Len(rows) =>
               PointsOfSet(roster, fielded) <= PointsOfSet(roster, Recommended(rows))

\* A starter is replaced by a lesser player only if he is needed elsewhere.
NoSwapForTheWorse(roster, rows) ==
  \A k \in DOMAIN rows :
    LET now == roster[rows[k].current]
    IN  now.slot \in now.eligible /\ PointsOr(roster[rows[k].best], -1) < PointsOr(now, -1)
          => rows[k].current \in Recommended(rows)
=============================================================================
