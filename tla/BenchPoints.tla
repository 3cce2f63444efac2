---------------------------- MODULE BenchPoints ----------------------------
(***************************************************************************)
(* The points left on the bench in one week: score_week of                  *)
(* app/bench_points.py over optimal_assignment of app/lineup.py, which      *)
(* turns slots and players into costs for Hungarian.  Points are whole      *)
(* numbers (of hundredths); the rounding for display is left out.           *)
(***************************************************************************)
EXTENDS Hungarian, Ranking

CONSTANTS
  Slots,       \* starting slots of the league
  Bench,       \* a bench slot
  Reserve,     \* the injured reserve slot
  Weeks,       \* lineups to be scored: sequences of players
  One,         \* a whole point, in the unit that points are counted in
  Ineligible   \* the cost of a pairing that is not allowed

VARIABLE week  \* the lineup being scored

vars == <<week, assignment>>
-----------------------------------------------------------------------------
Player == [slot : Slots \union {Bench, Reserve}, eligible : SUBSET Slots, points : Int]

Abs(n) == IF n < 0 THEN -n ELSE n

ASSUME WeekAssumption ==
  /\ Weeks \subseteq Seq(Player)
  /\ One \in Nat \ {0} /\ Ineligible \in Nat
  /\ Reserve \notin Slots
  /\ \A w \in Weeks : \E i \in DOMAIN w : w[i].slot \in Slots

\* INELIGIBLE is above what a lineup can score: allowed and not allowed are not
\* mixed up, and no scores make up for an empty slot.
ASSUME PriceAssumption ==
  \A w \in Weeks : \A i \in DOMAIN w : 2 * Len(w) * (Abs(w[i].points) + One) <= Ineligible

ASSUME NoneAssumption == None \notin Nat

Starts(p) == p.slot \in Slots

\* Mutant: only those who sat on the bench are considered.
CouldReplace(p) == p.slot = Bench

\* Anyone not on injured reserve could have been started.
CouldStart(p) == p.slot # Reserve

InLineup == {i \in DOMAIN week : Starts(week[i])}
Startable == {i \in DOMAIN week : CouldStart(week[i])}

Started == Kept(week, InLineup)
Available == Kept(week, Startable)
NSlots == Cardinality(InLineup)
NPlayers == Cardinality(Startable)

Points(S) == SumFunctionOnSet([p \in S |-> Available[p].points], S)

\* Above every score, so that filling a slot beats leaving it empty.
Offset == Max({Abs(Available[p].points) : p \in 1 .. NPlayers}) + One

\* Mutant: the price of a player is not negated.
CostOfBest(i, j) ==
  IF j <= NPlayers /\ Started[i].slot \in Available[j].eligible
  THEN Available[j].points + Offset
  ELSE Ineligible

Cost(i, j) ==
  IF j <= NPlayers /\ Started[i].slot \in Available[j].eligible
  THEN -(Available[j].points + Offset)
  ELSE Ineligible

Width == Max({NSlots, NPlayers})

Matrix ==
  [rows |-> NSlots, cols |-> Width,
   cost |-> [i \in 1 .. NSlots |-> [j \in 1 .. Width |-> Cost(i, j)]]]

Init == week \in Weeks /\ problem = Matrix /\ Start

Next == Step /\ UNCHANGED week

Spec == Init /\ [][Next]_vars
-----------------------------------------------------------------------------
\* The player put into a slot, if any: a pairing that is not allowed is none.
Best(i) ==
  LET j == CHOOSE k \in 1 .. Width : AssignedTo(i, k)
  IN  IF j > NPlayers \/ Cost(i, j) >= Ineligible THEN None ELSE j

Fielded == {Best(i) : i \in 1 .. NSlots} \ {None}

ActualPoints == SumFunction([i \in 1 .. NSlots |-> Started[i].points])
OptimalPoints == Points(Fielded)
LeftOnBench == OptimalPoints - ActualPoints

\* Mutant: only what would have been gained is listed.
MissedGain(i) ==
  IF Best(i) = None THEN 0 ELSE Max({0, Available[Best(i)].points - Started[i].points})

\* The slots where somebody else should have been started, with the difference.
Missed(i) ==
  IF Best(i) = None THEN 0 ELSE Available[Best(i)].points - Started[i].points
-----------------------------------------------------------------------------
Done == at = "done"

\* A lineup puts some eligible player, or nobody (0), into every slot.
Lineups ==
  {f \in [1 .. NSlots -> 0 .. NPlayers] :
     /\ \A i \in 1 .. NSlots : f[i] # 0 => Started[i].slot \in Available[f[i]].eligible
     /\ \A i, k \in 1 .. NSlots : f[i] = f[k] /\ f[i] # 0 => i = k}

Chosen == [i \in 1 .. NSlots |-> IF Best(i) = None THEN 0 ELSE Best(i)]

\* lineup.py: the answer has to actually be the optimum.  The slots are filled as
\* far as they can be, and no lineup that fills as many scores more.
FoundOptimum ==
  Done =>
    /\ Chosen \in Lineups
    /\ \A f \in Lineups :
         LET players == {f[i] : i \in 1 .. NSlots} \ {0}
         IN  \/ Cardinality(players) < Cardinality(Fielded)
             \/ Cardinality(players) = Cardinality(Fielded) /\ Points(players) <= OptimalPoints

\* ESPN lets a player be started only where he is eligible.
LegallyStarted == \A i \in 1 .. NSlots : Started[i].slot \in Started[i].eligible

\* A manager cannot have done better than the best lineup, bad scores included.
NobodyBeatsTheBest == Done /\ LegallyStarted => LeftOnBench >= 0

\* The report is consistent: what the slots list as missed, gains and losses
\* together, is what the week lists as left on the bench.
MissedAddsUp ==
  Done /\ LegallyStarted =>
    SumFunction([i \in 1 .. NSlots |-> Missed(i)]) = LeftOnBench
=============================================================================
