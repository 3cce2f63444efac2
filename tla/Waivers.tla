------------------------------ MODULE Waivers ------------------------------
(***************************************************************************)
(* Whom to claim, whom to drop and what to bid: get_waiver_targets of       *)
(* app/recommendations/waivers.py for one position, from my players there,  *)
(* the free agents there and the league's budgets.  Money is in dollars,    *)
(* projections in points, adjusted values in ten-thousandths of a point,    *)
(* upgrades in tenths of one.                                               *)
(***************************************************************************)
EXTENDS Ranking

CONSTANT TopN  \* suggestions per position

Projections == Int \union {None}

\* value is FantasyCalc's trade value, 0 when it has none; out says that the
\* injury status rules him out this week.
Prospect == [id : Nat, points : Projections, average : Projections, value : Nat,
           trend : {"up", "flat", "down"},
           matchup : {"favorable", "neutral", "tough"}, out : BOOLEAN]

PointsOrDefault(p) == IF p.points = None THEN 0 ELSE p.points

TrendMultiplier == [up |-> 115, flat |-> 100, down |-> 90]
MatchupMultiplier == [favorable |-> 105, neutral |-> 100, tough |-> 95]

\* Without a usable projection the recent average stands in for it.
AdjustedValue(p) ==
  LET base == IF PointsOrDefault(p) = 0 /\ p.average # None THEN p.average
              ELSE PointsOrDefault(p)
  IN  base * TrendMultiplier[p.trend] * MatchupMultiplier[p.matchup]
-----------------------------------------------------------------------------
\* A percentage of the budget, from an upgrade in tenths of a point.
SuggestedFaabPct(upgrade) == AtLeast(AtMost(RoundDiv(upgrade, 4), 35), 0)

\* What a team has left; spending above the budget leaves nothing.
Remaining(budget, spent) == AtLeast(budget - spent, 0)

\* The real money of the league, or its waiver order, or neither.  A team is
\* [mine, spent, rank].
BudgetContext(league, teams) ==
  LET others == Kept(teams, {i \in DOMAIN teams : ~teams[i].mine})
      rivals == Descending([i \in DOMAIN others |-> Remaining(league.budget, others[i].spent)],
                           LAMBDA r : r)
      mine == Kept(teams, {i \in DOMAIN teams : teams[i].mine})
      ranks == Kept(teams, {i \in DOMAIN teams : teams[i].rank # None})
  IN  IF teams # <<>> /\ league.faab /\ league.budget > 0
      THEN [type |-> "faab", budget |-> league.budget,
            mine |-> IF mine = <<>> THEN None ELSE Remaining(league.budget, mine[1].spent),
            topRival |-> IF rivals = <<>> THEN None ELSE rivals[1]]
      ELSE IF ranks # <<>>
      THEN [type |-> "priority", mine |-> IF mine = <<>> THEN None ELSE mine[1].rank,
            order |-> Ascending(ranks, LAMBDA t : t.rank)]
      ELSE None

\* Mutant: the floor of a dollar comes after, and in spite of, the cap.
BidFlooredLast(upgrade, context) ==
  IF context = None \/ context.type # "faab" THEN None
  ELSE LET bid == AtMost(RoundDiv(context.budget * SuggestedFaabPct(upgrade), 100), context.mine)
       IN  IF upgrade > 0 THEN AtLeast(bid, 1) ELSE bid

\* Never more than is left; a dollar at least for an upgrade, if there is one.
SuggestedBid(upgrade, context) ==
  IF context = None \/ context.type # "faab" THEN None
  ELSE LET bid == RoundDiv(context.budget * SuggestedFaabPct(upgrade), 100)
           capped == IF context.mine = None THEN bid ELSE AtMost(bid, context.mine)
       IN  IF upgrade > 0 /\ (context.mine = None \/ context.mine > 0)
           THEN AtLeast(capped, 1) ELSE capped
-----------------------------------------------------------------------------
\* The pre-filter: the best of the position by a raw figure.
Pool(agents, Key(_)) == Take(Descending(agents, Key), 3 * TopN)

Weakest(mine, Key(_)) == IF mine = <<>> THEN None ELSE Ascending(mine, Key)[1]

\* Nobody who is on the roster; the two lists of ESPN may overlap.
Unrostered(mine, agents) ==
  Kept(agents, {k \in DOMAIN agents : \A i \in DOMAIN mine : mine[i].id # agents[k].id})

\* Those of a list who can play this week, and those FantasyCalc gives a value.
Fit(agents) == Kept(agents, {k \in DOMAIN agents : ~agents[k].out})
Valued(agents) == Kept(agents, {k \in DOMAIN agents : agents[k].value > 0})

\* Those of the ranked pool who beat the player they would replace.
Upgrades(ranked, weakest, Key(_)) ==
  Take(Kept(ranked, {k \in DOMAIN ranked : weakest = None \/ Key(ranked[k]) > Key(weakest)}), TopN)

ThisWeek(mine, agents, context) ==
  LET weakest == Weakest(mine, PointsOrDefault)
      pool == Pool(Fit(Unrostered(mine, agents)), PointsOrDefault)
      best == Upgrades(Descending(pool, AdjustedValue), weakest, AdjustedValue)
      baseline == IF weakest = None THEN 0 ELSE AdjustedValue(weakest)
  IN  [k \in DOMAIN best |->
         LET upgrade == RoundDiv(AdjustedValue(best[k]) - baseline, 1000)
         IN  [add |-> best[k], drop |-> weakest, upgrade |-> upgrade,
              bid |-> SuggestedBid(upgrade, context)]]

RestOfSeason(mine, agents) ==
  LET Value(p) == p.value
      weakest == Weakest(mine, Value)
      pool == Pool(Valued(Unrostered(mine, agents)), Value)
      best == Upgrades(pool, weakest, Value)
  IN  [k \in DOMAIN best |->
         [add |-> best[k], drop |-> weakest,
          upgrade |-> best[k].value - IF weakest = None THEN 0 ELSE weakest.value]]
-----------------------------------------------------------------------------
\* No bid can be refused for lack of money, a better upgrade never gets the
\* smaller bid, and a suggestion worth a tenth of a point is worth a dollar.
BidsArePossible(context, week) ==
  context # None /\ context.type = "faab" =>
    \A k \in DOMAIN week :
      /\ week[k].bid \in 0 .. context.mine
      /\ week[k].bid <= AtLeast(RoundDiv(context.budget * 35, 100), 1)
      /\ \A j \in 1 .. k : week[j].bid >= week[k].bid
      /\ week[k].upgrade > 0 /\ context.mine > 0 => week[k].bid >= 1

\* A free agent who is left out is on the roster or out, does not beat the
\* player to drop, or gives way to TopN better ones; unless 3 * TopN others
\* looked at least as good before trend, matchup and average were considered.
NobodyPassedOver(mine, agents, week) ==
  LET Fits(p) == ~p.out /\ \A i \in DOMAIN mine : mine[i].id # p.id
      listed == {week[k].add.id : k \in DOMAIN week}
  IN  \A i \in DOMAIN agents :
        LET p == agents[i]
            weakest == {m \in ToSet(mine) : \A n \in ToSet(mine) : PointsOrDefault(m) <= PointsOrDefault(n)}
        IN  Fits(p) /\ p.id \notin listed =>
              \/ \E m \in weakest : AdjustedValue(p) <= AdjustedValue(m)
              \/ Cardinality({k \in DOMAIN week : AdjustedValue(week[k].add) >= AdjustedValue(p)}) = TopN
              \/ Cardinality({j \in DOMAIN agents \ {i} :
                   Fits(agents[j]) /\ PointsOrDefault(agents[j]) >= PointsOrDefault(p)}) >= 3 * TopN

\* The stash list offers nobody worth less than the player given up for him,
\* and nobody FantasyCalc gives no value.
StashesGainValue(mine, agents, season) ==
  \A k \in DOMAIN season :
    /\ season[k].add \in ToSet(agents) /\ season[k].upgrade > 0
    /\ season[k].drop # None => season[k].drop \in ToSet(mine)
    /\ \A m \in ToSet(mine) : season[k].drop # None /\ season[k].drop.value <= m.value
=============================================================================
