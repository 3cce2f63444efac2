----------------------------- MODULE MCReports -----------------------------
EXTENDS Reports

CONSTANTS rb, te, flex, ta, tb

\* Weeks: who is in which slot, with every eligibility that makes a difference
\* there and scores with a tie, a loss and two different sums.
Filled(slots, scores) ==
  {w \in [DOMAIN slots -> [slot : {rb, flex, Bench, Reserve}, eligible : SUBSET {rb, flex},
                           points : scores]] :
     \A i \in DOMAIN slots : w[i].slot = slots[i]}

Full == <<rb, flex, Bench>>
Hurt == <<flex, rb, Reserve>>
Deep == <<rb, rb, flex, Bench>>
Short == <<rb>>

MCWeeks ==
  Filled(Full, {-2, 1, 3}) \union Filled(Hurt, {-2, 1}) \union Filled(Short, {-2, 0})
    \union {w \in Filled(Deep, {-2, 1}) : \A i \in DOMAIN w : w[i].eligible # {}}

SeqsUpTo(S, n) == UNION {[1 .. k -> S] : k \in 0 .. n}
Numbered(s, from) == [i \in DOMAIN s |-> [id |-> from + i] @@ s[i]]

\* Waivers: free agents who look better or worse before trend, matchup and
\* average count, one of them out; nobody, one or two of mine to drop.
Agent(points, average, trend, matchup, value) ==
  [points |-> points, average |-> average, trend |-> trend, matchup |-> matchup,
   value |-> value, out |-> trend = "up" /\ points = 15]
AgentKinds == {Agent(8, 9, "flat", "neutral", 2), Agent(8, None, "up", "tough", 2),
          Agent(9, 4, "down", "favorable", 1), Agent(None, 20, "flat", "neutral", 0),
          Agent(15, None, "up", "favorable", 3)}
MyKinds == {Agent(8, None, "flat", "neutral", 2), Agent(None, 3, "up", "neutral", 1)}
MyTeam(spent, rank) == [mine |-> TRUE, spent |-> spent, rank |-> rank]
Rival == [mine |-> FALSE, spent |-> 10, rank |-> 1]
MCWaiverCases ==
  [mine : {Numbered(s, 2) : s \in SeqsUpTo(MyKinds, 2)}, agents : {Numbered(s, 0) : s \in SeqsUpTo(AgentKinds, 3)},
   league : {[faab |-> TRUE, budget |-> 100]}, teams : {<<MyTeam(s, 2), Rival>> : s \in {0, 99, 120}},
   premium : {TRUE}]
  \union
  [mine : {Numbered(s, 4) : s \in SeqsUpTo(MyKinds, 1)}, agents : {Numbered(s, 0) : s \in [1 .. 4 -> AgentKinds]},
   league : {[faab |-> TRUE, budget |-> 5], [faab |-> FALSE, budget |-> 0]}, teams : {<<MyTeam(2, None)>>},
   premium : BOOLEAN]

\* Leagues of two and three teams, with thin and deep benches.
MCPositions == {"RB", "WR"}
TeamKinds == ("RB" :> {<<>>, <<3>>, <<8, 3>>, <<8, 3, 8>>} @@ "WR" :> {<<5>>, <<5, 9>>, <<9, 9, 9>>})
Rosters == [RB : TeamKinds["RB"], WR : TeamKinds["WR"]]
MCLeagueCases ==
  [rosters : [1 .. 2 -> Rosters] \union [1 .. 3 -> Rosters],
   counts : {2 :> 1 @@ 4 :> 1, 2 :> 1 @@ 4 :> 2 @@ 23 :> 1}]

Traded == {[weeks |-> <<60, None>>, cached |-> 20], [weeks |-> <<100, 61>>, cached |-> None],
           [weeks |-> <<None, 55>>, cached |-> 5], [weeks |-> <<None, None>>, cached |-> -30],
           [weeks |-> <<None, None>>, cached |-> None]}
MCGradeCases == [sends : [a : SeqsUpTo(Traded, 2), b : SeqsUpTo(Traded, 2)], current : 1 .. 2]

\* Rosters in which the slots are nested, disjoint or overlap.
Lineups4(slots, points) ==
  {[i \in DOMAIN slots |-> [slot |-> slots[i], eligible |-> p[i].eligible, points |-> p[i].points]] :
     p \in [DOMAIN slots -> [eligible : {{rb}, {rb, flex}, {te, flex}, {te}}, points : points]]}
MCRosterCases ==
  [mine : Lineups4(<<rb, flex, Bench, Bench>>, {3, 7}) \union Lineups4(<<flex, te, rb, Bench>>, {3, 7})
            \union Lineups4(<<flex, rb, Bench>>, {None, -2, 3, 7}),
   opponent : {<<[slot |-> rb, eligible |-> {rb}, points |-> 9]>>}]
  \union
  [mine : Lineups4(<<rb, Bench>>, {None, 3, 7}), opponent : {None}]

\* Two or three players before and after a sync.
Seen(status, owner, owned, points) ==
  [status |-> status, owner |-> owner, owned |-> owned, points |-> points]
SnapshotKinds ==
  {Seen("ACTIVE", None, 10, 5), Seen("NORMAL", ta, 15, 5), Seen("OUT", ta, 14, None),
   Seen("OUT", tb, 90, 8), Seen("QUESTIONABLE", tb, 90, 80), Seen("ACTIVE", tb, 60, 8)}
Pools == {Numbered(s, 0) : s \in [1 .. 2 -> SnapshotKinds]} \union {Numbered(s, 1) : s \in [1 .. 2 -> SnapshotKinds]}
MCDigestCases == [before : Pools, after : Pools]

\* Trades, claims and adds, finished or not, with and without team ids.
To(team, player) == [player |-> player, type |-> "ADD", to |-> team, from |-> None]
Swapped(player, from, to) == [player |-> player, type |-> "ADD", to |-> to, from |-> from]
Txn(team, type, status, pending, items, bid, period) ==
  [team |-> team, type |-> type, status |-> status, pending |-> pending, items |-> items,
   bid |-> bid, period |-> period, at |-> IF pending = TRUE THEN None ELSE 10 - team]
TxnKinds ==
  {Txn(1, "WAIVER", "EXECUTED", FALSE, <<To(1, 11)>>, 7, 1),
   Txn(1, "WAIVER", "EXECUTED", FALSE, <<To(1, 12), [player |-> 13, type |-> "DROP", to |-> None, from |-> None]>>, 2, 2),
   Txn(2, "WAIVER", "EXECUTED", None, <<To(2, 14)>>, 0, None),
   Txn(2, "WAIVER", "PENDING", TRUE, <<To(2, 15)>>, 9, 3),
   Txn(2, "FREEAGENT", None, None, <<To(2, 16)>>, 4, 2),
   Txn(1, "TRADE", "EXECUTED", FALSE, <<Swapped(17, 1, 2), Swapped(18, 2, 1)>>, 0, 3),
   Txn(2, "TRADE", "PENDING", None, <<Swapped(17, 1, 2), Swapped(18, 2, 1)>>, None, 3),
   Txn(2, "TRADE", "FAILED", None, <<Swapped(17, 1, 2)>>, None, 2),
   Txn(1, "ROSTER", "EXECUTED", FALSE, <<[player |-> 19, type |-> "LINEUP", to |-> 1, from |-> 1]>>, 0, 2)}
MCTransactionCases ==
  {[log |-> Numbered(s, 0), pending |-> Numbered(s, 0), connected |-> TRUE] : s \in SeqsUpTo(TxnKinds, 3)}
    \union [log : {<<>>}, pending : {None, <<>>}, connected : BOOLEAN]
=============================================================================
