------------------------------ MODULE Reports ------------------------------
(***************************************************************************)
(* What the read-only requests compute from a league: one report is asked   *)
(* for and computed.  Every report is a pure function of what it read; the  *)
(* scoring of a week is the one that loops, so it runs step by step         *)
(* (BenchPoints), the others are computed at once.                          *)
(***************************************************************************)
EXTENDS BenchPoints, Waivers, Trades, StartSit, SyncDiff, Transactions

CONSTANTS
  WaiverCases,       \* [mine, agents, league, teams, premium]
  LeagueCases,       \* [rosters, counts]
  GradeCases,        \* [sends, current]
  RosterCases,       \* [mine, opponent], rosters
  DigestCases,       \* [before, after]
  TransactionCases   \* [log, pending, connected]: two answers of ESPN, the second may be None

ASSUME ReportAssumption ==
  /\ TopN \in Nat \ {0}
  /\ MaxChanges \in Nat /\ MaxClaims \in Nat \ {0} /\ MaxStored \in Nat
  /\ Bidding \subseteq Types
  /\ Finished \subseteq Statuses /\ Completed \subseteq Statuses

\* Whoever asks about waivers has a team in the league; a pool of players and an
\* answer of ESPN have each player and transaction once.
ASSUME CaseAssumption ==
  /\ None \notin Prospect
  /\ \A c \in WaiverCases :
       /\ c.mine \in Seq(Prospect) /\ c.agents \in Seq(Prospect)
       /\ c.league \in [faab : BOOLEAN, budget : Nat]
       /\ c.teams \in Seq([mine : BOOLEAN, spent : Nat, rank : Nat \union {None}])
       /\ \E i \in DOMAIN c.teams : c.teams[i].mine
  /\ \A c \in LeagueCases :
       /\ c.rosters \in Seq([Positions -> Seq(Int)])
       /\ \A s \in DOMAIN c.counts : c.counts[s] \in Nat
  /\ \A c \in GradeCases : c.sends \in [a : Seq(TradedPlayer), b : Seq(TradedPlayer)]
  /\ \A c \in RosterCases :
       c.mine \in Seq([slot : Slots \union BenchSlots, eligible : SUBSET Slots, points : Int \union {None}])
  /\ \A c \in DigestCases : c.before \in Snapshot /\ c.after \in Snapshot
  /\ \A c \in TransactionCases :
       c.log \in TransactionList /\ (c.pending = None \/ c.pending \in TransactionList)

VARIABLE report  \* what is asked for, and the answer

reportVars == <<vars, report>>
-----------------------------------------------------------------------------
Asked(kind, cases) == {[kind |-> kind, of |-> c, answer |-> None] : c \in cases}

NoProblem == [rows |-> 0, cols |-> 0, cost |-> <<>>]

\* Either a week is scored or one of the other reports is asked for.
ReportInit ==
  \/ Init /\ report = None
  \/ /\ report \in Asked("waivers", WaiverCases) \union Asked("trades", LeagueCases)
                     \union Asked("grade", GradeCases) \union Asked("start_sit", RosterCases)
                     \union Asked("digest", DigestCases) \union Asked("activity", TransactionCases)
     /\ week = <<>>
     /\ problem = NoProblem /\ Start

Answer(kind, answer) ==
  /\ report # None /\ report.kind = kind /\ report.answer = None
  /\ report' = [report EXCEPT !.answer = answer]
  /\ UNCHANGED vars

\* What each of them answers to a case.
WaiverTargets(c) ==
  LET context == IF c.premium THEN BudgetContext(c.league, c.teams) ELSE None
  IN  [context |-> context, week |-> ThisWeek(c.mine, c.agents, context),
       season |-> RestOfSeason(c.mine, c.agents)]

TradeSuggestions(c) == [t \in DOMAIN c.rosters |-> Suggestions(c.rosters, c.counts, t)]

\* The trade, the trade with its sides exchanged, and without A's last player.
TradeGrades(c) ==
  LET Grade(sends) == GradeTrade(sends, c.current)
  IN  [graded |-> Grade(c.sends),
       mirrored |-> Grade([a |-> c.sends.b, b |-> c.sends.a]),
       lighter |-> Grade([c.sends EXCEPT !.a = Take(@, Len(@) - 1)])]

\* The lineup advice, and the preview of the week that builds on it.
LineupAdvice(c) == [rows |-> StartSit(c.mine), preview |-> Preview(c.mine, c.opponent)]

\* What this sync changed, and what the next one will if it is all undone.
Changes(c) == [there |-> DiffPlayers(c.before, c.after), back |-> DiffPlayers(c.after, c.before)]

\* The feed of the last sync with the spending, and for whoever has which team
\* his claims.
Activity(c) ==
  [claims |-> [t \in Teams \union {None} |-> ClaimsShown(c.connected, t, c.pending)],
   feed |-> Feed(c.log), spending |-> Spending(Feed(c.log))]

GetWaivers == Answer("waivers", WaiverTargets(report.of))
GetTrades == Answer("trades", TradeSuggestions(report.of))
PostTradeGrade == Answer("grade", TradeGrades(report.of))
GetStartSit == Answer("start_sit", LineupAdvice(report.of))
GetDigest == Answer("digest", Changes(report.of))
GetActivity == Answer("activity", Activity(report.of))

Answered ==
  GetWaivers \/ GetTrades \/ PostTradeGrade \/ GetStartSit \/ GetDigest \/ GetActivity

ScoreWeek == report = None /\ Next /\ UNCHANGED report

ReportNext == ScoreWeek \/ Answered

ReportSpec == ReportInit /\ [][ReportNext]_reportVars /\ WF_reportVars(ScoreWeek)
-----------------------------------------------------------------------------
Known(kind) == report # None /\ report.kind = kind /\ report.answer # None

\* Waiver advice can be followed: bids are affordable and rise with the upgrade,
\* and nobody better is passed over, this week or for the rest of the season.
WaiverAdviceHolds ==
  Known("waivers") =>
    /\ BidsArePossible(report.answer.context, report.answer.week)
    /\ NobodyPassedOver(report.of.mine, report.of.agents, report.answer.week)
    /\ StashesGainValue(report.of.mine, report.of.agents, report.answer.season)

\* Trade advice treats all teams of a league alike.
TradeAdviceHolds ==
  /\ Known("trades") => /\ ProfilesAreFair(report.of.rosters, report.answer)
                        /\ PartnersComplement(report.answer)
  /\ Known("grade") => GradesAreImpartial(report.answer.graded, report.answer.mirrored,
                                                report.answer.lighter)

\* The recommended lineup is legal, as good as promised, and no swap in it is
\* for the worse.
StartSitHolds ==
  Known("start_sit") =>
    /\ LineupIsLegal(report.of.mine, report.answer.rows)
    /\ GreedyIsBest(report.of.mine, report.answer.rows)
    /\ NoSwapForTheWorse(report.of.mine, report.answer.rows)

\* A digest leaves out the least significant changes only, and what is undone by
\* the next sync is reported the other way round.
DigestHolds ==
  Known("digest") =>
    /\ UndoneIsReported(report.answer.there, report.answer.back)
    /\ UrgentIsKept(report.of.before, report.of.after, report.answer.there)

\* Claims, feed and spending tell one story of the same transactions.
ActivityHolds ==
  Known("activity") =>
    /\ SidesAgree(report.of.pending, report.answer.claims)
    /\ FeedIsNewest(report.of.log, report.answer.feed)
    /\ SpendingAddsUp(report.of.log, report.answer.feed, report.answer.spending)

\* No lineup keeps the search or the augmentation going for ever.
EveryWeekIsScored == report = None ~> Done
=============================================================================
