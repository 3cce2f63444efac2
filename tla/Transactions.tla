---------------------------- MODULE Transactions ----------------------------
(***************************************************************************)
(* ESPN's transactions as this program reads them: the claims that are still *)
(* pending (app/espn_claims.py) and the feed of what happened, with what     *)
(* each manager spent (app/league_activity.py).  Both fall back on whatever  *)
(* a payload leaves out, which is None here.                                 *)
(***************************************************************************)
EXTENDS Ranking

CONSTANTS
  Teams,      \* espn team ids
  Types,      \* transaction types
  Bidding,    \* those that are waiver claims
  Statuses,   \* values of a transaction's status; None for none
  Finished,   \* FINISHED_STATUSES
  Completed,  \* COMPLETED_STATUSES
  MaxClaims,  \* claims shown
  MaxStored   \* transactions kept in the feed

Item == [player : Nat, type : {"ADD", "DROP", "TRADE", "LINEUP"},
         to : Teams \union {None}, from : Teams \union {None}]

\* pending is isPending; period the scoring period it runs in,
\* at when it was proposed or processed.
Transaction == [id : Nat, team : Teams, type : Types, status : Statuses, pending : {TRUE, FALSE, None},
                items : Seq(Item), bid : Nat \union {None}, period : Nat \union {None}, at : Nat \union {None}]

\* An answer of ESPN names every transaction once.
TransactionList == {s \in Seq(Transaction) : \A i, j \in DOMAIN s : s[i].id = s[j].id => i = j}

\* Mutant: the label decides.
SideByLabel(item, team) == IF item.type = "ADD" THEN "in" ELSE "out"

\* Which way an item goes for a team; the label decides only if no team does.
Side(item, team) ==
  IF item.type = "LINEUP" THEN "none"
  ELSE IF item.to = team THEN "in"
  ELSE IF item.from = team THEN "out"
  ELSE CASE item.type = "ADD" -> "in" [] item.type = "DROP" -> "out" [] OTHER -> "none"

Moved(txn, team, side) == Kept(txn.items, {i \in DOMAIN txn.items : Side(txn.items[i], team) = side})

\* Only a waiver claim has a bid worth showing.
Row(txn, team) ==
  [id |-> txn.id, team |-> team, bid |-> IF txn.type \in Bidding THEN txn.bid ELSE None,
   period |-> txn.period, at |-> txn.at,
   adds |-> Moved(txn, team, "in"), drops |-> Moved(txn, team, "out")]

Moves(row) == row.adds # <<>> \/ row.drops # <<>>

OrZero(n) == IF n = None THEN 0 ELSE n

\* Periods are compared first; MaxAt is above every time.
MaxAt == 100
Recency(row) == MaxAt * OrZero(row.period) + OrZero(row.at)
-----------------------------------------------------------------------------
Involves(txn, team) ==
  txn.team = team \/ \E i \in DOMAIN txn.items : team \in {txn.items[i].to, txn.items[i].from}

MayBeLive(txn, mine) ==
  txn.pending # FALSE /\ txn.status \notin Finished /\ Involves(txn, mine) /\ Moves(Row(txn, mine))

\* The first MaxClaims that may be live, soonest first, then the biggest bid.
PendingClaims(txns, mine) ==
  LET live == Kept(txns, {k \in DOMAIN txns : MayBeLive(txns[k], mine)})
      rows == [k \in DOMAIN live |-> Row(live[k], mine)]
      Bid(row) == OrZero(row.bid)
      Period(row) == OrZero(row.period)
  IN  Ascending(Descending(Take(rows, MaxClaims), Bid), Period)

\* What ESPN answers to the request for my claims, and what is shown: connected
\* is whether I saved my cookies.
ClaimsShown(connected, mine, answer) ==
  IF ~connected THEN [connected |-> FALSE, claims |-> <<>>, error |-> FALSE]
  ELSE IF mine = None \/ answer = None THEN [connected |-> TRUE, claims |-> <<>>, error |-> TRUE]
  ELSE [connected |-> TRUE, claims |-> PendingClaims(answer, mine), error |-> FALSE]
-----------------------------------------------------------------------------
Newest(rows) == Take(Descending(rows, Recency), MaxStored)

Happened(txn) == txn.status \in Completed /\ txn.pending # TRUE /\ Moves(Row(txn, txn.team))

\* The completed ones from the transacting team's point of view.
Feed(txns) ==
  LET done == Kept(txns, {k \in DOMAIN txns : Happened(txns[k])})
  IN  Newest([k \in DOMAIN done |-> Row(done[k], done[k].team)])

ClaimsWon(feed, team) ==
  Kept(feed, {k \in DOMAIN feed : feed[k].team = team /\ feed[k].bid # None /\ feed[k].bid > 0})

\* summarize_spending, for every team with a move.
Spending(feed) ==
  LET Bid(row) == row.bid
  IN  [team \in {feed[k].team : k \in DOMAIN feed} |->
         LET won == ClaimsWon(feed, team)
         IN  [spent |-> Total(won, Bid), claims |-> Len(won),
              biggest |-> IF won = <<>> THEN 0 ELSE First(won, Bid).bid,
              average |-> IF won = <<>> THEN 0 ELSE RoundDiv(10 * Total(won, Bid), Len(won))]]
-----------------------------------------------------------------------------
Ids(rows) == {rows[k].id : k \in DOMAIN rows}

Named(items) == {items[i].player : i \in DOMAIN items}

\* Both sides of a trade see the same trade: what one gains the other loses,
\* in claims and feed alike, when ESPN says where every player goes.
SidesAgree(txns, shown) ==
  txns # None =>
    \A k \in DOMAIN txns : \A t, u \in Teams :
      LET txn == txns[k]
          Between(item) == {item.to, item.from} = {t, u} /\ t # u
          RowOf(team) == {row \in ToSet(shown[team].claims) : row.id = txn.id}
      IN  (\A i \in DOMAIN txn.items : Between(txn.items[i])) =>
            \A mine \in RowOf(t), theirs \in RowOf(u) :
              Named(mine.adds) = Named(theirs.drops) /\ Named(mine.drops) = Named(theirs.adds)

\* The feed keeps the recent end, and the spending report accounts for every
\* dollar in it: an average and a biggest bid that fit what was spent.
FeedIsNewest(txns, feed) ==
  \A k \in DOMAIN txns, j \in DOMAIN feed :
    txns[k].id \notin Ids(feed) /\ txns[k].status \in Completed /\ txns[k].pending = FALSE
      /\ Moves(Row(txns[k], txns[k].team))
      => Recency(txns[k]) <= Recency(feed[j]) /\ Len(feed) = MaxStored

SpendingAddsUp(txns, feed, spending) ==
  LET claims == {k \in DOMAIN txns : txns[k].id \in Ids(feed) /\ txns[k].type \in Bidding}
  IN  /\ SumFunction([k \in claims |-> OrZero(txns[k].bid)])
           = SumFunction([t \in DOMAIN spending |-> spending[t].spent])
      /\ \A t \in DOMAIN spending :
           /\ spending[t].biggest <= spending[t].spent
           /\ spending[t].average <= 10 * spending[t].biggest
           /\ spending[t].spent <= spending[t].claims * spending[t].biggest
=============================================================================
