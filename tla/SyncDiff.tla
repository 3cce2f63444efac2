------------------------------ MODULE SyncDiff ------------------------------
(***************************************************************************)
(* What one synchronisation changed: diff_players of app/sync_diff.py over  *)
(* two results of snapshot_players, which are sequences of players in       *)
(* database order.  LeagueSync says which two pools are compared and when.  *)
(***************************************************************************)
EXTENDS Ranking

CONSTANTS
  Owners,      \* names of the teams
  MaxChanges   \* changes a digest keeps

InjuryStatuses == {"ACTIVE", "NORMAL", "QUESTIONABLE", "OUT"}
ActiveStatuses == {"ACTIVE", "NORMAL"}

\* owned is the percentage of leagues that roster him.
\* No week's projection is anywhere near these bounds.
SnapshotPlayer == [id : Nat, status : InjuryStatuses, owner : Owners \union {None},
                   owned : 0 .. 100, points : -50 .. 350 \union {None}]

\* A dict of players has each once.
Snapshot == {s \in Seq(SnapshotPlayer) : \A i, j \in DOMAIN s : s[i].id = s[j].id => i = j}

OwnershipJump == 5
ProjectionSwing == 3

Size(n) == IF n < 0 THEN -n ELSE n

\* The comparisons of one player, in their order, and what they compare.
Kinds == <<"injury", "roster_move", "ownership", "projection">>
Field == [injury |-> "status", roster_move |-> "owner", ownership |-> "owned", projection |-> "points"]

\* A pair of active statuses is no news.
IsNews(kind, old, new) ==
  CASE kind = "injury" -> old.status # new.status /\ ~{old.status, new.status} \subseteq ActiveStatuses
    [] kind = "roster_move" -> old.owner # new.owner
    [] kind = "ownership" -> Size(new.owned - old.owned) >= OwnershipJump
    [] kind = "projection" -> /\ old.points # None /\ new.points # None
                              /\ Size(new.points - old.points) >= ProjectionSwing

Magnitude(kind, old, new) ==
  CASE kind = "injury" -> IF new.status \in ActiveStatuses THEN 0 ELSE 1
    [] kind = "roster_move" -> 0
    [] OTHER -> new[Field[kind]] - old[Field[kind]]

ChangeOf(kind, old, new) ==
  [id |-> new.id, kind |-> kind, owner |-> new.owner,
   from |-> old[Field[kind]], to |-> new[Field[kind]], magnitude |-> Magnitude(kind, old, new)]

KindWeight == [injury |-> 1000, roster_move |-> 500, ownership |-> 100, projection |-> 50]

\* Mutant: the size of the swing alone decides.
SignificanceBySize(change) == Size(change.magnitude)

Significance(change) == KindWeight[change.kind] + Size(change.magnitude)

\* Four comparisons of every player: which one the n-th is, and of whom.
KindOf(n) == Kinds[1 + ((n - 1) % 4)]
PlayerOf(n) == (n + 3) \div 4

\* Players new to the pool are no change.
News(before, after) ==
  {n \in 1 .. 4 * Len(after) : \E i \in DOMAIN before :
     before[i].id = after[PlayerOf(n)].id /\ IsNews(KindOf(n), before[i], after[PlayerOf(n)])}

ChangeAt(before, after, n) ==
  LET i == CHOOSE i \in DOMAIN before : before[i].id = after[PlayerOf(n)].id
  IN  ChangeOf(KindOf(n), before[i], after[PlayerOf(n)])

\* The most significant changes are kept.
DiffPlayers(before, after) ==
  LET news == Listed(News(before, after))
      changes == [k \in DOMAIN news |-> ChangeAt(before, after, news[k])]
  IN  Take(Descending(changes, Significance), MaxChanges)
-----------------------------------------------------------------------------
KindsOf(changes, id) == {changes[k].kind : k \in {j \in DOMAIN changes : changes[j].id = id}}

\* What is reported one way is reported the other way round when it is undone:
\* the same kinds for the same players, with from and to exchanged.  So what
\* two syncs do and undo shows up in both of their digests.
UndoneIsReported(there, back) ==
  /\ Len(there) = Len(back)
  /\ Len(there) < MaxChanges =>
       \A k \in DOMAIN there : \E j \in DOMAIN back :
         /\ back[j].id = there[k].id /\ back[j].kind = there[k].kind
         /\ back[j].from = there[k].to /\ back[j].to = there[k].from

\* sync_diff.py: injuries first, then roster moves, then the numeric swings.  An
\* injury or a move is reported of nobody who had none, and a digest that had to
\* leave one out kept only what is as urgent: no swing in place of a move, and
\* neither a swing nor a move in place of an injury.
Order == [injury |-> 1, roster_move |-> 2, ownership |-> 3, projection |-> 3]

UrgentIsKept(before, after, changes) ==
  \A i \in DOMAIN before, j \in DOMAIN after, kind \in {"injury", "roster_move"} :
    before[i].id = after[j].id =>
      /\ kind \in KindsOf(changes, after[j].id) => IsNews(kind, before[i], after[j])
      /\ IsNews(kind, before[i], after[j]) /\ kind \notin KindsOf(changes, after[j].id) =>
           /\ Len(changes) = MaxChanges
           /\ \A k \in DOMAIN changes : Order[changes[k].kind] <= Order[kind]
=============================================================================
