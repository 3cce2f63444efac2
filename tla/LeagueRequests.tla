--------------------------- MODULE LeagueRequests ---------------------------
(***************************************************************************)
(* Requests about one league of one user that take several steps: planned  *)
(* moves, the bench points report and the deletion of the league, of        *)
(* app/main.py and app/bench_points.py, next to its synchronisation.  Every *)
(* SELECT sees what is committed at that moment, and nothing holds a lock   *)
(* from one statement to the next.  A synchronisation is one step here:     *)
(* LeagueSync is about its insides.                                         *)
(***************************************************************************)
EXTENDS Integers, FiniteSets

CONSTANTS
  Requests,   \* requests in progress at once
  RowIds,     \* ids of the leagues row; a deleted row's id may be reused
  Teams,      \* teams of the league
  Players,    \* players to plan a claim for
  MaxMoves,   \* MAX_PLANNED_MOVES_PER_LEAGUE
  None,
  MaxWeek,    \* bound: weeks of the season
  MaxLeagues, \* bound: times the league is created
  MaxId       \* bound: ids of planned moves

ASSUME RequestAssumption ==
  /\ MaxMoves \in Nat \ {0} /\ MaxWeek \in Nat \ {0}
  /\ MaxLeagues \in Nat \ {0} /\ MaxId \in Nat
  /\ IsFiniteSet(Requests)
  /\ None \notin Teams

VARIABLES
  espnWeek,  \* the week being played
  league,    \* the committed leagues row
  births,    \* how many leagues there have been
  moves,     \* the planned_moves table
  request,   \* the requests in progress
  crossed,   \* history: a league was being deleted while another request ran
  reported   \* history: two reports were in progress at once

vars == <<espnWeek, league, births, moves, request, crossed, reported>>
-----------------------------------------------------------------------------
Weeks == 1 .. MaxWeek
Maybe(S) == S \union {None}

\* What is kept of a scored week: of which league, and whether it was over.
Cache == [Teams -> [Weeks -> Maybe([of : Nat, final : BOOLEAN])]]

\* born tells leagues apart that have the same id.
League == [id : RowIds, born : Nat, week : Weeks, myTeam : Maybe(Teams), cache : Cache]

ASSUME NoneAssumption == None \notin League /\ None \notin [of : Nat, final : BOOLEAN]

Move == [id : 1 .. MaxId, league : RowIds, born : Nat, player : Players]

Kinds == {"add", "remove", "report", "drop"}

Request == [at : {"idle", "loaded", "counted", "checked", "found", "fetched"},
            kind : Maybe(Kinds), id : Maybe(RowIds), born : Nat,
            mine : Maybe(League), player : Maybe(Players), seen : SUBSET Move]

Idle == [at |-> "idle", kind |-> None, id |-> None, born |-> 0,
         mine |-> None, player |-> None, seen |-> {}]

TypeOK ==
  /\ espnWeek \in Weeks
  /\ league \in Maybe(League)
  /\ births \in 0 .. MaxLeagues
  /\ moves \subseteq Move
  /\ request \in [Requests -> Request]
  /\ crossed \in BOOLEAN /\ reported \in BOOLEAN

Init ==
  /\ espnWeek = 1
  /\ league = None
  /\ births = 0
  /\ moves = {}
  /\ request = [r \in Requests |-> Idle]
  /\ crossed = FALSE /\ reported = FALSE
-----------------------------------------------------------------------------
\* The next week begins at ESPN.
WeekAdvances ==
  /\ espnWeek < MaxWeek
  /\ espnWeek' = espnWeek + 1
  /\ UNCHANGED <<league, births, moves, request, crossed, reported>>

\* sync_league inserts the row or updates its columns; the report's stays.
Sync(i) ==
  /\ IF league = None
     THEN /\ births < MaxLeagues
          /\ births' = births + 1
          /\ league' = [id |-> i, born |-> births + 1, week |-> espnWeek, myTeam |-> None,
                        cache |-> [t \in Teams |-> [w \in Weeks |-> None]]]
     ELSE /\ league.id = i
          /\ league' = [league EXCEPT !.week = espnWeek]
          /\ UNCHANGED births
  /\ UNCHANGED <<espnWeek, moves, request, crossed, reported>>

SetMyTeam(t) ==
  /\ league # None
  /\ league' = [league EXCEPT !.myTeam = t]
  /\ UNCHANGED <<espnWeek, births, moves, request, crossed, reported>>
-----------------------------------------------------------------------------
InProgress(r) == request[r].at # "idle"

\* A request is over, with whatever answer.
End(r) == request' = [request EXCEPT ![r] = Idle]

Go(r, at) == request' = [request EXCEPT ![r].at = at]

PlannedFor(id) == {m \in moves : m.league = id}

\* _owned_league_or_404 loads the row, which is not read again: a report goes
\* on with its columns, the other requests with its id.  The deletion loads
\* what it cascades to as well.
LoadLeague(r, kind, player) ==
  /\ ~InProgress(r)
  /\ league # None
  /\ kind = "report" => league.myTeam # None
  /\ (player # None) <=> (kind = "add")
  /\ request' = [request EXCEPT ![r] = [
       at |-> "loaded", kind |-> kind, id |-> league.id, born |-> league.born,
       mine |-> IF kind = "report" THEN league ELSE None, player |-> player,
       seen |-> IF kind = "drop" THEN PlannedFor(league.id) ELSE {}]]
  /\ crossed' = (crossed \/ \E q \in Requests : InProgress(q) /\ "drop" \in {kind, request[q].kind})
  /\ reported' = (reported \/ \E q \in Requests : InProgress(q) /\ {kind, request[q].kind} = {"report"})
  /\ UNCHANGED <<espnWeek, league, births, moves>>

\* Mutant: the comparison lets one more through.
AtLimitExceeded(id) == Cardinality(PlannedFor(id)) > MaxMoves

AtLimit(id) == Cardinality(PlannedFor(id)) >= MaxMoves

CountMoves(r) ==
  /\ request[r].at = "loaded" /\ request[r].kind = "add"
  /\ IF AtLimit(request[r].id) THEN End(r) ELSE Go(r, "counted")
  /\ UNCHANGED <<espnWeek, league, births, moves, crossed, reported>>

CheckPlanned(r) ==
  /\ request[r].at = "counted"
  /\ IF \E m \in PlannedFor(request[r].id) : m.player = request[r].player
     THEN End(r) ELSE Go(r, "checked")
  /\ UNCHANGED <<espnWeek, league, births, moves, crossed, reported>>

\* SQLite gives the id after the greatest, and checks no foreign key.
IsNewId(i) == \A m \in moves : m.id < i

InsertMove(r, i) ==
  /\ request[r].at = "checked"
  /\ IsNewId(i) /\ (i = 1 \/ \E m \in moves : m.id = i - 1)
  /\ moves' = moves \union
       {[id |-> i, league |-> request[r].id, born |-> request[r].born,
         player |-> request[r].player]}
  /\ End(r)
  /\ UNCHANGED <<espnWeek, league, births, crossed, reported>>

\* delete_planned_move looks the id up and sees that the move is this league's.
FindMove(r, m) ==
  /\ request[r].at = "loaded" /\ request[r].kind = "remove"
  /\ m \in PlannedFor(request[r].id)
  /\ request' = [request EXCEPT ![r].at = "found", ![r].seen = {m}]
  /\ UNCHANGED <<espnWeek, league, births, moves, crossed, reported>>

\* Rows are deleted by their ids.
Without(seen) == {m \in moves : \A s \in seen : s.id # m.id}

RemoveMove(r) ==
  /\ request[r].at = "found"
  /\ moves' = Without(request[r].seen)
  /\ End(r)
  /\ UNCHANGED <<espnWeek, league, births, crossed, reported>>

\* Mutant: the relationship does not cascade.
Uncascaded(seen) == moves

Cascaded(seen) == Without(seen)

DropLeague(r) ==
  /\ request[r].at = "loaded" /\ request[r].kind = "drop"
  /\ league' = IF league # None /\ league.id = request[r].id THEN None ELSE league
  /\ moves' = Cascaded(request[r].seen)
  /\ End(r)
  /\ UNCHANGED <<espnWeek, births, crossed, reported>>
-----------------------------------------------------------------------------
\* A week that is cached is not fetched again, unless it is the current one.
NeedsScoring(mine, w) == mine.cache[mine.myTeam][w] = None \/ w = mine.week

Scored(mine, served) ==
  [w \in Weeks |-> IF w \in served THEN [of |-> mine.born, final |-> w < espnWeek]
                  ELSE mine.cache[mine.myTeam][w]]

\* get_bench_points scores the weeks it needs and ESPN serves.
FetchWeeks(r, served) ==
  /\ request[r].at = "loaded" /\ request[r].kind = "report"
  /\ LET mine == request[r].mine
     IN  /\ \A w \in served : w <= mine.week /\ NeedsScoring(mine, w)
         /\ IF served = {} THEN End(r)
            ELSE request' = [request EXCEPT
                   ![r].at = "fetched",
                   ![r].mine = [mine EXCEPT !.cache[mine.myTeam] = Scored(mine, served)]]
  /\ UNCHANGED <<espnWeek, league, births, moves, crossed, reported>>

\* Mutant: only the team reported on is written.
CacheOfTeam(mine) ==
  [t \in Teams |-> IF t = mine.myTeam THEN mine.cache[t] ELSE [w \in Weeks |-> None]]

\* The whole dictionary, as it was loaded and filled in.
WholeCache(mine) == mine.cache

\* The commit updates the row with that id; if there is none, it fails.
StoreWeeks(r) ==
  /\ request[r].at = "fetched"
  /\ league' = IF league # None /\ league.id = request[r].id
               THEN [league EXCEPT !.cache = WholeCache(request[r].mine)] ELSE league
  /\ End(r)
  /\ UNCHANGED <<espnWeek, births, moves, crossed, reported>>

\* A refusal, a failed request, the wait for the lock, the end of the process.
Abandon(r) ==
  /\ InProgress(r)
  /\ End(r)
  /\ UNCHANGED <<espnWeek, league, births, moves, crossed, reported>>
-----------------------------------------------------------------------------
Handle(r) ==
  \/ \E kind \in Kinds, player \in Maybe(Players) : LoadLeague(r, kind, player)
  \/ CountMoves(r) \/ CheckPlanned(r) \/ (\E i \in 1 .. MaxId : InsertMove(r, i))
  \/ (\E m \in moves : FindMove(r, m)) \/ RemoveMove(r)
  \/ DropLeague(r)
  \/ (\E served \in SUBSET Weeks : FetchWeeks(r, served)) \/ StoreWeeks(r)
  \/ Abandon(r)

Next ==
  \/ WeekAdvances
  \/ \E i \in RowIds : Sync(i)
  \/ \E t \in Teams : SetMyTeam(t)
  \/ \E r \in Requests : Handle(r)

Spec == Init /\ [][Next]_vars
-----------------------------------------------------------------------------
\* main.py: bounded, so a runaway client can't turn this into unbounded
\* storage.  Counting, checking and inserting are three steps, so requests that
\* overlap get past the limit and past each other, but never by more than there
\* are of them, however long the sequence of requests.
MovesStayBounded ==
  \A id \in RowIds :
    /\ Cardinality(PlannedFor(id)) < MaxMoves + Cardinality(Requests)
    /\ \A p \in Players : Cardinality({m \in PlannedFor(id) : m.player = p}) <= Cardinality(Requests)

\* models.py: rows permanently orphaned must not be.  Unless the league was
\* being deleted while another request ran, planned moves and scored weeks are
\* those of the league they are shown for, also when its id has been reused.
LeagueKeepsItsOwn ==
  ~crossed =>
    /\ \A m \in moves : league # None /\ m.league = league.id /\ m.born = league.born
    /\ league # None =>
         \A t \in Teams, w \in Weeks :
           league.cache[t][w] # None => league.cache[t][w].of = league.born

\* models.py, bench_points: weeks already computed are never re-fetched.  Unless
\* two reports overlap, a scored week is never lost and a final score stays
\* final, whatever is synchronised or switched to another team meanwhile.
ScoredWeeksAreKept ==
  [][~reported /\ ~crossed /\ league # None /\ league' # None /\ league'.born = league.born =>
       \A t \in Teams, w \in Weeks :
         league.cache[t][w] # None =>
           /\ league'.cache[t][w] # None
           /\ league.cache[t][w].final => league'.cache[t][w].final]_vars

\* bench_points.py: the current week is still accruing points, so never trust a
\* cached copy of it.  A week that is over when it is read from the cache was
\* over when it was scored.
TrustedWeeksAreOver ==
  \A r \in Requests :
    InProgress(r) /\ request[r].kind = "report" =>
      LET mine == request[r].mine
      IN  \A w \in 1 .. mine.week - 1 : mine.cache[mine.myTeam][w] # None => mine.cache[mine.myTeam][w].final
=============================================================================
