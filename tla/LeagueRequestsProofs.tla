----------------------- MODULE LeagueRequestsProofs -----------------------
(***************************************************************************)
(* For any number of requests at once, leagues, teams, players, weeks and   *)
(* any limit: planned moves stay bounded, a league keeps to its own, and    *)
(* scored weeks are kept.                                                   *)
(***************************************************************************)
EXTENDS LeagueRequests, FiniteSetTheorems, TLAPS

\* What the steps of a request leave in its record.
ShapeInv ==
  \A r \in Requests :
    InProgress(r) =>
      /\ request[r].id \in RowIds /\ request[r].kind \in Kinds
      /\ request[r].kind = "add" => request[r].player \in Players
      /\ request[r].at \in {"counted", "checked"} => request[r].kind = "add"
      /\ request[r].at = "found" => request[r].kind = "remove"
      /\ request[r].at = "fetched" => request[r].kind = "report"
      /\ request[r].kind = "report" =>
           request[r].mine \in League /\ request[r].mine.myTeam \in Teams

TypeInv == TypeOK /\ ShapeInv /\ IsFiniteSet(moves)

USE RequestAssumption, NoneAssumption DEF Maybe
-----------------------------------------------------------------------------
LEMMA TypeInit == Init => TypeInv
<1> SUFFICES ASSUME Init PROVE TypeInv
  OBVIOUS
<1>1. TypeOK
  <2>1. Idle \in Request
    BY DEF Idle, Request
  <2>2. espnWeek \in Weeks /\ births \in 0 .. MaxLeagues /\ moves \subseteq Move
    BY DEF Init, Weeks
  <2>3. request \in [Requests -> Request] /\ crossed \in BOOLEAN /\ reported \in BOOLEAN
    BY <2>1 DEF Init
  <2>4. QED
    BY <2>2, <2>3 DEF Init, TypeOK
<1>2. ShapeInv
  BY DEF Init, ShapeInv, InProgress, Idle
<1>3. IsFiniteSet(moves)
  BY FS_EmptySet DEF Init
<1>4. QED
  BY <1>1, <1>2, <1>3 DEF TypeInv

\* A step of one request, to a record that has the shape.
LEMMA TypeOfRequest ==
  ASSUME TypeInv, NEW r \in Requests, NEW q \in Request,
         request' = [request EXCEPT ![r] = q],
         \/ q.at = "idle"
         \/ /\ q.id \in RowIds /\ q.kind \in Kinds
            /\ q.kind = "add" => q.player \in Players
            /\ q.at \in {"counted", "checked"} => q.kind = "add"
            /\ q.at = "found" => q.kind = "remove"
            /\ q.at = "fetched" => q.kind = "report"
            /\ q.kind = "report" => q.mine \in League /\ q.mine.myTeam \in Teams
  PROVE  request' \in [Requests -> Request] /\ ShapeInv'
<1>1. /\ request' \in [Requests -> Request] /\ request'[r] = q
      /\ \A p \in Requests : p # r => request'[p] = request[p]
  BY DEF TypeInv, TypeOK
<1>2. ASSUME NEW p \in Requests, InProgress(p)'
      PROVE  /\ request'[p].id \in RowIds /\ request'[p].kind \in Kinds
             /\ request'[p].kind = "add" => request'[p].player \in Players
             /\ request'[p].at \in {"counted", "checked"} => request'[p].kind = "add"
             /\ request'[p].at = "found" => request'[p].kind = "remove"
             /\ request'[p].at = "fetched" => request'[p].kind = "report"
             /\ request'[p].kind = "report" =>
                  request'[p].mine \in League /\ request'[p].mine.myTeam \in Teams
  <2>1. CASE p = r
    BY <1>1, <1>2, <2>1 DEF InProgress
  <2>2. CASE p # r
    BY <1>1, <1>2, <2>2 DEF InProgress, TypeInv, ShapeInv
  <2>3. QED
    BY <2>1, <2>2
<1>3. QED
  BY <1>1, <1>2 DEF ShapeInv

LEMMA EndKeepsType ==
  ASSUME TypeInv, NEW r \in Requests, End(r)
  PROVE  request' \in [Requests -> Request] /\ ShapeInv'
<1>1. Idle \in Request /\ Idle.at = "idle"
  BY DEF Idle, Request
<1>2. QED
  BY <1>1, TypeOfRequest DEF End

LEMMA GoKeepsType ==
  ASSUME TypeInv, NEW r \in Requests, NEW at \in {"counted", "checked"},
         InProgress(r), request[r].kind = "add", Go(r, at)
  PROVE  request' \in [Requests -> Request] /\ ShapeInv'
<1> DEFINE q == [request[r] EXCEPT !.at = at]
<1>1. request[r] \in Request
  BY DEF TypeInv, TypeOK
<1>2. q \in Request /\ q.at = at /\ q.id = request[r].id /\ q.kind = "add" /\ q.player = request[r].player
  BY <1>1 DEF Request
<1>3. request' = [request EXCEPT ![r] = q]
  BY DEF Go
<1>4. q.id \in RowIds /\ q.kind \in Kinds /\ q.player \in Players
  BY <1>2 DEF TypeInv, ShapeInv, Kinds
<1> HIDE DEF q
<1>5. QED
  BY <1>2, <1>3, <1>4, TypeOfRequest

LEMMA LoadKeepsType ==
  ASSUME TypeInv, NEW r \in Requests, NEW kind \in Kinds, NEW player \in Maybe(Players),
         LoadLeague(r, kind, player)
  PROVE  request' \in [Requests -> Request] /\ ShapeInv'
<1> DEFINE mine == IF kind = "report" THEN league ELSE None
           seen == IF kind = "drop" THEN PlannedFor(league.id) ELSE {}
           q == [at |-> "loaded", kind |-> kind, id |-> league.id, born |-> league.born,
                 mine |-> mine, player |-> player, seen |-> seen]
<1>1. league \in League /\ league.id \in RowIds /\ league.born \in Nat
  BY DEF LoadLeague, TypeInv, TypeOK, League
<1>2. mine \in Maybe(League) /\ seen \in SUBSET Move
  BY <1>1 DEF TypeInv, TypeOK, PlannedFor
<1>3. q \in Request
  BY <1>1, <1>2 DEF Request
<1>4. kind = "report" => mine \in League /\ mine.myTeam \in Teams
  BY <1>1 DEF LoadLeague, League
<1>5. kind = "add" => player \in Players
  BY DEF LoadLeague
<1>6. request' = [request EXCEPT ![r] = q]
  BY DEF LoadLeague
<1>7. /\ q.at = "loaded" /\ q.id = league.id /\ q.kind = kind /\ q.player = player
      /\ q.mine = mine
  OBVIOUS
<1> HIDE DEF q, mine, seen
<1>8. QED
  BY <1>1, <1>3, <1>4, <1>5, <1>6, <1>7, TypeOfRequest

LEMMA FindKeepsType ==
  ASSUME TypeInv, NEW r \in Requests, NEW m \in moves, FindMove(r, m)
  PROVE  request' \in [Requests -> Request] /\ ShapeInv'
<1> DEFINE q == [request[r] EXCEPT !.at = "found", !.seen = {m}]
<1>1. request[r] \in Request /\ m \in Move
  BY DEF TypeInv, TypeOK
<1>2. q \in Request /\ q.at = "found" /\ q.id = request[r].id /\ q.kind = "remove"
  BY <1>1 DEF Request, FindMove
<1>3. request' = [request EXCEPT ![r] = q]
  BY DEF FindMove
<1>4. q.id \in RowIds /\ q.kind \in Kinds
  BY <1>2 DEF TypeInv, ShapeInv, Kinds, FindMove, InProgress
<1> HIDE DEF q
<1>5. QED
  BY <1>2, <1>3, <1>4, TypeOfRequest

\* What is kept of a week says whose it is and whether it was over.
LEMMA ScoreFields ==
  ASSUME NEW of \in Nat, NEW w \in Int, NEW now \in Int, NEW score,
         score = [of |-> of, final |-> w < now]
  PROVE  score # None /\ score.of = of /\ (score.final <=> w < now)
<1>1. (w < now) \in BOOLEAN
  OBVIOUS
<1>2. \A final \in BOOLEAN : [of |-> of, final |-> final] # None
  OBVIOUS
<1>3. QED
  BY <1>1, <1>2

\* The week fetched is entered into the copy of the row.
LEMMA Entered ==
  ASSUME TypeInv, NEW r \in Requests, NEW served \in SUBSET Weeks, served # {},
         FetchWeeks(r, served)
  PROVE  \E row \in League : \E q \in Request :
           /\ row.born = request[r].mine.born /\ row.myTeam \in Teams
           /\ \A t \in Teams, w \in Weeks :
                \/ /\ row.cache[t][w] # None /\ row.cache[t][w].of = row.born
                   /\ row.cache[t][w].final <=> w < espnWeek
                \/ row.cache[t][w] = request[r].mine.cache[t][w]
           /\ q.at = "fetched" /\ q.kind = "report" /\ q.mine = row
           /\ q.id = request[r].id /\ q.born = request[r].born
           /\ request' = [request EXCEPT ![r] = q]
<1> DEFINE mine == request[r].mine
           row == [mine EXCEPT !.cache[mine.myTeam] = Scored(mine, served)]
<1>1. mine \in League /\ mine.myTeam \in Teams
  BY DEF FetchWeeks, TypeInv, ShapeInv, InProgress
<1>2. espnWeek \in Int /\ Weeks \subseteq Int
  BY DEF TypeInv, TypeOK, Weeks
<1>3. Scored(mine, served) \in [Weeks -> Maybe([of : Nat, final : BOOLEAN])]
  <2>1. SUFFICES ASSUME NEW w \in Weeks
                 PROVE  (IF w \in served THEN [of |-> mine.born, final |-> w < espnWeek]
                         ELSE mine.cache[mine.myTeam][w]) \in Maybe([of : Nat, final : BOOLEAN])
    BY DEF Scored
  <2>2. mine.born \in Nat /\ (w < espnWeek) \in BOOLEAN
    BY <1>1, <1>2 DEF League
  <2>3. mine.cache[mine.myTeam][w] \in Maybe([of : Nat, final : BOOLEAN])
    BY <1>1 DEF League, Cache
  <2>4. QED
    BY <2>2, <2>3
<1>4. [mine.cache EXCEPT ![mine.myTeam] = Scored(mine, served)] \in Cache
  BY <1>1, <1>3 DEF League, Cache
<1>5. row = [mine EXCEPT !.cache = [mine.cache EXCEPT ![mine.myTeam] = Scored(mine, served)]]
  OBVIOUS
<1>6. /\ row \in League /\ row.id = mine.id /\ row.born = mine.born
      /\ row.week = mine.week /\ row.myTeam = mine.myTeam
      /\ row.cache = [mine.cache EXCEPT ![mine.myTeam] = Scored(mine, served)]
  BY <1>1, <1>4, <1>5 DEF League
<1>7. request' = [request EXCEPT ![r] = [request[r] EXCEPT !.at = "fetched", !.mine = row]]
  BY DEF FetchWeeks, TypeInv, TypeOK
<1> DEFINE q == [request[r] EXCEPT !.at = "fetched", !.mine = row]
<1>8. request[r] \in Request /\ request[r].kind = "report"
  BY DEF FetchWeeks, TypeInv, TypeOK
<1>9. /\ q \in Request /\ q.at = "fetched" /\ q.kind = "report" /\ q.mine = row
      /\ q.id = request[r].id /\ q.born = request[r].born
      /\ request' = [request EXCEPT ![r] = q]
  BY <1>6, <1>7, <1>8 DEF Request
<1>10. ASSUME NEW t \in Teams, NEW w \in Weeks
       PROVE  \/ /\ row.cache[t][w] # None /\ row.cache[t][w].of = row.born
                 /\ row.cache[t][w].final <=> w < espnWeek
              \/ row.cache[t][w] = request[r].mine.cache[t][w]
  <2>1. CASE t = mine.myTeam /\ w \in served
    <3>1. row.cache[t][w] = [of |-> mine.born, final |-> w < espnWeek]
      BY <1>1, <1>6, <2>1 DEF Scored, League, Cache
    <3>2. mine.born \in Nat /\ w \in Int /\ espnWeek \in Int
      BY <1>1, <1>2 DEF League
    <3>3. QED
      BY <1>6, <3>1, <3>2, ScoreFields
  <2>2. CASE ~(t = mine.myTeam /\ w \in served)
    BY <1>1, <1>6, <2>2 DEF Scored, League, Cache
  <2>3. QED
    BY <2>1, <2>2
<1> HIDE DEF row, mine, q
<1>11. row.born = request[r].mine.born /\ row.myTeam \in Teams
  BY <1>1, <1>6 DEF mine
<1>12. QED
  BY <1>6, <1>9, <1>10, <1>11
-----------------------------------------------------------------------------
\* What happens to the league next to the requests.
LEMMA WorldKeepsType ==
  ASSUME TypeInv,
         WeekAdvances \/ (\E i \in RowIds : Sync(i)) \/ \E t \in Teams : SetMyTeam(t)
  PROVE  TypeInv'
<1>1. CASE WeekAdvances
  <2>1. espnWeek' \in Weeks
    BY <1>1 DEF WeekAdvances, TypeInv, TypeOK, Weeks
  <2>2. QED
    BY <1>1, <2>1 DEF WeekAdvances, TypeInv, TypeOK, ShapeInv, InProgress
<1>2. ASSUME NEW i \in RowIds, Sync(i) PROVE TypeInv'
  <2>1. league' \in Maybe(League) /\ births' \in 0 .. MaxLeagues
    <3>1. CASE league = None
      <4>1. births + 1 \in 0 .. MaxLeagues /\ births + 1 \in Nat /\ espnWeek \in Weeks
        BY <1>2, <3>1 DEF Sync, TypeInv, TypeOK
      <4>2. [t \in Teams |-> [w \in Weeks |-> None]] \in Cache
        BY DEF Cache
      <4>3. QED
        BY <1>2, <3>1, <4>1, <4>2 DEF Sync, League
    <3>2. CASE league # None
      BY <1>2, <3>2 DEF Sync, TypeInv, TypeOK, League
    <3>3. QED
      BY <3>1, <3>2
  <2>2. QED
    BY <1>2, <2>1 DEF Sync, TypeInv, TypeOK, ShapeInv, InProgress
<1>3. ASSUME NEW t \in Teams, SetMyTeam(t) PROVE TypeInv'
  <2>1. league' \in Maybe(League)
    BY <1>3 DEF SetMyTeam, TypeInv, TypeOK, League
  <2>2. QED
    BY <1>3, <2>1 DEF SetMyTeam, TypeInv, TypeOK, ShapeInv, InProgress
<1>4. QED
  BY <1>1, <1>2, <1>3

LEMMA RequestKeepsType ==
  ASSUME TypeInv, NEW r \in Requests, Handle(r)
  PROVE  TypeInv'
<1>1. CASE \E kind \in Kinds, player \in Maybe(Players) : LoadLeague(r, kind, player)
  <2>1. request' \in [Requests -> Request] /\ ShapeInv'
    BY <1>1, LoadKeepsType
  <2>2. crossed' \in BOOLEAN /\ reported' \in BOOLEAN
    BY <1>1 DEF LoadLeague
  <2>3. UNCHANGED <<espnWeek, league, births, moves>>
    BY <1>1 DEF LoadLeague
  <2>4. QED
    BY <2>1, <2>2, <2>3 DEF TypeInv, TypeOK
<1>2. CASE CountMoves(r)
  <2>1. request' \in [Requests -> Request] /\ ShapeInv'
    BY <1>2, EndKeepsType, GoKeepsType DEF CountMoves, InProgress
  <2>2. QED
    BY <1>2, <2>1 DEF CountMoves, TypeInv, TypeOK
<1>3. CASE CheckPlanned(r)
  <2>1. request[r].kind = "add" /\ InProgress(r)
    BY <1>3 DEF CheckPlanned, TypeInv, ShapeInv, InProgress
  <2>2. request' \in [Requests -> Request] /\ ShapeInv'
    BY <1>3, <2>1, EndKeepsType, GoKeepsType DEF CheckPlanned
  <2>3. QED
    BY <1>3, <2>2 DEF CheckPlanned, TypeInv, TypeOK
<1>4. ASSUME NEW i \in 1 .. MaxId, InsertMove(r, i) PROVE TypeInv'
  <2>1. request' \in [Requests -> Request] /\ ShapeInv'
    BY <1>4, EndKeepsType DEF InsertMove
  <2>2. InProgress(r) /\ request[r].id \in RowIds /\ request[r].player \in Players
    BY <1>4 DEF InsertMove, TypeInv, ShapeInv, InProgress
  <2>3. request[r].born \in Nat
    BY DEF TypeInv, TypeOK, Request
  <2> DEFINE m == [id |-> i, league |-> request[r].id, born |-> request[r].born,
                   player |-> request[r].player]
  <2>4. m \in Move
    BY <2>2, <2>3 DEF Move
  <2>5. moves' = moves \union {m}
    BY <1>4 DEF InsertMove
  <2> HIDE DEF m
  <2>6. moves' \subseteq Move /\ IsFiniteSet(moves')
    BY <2>4, <2>5, FS_AddElement DEF TypeInv, TypeOK
  <2>7. QED
    BY <1>4, <2>1, <2>6 DEF InsertMove, TypeInv, TypeOK
<1>5. ASSUME NEW m \in moves, FindMove(r, m) PROVE TypeInv'
  <2>1. request' \in [Requests -> Request] /\ ShapeInv'
    BY <1>5, FindKeepsType
  <2>2. QED
    BY <1>5, <2>1 DEF FindMove, TypeInv, TypeOK
<1>6. CASE RemoveMove(r) \/ DropLeague(r)
  <2>1. request' \in [Requests -> Request] /\ ShapeInv'
    BY <1>6, EndKeepsType DEF RemoveMove, DropLeague
  <2>2. moves' \subseteq moves
    BY <1>6 DEF RemoveMove, DropLeague, Cascaded, Without
  <2>3. moves' \subseteq Move /\ IsFiniteSet(moves')
    BY <2>2, FS_Subset DEF TypeInv, TypeOK
  <2>4. league' \in {league, None}
    BY <1>6 DEF RemoveMove, DropLeague
  <2>5. UNCHANGED <<espnWeek, births, crossed, reported>>
    BY <1>6 DEF RemoveMove, DropLeague
  <2>6. QED
    BY <2>1, <2>3, <2>4, <2>5 DEF TypeInv, TypeOK
<1>7. ASSUME NEW served \in SUBSET Weeks, FetchWeeks(r, served) PROVE TypeInv'
  <2>1. request' \in [Requests -> Request] /\ ShapeInv'
    <3>1. CASE served = {}
      BY <1>7, <3>1, EndKeepsType DEF FetchWeeks
    <3>2. CASE served # {}
      <4>1. PICK row \in League, q \in Request :
              /\ row.myTeam \in Teams /\ q.at = "fetched" /\ q.kind = "report" /\ q.mine = row
              /\ q.id = request[r].id /\ request' = [request EXCEPT ![r] = q]
        BY <1>7, <3>2, Entered
      <4>2. request[r].id \in RowIds /\ "report" \in Kinds
        BY <1>7 DEF FetchWeeks, TypeInv, ShapeInv, InProgress, Kinds
      <4>3. QED
        BY <4>1, <4>2, TypeOfRequest
    <3>3. QED
      BY <3>1, <3>2
  <2>2. QED
    BY <1>7, <2>1 DEF FetchWeeks, TypeInv, TypeOK
<1>8. CASE StoreWeeks(r)
  <2>1. request' \in [Requests -> Request] /\ ShapeInv'
    BY <1>8, EndKeepsType DEF StoreWeeks
  <2>2. request[r].mine \in League
    BY <1>8 DEF StoreWeeks, TypeInv, ShapeInv, InProgress
  <2>3. request[r].mine.cache \in Cache
    BY <2>2 DEF League
  <2>4. league' \in {league, [league EXCEPT !.cache = request[r].mine.cache]} /\ (league = None => league' = league)
    BY <1>8 DEF StoreWeeks, WholeCache
  <2>5. league' \in Maybe(League)
    BY <2>3, <2>4 DEF TypeInv, TypeOK, League
  <2>6. QED
    BY <1>8, <2>1, <2>5 DEF StoreWeeks, TypeInv, TypeOK
<1>9. CASE Abandon(r)
  <2>1. request' \in [Requests -> Request] /\ ShapeInv'
    BY <1>9, EndKeepsType DEF Abandon
  <2>2. QED
    BY <1>9, <2>1 DEF Abandon, TypeInv, TypeOK
<1>10. QED
  BY <1>1, <1>2, <1>3, <1>4, <1>5, <1>6, <1>7, <1>8, <1>9 DEF Handle

LEMMA TypeNext == TypeInv /\ [Next]_vars => TypeInv'
<1> SUFFICES ASSUME TypeInv, [Next]_vars PROVE TypeInv'
  OBVIOUS
<1>1. CASE UNCHANGED vars
  BY <1>1 DEF vars, TypeInv, TypeOK, ShapeInv, InProgress
<1>2. QED
  BY <1>1, WorldKeepsType, RequestKeepsType DEF Next
-----------------------------------------------------------------------------
\* Requests that have passed the check of the limit; of the duplicates.
MayInsert(i) == {r \in Requests : request[r].at \in {"counted", "checked"} /\ request[r].id = i}
MayRepeat(i, p) == {r \in MayInsert(i) : request[r].at = "checked" /\ request[r].player = p}

Planned(i, p) == {m \in PlannedFor(i) : m.player = p}

\* Who has passed a check may still insert, so they count as if they had.
CountInv ==
  \A i \in RowIds :
    /\ Cardinality(PlannedFor(i)) + Cardinality(MayInsert(i)) < MaxMoves + Cardinality(Requests)
    /\ \A p \in Players :
         Cardinality(Planned(i, p)) + Cardinality(MayRepeat(i, p)) <= Cardinality(Requests)

LEMMA Sizes ==
  ASSUME TypeInv, NEW i, NEW p
  PROVE  /\ IsFiniteSet(PlannedFor(i)) /\ Cardinality(PlannedFor(i)) \in Nat
         /\ IsFiniteSet(Planned(i, p)) /\ Cardinality(Planned(i, p)) \in Nat
         /\ IsFiniteSet(MayInsert(i)) /\ Cardinality(MayInsert(i)) \in Nat
         /\ IsFiniteSet(MayRepeat(i, p)) /\ Cardinality(MayRepeat(i, p)) \in Nat
         /\ Cardinality(Requests) \in Nat
<1>1. /\ PlannedFor(i) \subseteq moves /\ Planned(i, p) \subseteq moves
      /\ MayInsert(i) \subseteq Requests /\ MayRepeat(i, p) \subseteq Requests
  BY DEF PlannedFor, Planned, MayInsert, MayRepeat
<1>2. IsFiniteSet(moves) /\ IsFiniteSet(Requests)
  BY DEF TypeInv
<1>3. /\ IsFiniteSet(PlannedFor(i)) /\ IsFiniteSet(Planned(i, p))
      /\ IsFiniteSet(MayInsert(i)) /\ IsFiniteSet(MayRepeat(i, p))
  BY <1>1, <1>2, FS_Subset
<1>4. QED
  BY <1>2, <1>3, FS_CardinalityType

\* One who passes a check is one of the requests.
LEMMA OneMore ==
  ASSUME NEW S \in SUBSET Requests, NEW r \in Requests, r \notin S
  PROVE  /\ Cardinality(S \union {r}) = Cardinality(S) + 1
         /\ Cardinality(S) + 1 <= Cardinality(Requests)
<1>1. IsFiniteSet(S) /\ (S \union {r}) \in SUBSET Requests
  BY FS_Subset
<1>2. Cardinality(S \union {r}) = Cardinality(S) + 1
  BY <1>1, FS_AddElement
<1>3. Cardinality(S \union {r}) <= Cardinality(Requests)
  BY <1>1, FS_Subset
<1>4. QED
  BY <1>2, <1>3

\* A set that gains an element, or loses one.
LEMMA OneElement ==
  ASSUME NEW S, IsFiniteSet(S), NEW x
  PROVE  /\ Cardinality(S \union {x}) \in Nat /\ Cardinality(S \union {x}) <= Cardinality(S) + 1
         /\ x \in S => Cardinality(S \ {x}) = Cardinality(S) - 1
<1>1. Cardinality(S) \in Nat
  BY FS_CardinalityType
<1>2. Cardinality(S \union {x}) = IF x \in S THEN Cardinality(S) ELSE Cardinality(S) + 1
  BY FS_AddElement
<1>3. x \in S => Cardinality(S \ {x}) = Cardinality(S) - 1
  BY FS_RemoveElement
<1>4. QED
  BY <1>1, <1>2, <1>3

LEMMA CountInit == Init => CountInv
<1> SUFFICES ASSUME Init, NEW i \in RowIds, NEW p
             PROVE  /\ Cardinality(PlannedFor(i)) + Cardinality(MayInsert(i)) < MaxMoves + Cardinality(Requests)
                    /\ p \in Players =>
                         Cardinality(Planned(i, p)) + Cardinality(MayRepeat(i, p)) <= Cardinality(Requests)
  BY DEF CountInv
<1>1. PlannedFor(i) = {} /\ Planned(i, p) = {} /\ MayInsert(i) = {} /\ MayRepeat(i, p) = {}
  BY DEF Init, Idle, PlannedFor, Planned, MayInsert, MayRepeat
<1>2. Cardinality({}) = 0 /\ Cardinality(Requests) \in Nat
  BY FS_EmptySet, FS_CardinalityType
<1>3. QED
  BY <1>1, <1>2

\* Steps after which nobody else may insert and nothing else is planned.
LEMMA CountShrinks ==
  ASSUME TypeInv, TypeInv', CountInv, moves' \subseteq moves,
         \A r \in Requests : request'[r].at \in {"counted", "checked"} => request'[r] = request[r]
  PROVE  CountInv'
<1> SUFFICES ASSUME NEW i \in RowIds, NEW p
             PROVE  /\ Cardinality(PlannedFor(i)') + Cardinality(MayInsert(i)') < MaxMoves + Cardinality(Requests)
                    /\ p \in Players =>
                         Cardinality(Planned(i, p)') + Cardinality(MayRepeat(i, p)') <= Cardinality(Requests)
  BY DEF CountInv
<1>s. /\ IsFiniteSet(PlannedFor(i)) /\ Cardinality(PlannedFor(i)) \in Nat
      /\ IsFiniteSet(Planned(i, p)) /\ Cardinality(Planned(i, p)) \in Nat
      /\ IsFiniteSet(MayInsert(i)) /\ Cardinality(MayInsert(i)) \in Nat
      /\ IsFiniteSet(MayRepeat(i, p)) /\ Cardinality(MayRepeat(i, p)) \in Nat
      /\ Cardinality(Requests) \in Nat
  BY Sizes
<1>1. /\ PlannedFor(i)' \subseteq PlannedFor(i) /\ Planned(i, p)' \subseteq Planned(i, p)
  BY DEF PlannedFor, Planned
<1>2. /\ MayInsert(i)' \subseteq MayInsert(i) /\ MayRepeat(i, p)' \subseteq MayRepeat(i, p)
  BY DEF MayInsert, MayRepeat
<1>3. /\ Cardinality(PlannedFor(i)') <= Cardinality(PlannedFor(i))
      /\ Cardinality(Planned(i, p)') <= Cardinality(Planned(i, p))
      /\ Cardinality(MayInsert(i)') <= Cardinality(MayInsert(i))
      /\ Cardinality(MayRepeat(i, p)') <= Cardinality(MayRepeat(i, p))
  BY <1>1, <1>2, <1>s, FS_Subset
<1>4. /\ Cardinality(PlannedFor(i)') \in Nat /\ Cardinality(Planned(i, p)') \in Nat
      /\ Cardinality(MayInsert(i)') \in Nat /\ Cardinality(MayRepeat(i, p)') \in Nat
  BY <1>1, <1>2, <1>s, FS_Subset, FS_CardinalityType
<1>5. /\ Cardinality(PlannedFor(i)) + Cardinality(MayInsert(i)) < MaxMoves + Cardinality(Requests)
      /\ p \in Players =>
                         Cardinality(Planned(i, p)) + Cardinality(MayRepeat(i, p)) <= Cardinality(Requests)
  BY DEF CountInv
<1>6. QED
  BY <1>3, <1>4, <1>5, <1>s

\* Below the limit there is room for everybody who may insert, one more included.
LEMMA CountPasses ==
  ASSUME TypeInv, TypeInv', CountInv, NEW r \in Requests, CountMoves(r),
         ~AtLimit(request[r].id)
  PROVE  CountInv'
<1>1. /\ moves' = moves /\ request[r].at = "loaded"
      /\ request'[r] = [request[r] EXCEPT !.at = "counted"]
      /\ \A q \in Requests : q # r => request'[q] = request[q]
  BY DEF CountMoves, Go, TypeInv, TypeOK
<1>2. request'[r].at = "counted" /\ request'[r].id = request[r].id
  BY <1>1 DEF TypeInv, TypeOK, Request
<1> SUFFICES ASSUME NEW i \in RowIds, NEW p
             PROVE  /\ Cardinality(PlannedFor(i)') + Cardinality(MayInsert(i)') < MaxMoves + Cardinality(Requests)
                    /\ p \in Players =>
                         Cardinality(Planned(i, p)') + Cardinality(MayRepeat(i, p)') <= Cardinality(Requests)
  BY DEF CountInv
<1>s. /\ IsFiniteSet(PlannedFor(i)) /\ Cardinality(PlannedFor(i)) \in Nat
      /\ IsFiniteSet(Planned(i, p)) /\ Cardinality(Planned(i, p)) \in Nat
      /\ IsFiniteSet(MayInsert(i)) /\ Cardinality(MayInsert(i)) \in Nat
      /\ IsFiniteSet(MayRepeat(i, p)) /\ Cardinality(MayRepeat(i, p)) \in Nat
      /\ Cardinality(Requests) \in Nat
  BY Sizes
<1>3. PlannedFor(i)' = PlannedFor(i) /\ Planned(i, p)' = Planned(i, p)
  BY <1>1 DEF PlannedFor, Planned
<1>4. MayRepeat(i, p)' = MayRepeat(i, p)
  BY <1>1, <1>2 DEF MayRepeat, MayInsert
<1>5. CASE i = request[r].id
  <2>1. MayInsert(i)' = MayInsert(i) \union {r} /\ r \notin MayInsert(i)
    BY <1>1, <1>2, <1>5 DEF MayInsert
  <2>2. MayInsert(i) \in SUBSET Requests
    BY DEF MayInsert
  <2>3. Cardinality(MayInsert(i)') <= Cardinality(Requests) /\ Cardinality(MayInsert(i)') \in Nat
    BY <1>s, <2>1, <2>2, OneMore
  <2>4. Cardinality(PlannedFor(i)) < MaxMoves
    BY <1>s, <1>5, RequestAssumption DEF AtLimit
  <2>5. QED
    BY <1>s, <1>3, <1>4, <2>3, <2>4, RequestAssumption DEF CountInv
<1>6. CASE i # request[r].id
  <2>1. MayInsert(i)' = MayInsert(i)
    BY <1>1, <1>2, <1>6 DEF MayInsert
  <2>2. QED
    BY <1>3, <1>4, <2>1 DEF CountInv
<1>7. QED
  BY <1>5, <1>6

\* Where nothing is planned for a player, the same is true of repetitions.
LEMMA CheckPasses ==
  ASSUME TypeInv, TypeInv', CountInv, NEW r \in Requests, CheckPlanned(r),
         ~\E m \in PlannedFor(request[r].id) : m.player = request[r].player
  PROVE  CountInv'
<1>1. /\ moves' = moves /\ request[r].at = "counted"
      /\ request'[r] = [request[r] EXCEPT !.at = "checked"]
      /\ \A q \in Requests : q # r => request'[q] = request[q]
  BY DEF CheckPlanned, Go, TypeInv, TypeOK
<1>2. /\ request'[r].at = "checked" /\ request'[r].id = request[r].id
      /\ request'[r].player = request[r].player
  BY <1>1 DEF TypeInv, TypeOK, Request
<1> SUFFICES ASSUME NEW i \in RowIds, NEW p
             PROVE  /\ Cardinality(PlannedFor(i)') + Cardinality(MayInsert(i)') < MaxMoves + Cardinality(Requests)
                    /\ p \in Players =>
                         Cardinality(Planned(i, p)') + Cardinality(MayRepeat(i, p)') <= Cardinality(Requests)
  BY DEF CountInv
<1>s. /\ IsFiniteSet(PlannedFor(i)) /\ Cardinality(PlannedFor(i)) \in Nat
      /\ IsFiniteSet(Planned(i, p)) /\ Cardinality(Planned(i, p)) \in Nat
      /\ IsFiniteSet(MayInsert(i)) /\ Cardinality(MayInsert(i)) \in Nat
      /\ IsFiniteSet(MayRepeat(i, p)) /\ Cardinality(MayRepeat(i, p)) \in Nat
      /\ Cardinality(Requests) \in Nat
  BY Sizes
<1>3. PlannedFor(i)' = PlannedFor(i) /\ Planned(i, p)' = Planned(i, p)
  BY <1>1 DEF PlannedFor, Planned
<1>4. MayInsert(i)' = MayInsert(i)
  BY <1>1, <1>2 DEF MayInsert
<1>5. CASE i = request[r].id /\ p = request[r].player
  <2>1. MayRepeat(i, p)' = MayRepeat(i, p) \union {r} /\ r \notin MayRepeat(i, p)
    BY <1>1, <1>2, <1>5 DEF MayRepeat, MayInsert
  <2>2. MayRepeat(i, p) \in SUBSET Requests
    BY DEF MayRepeat, MayInsert
  <2>3. Cardinality(MayRepeat(i, p)') <= Cardinality(Requests) /\ Cardinality(MayRepeat(i, p)') \in Nat
    BY <1>s, <2>1, <2>2, OneMore
  <2>4. Planned(i, p) = {}
    BY <1>5 DEF Planned
  <2>5. Cardinality(Planned(i, p)) = 0
    BY <2>4, FS_EmptySet
  <2>6. QED
    BY <1>s, <1>3, <1>4, <2>3, <2>5 DEF CountInv
<1>6. CASE ~(i = request[r].id /\ p = request[r].player)
  <2>1. MayRepeat(i, p)' = MayRepeat(i, p)
    BY <1>1, <1>2, <1>6 DEF MayRepeat, MayInsert
  <2>2. QED
    BY <1>3, <1>4, <2>1 DEF CountInv
<1>7. QED
  BY <1>5, <1>6

\* An insertion takes the place that was counted for it.
LEMMA InsertCounts ==
  ASSUME TypeInv, TypeInv', CountInv, NEW r \in Requests, NEW k \in 1 .. MaxId, InsertMove(r, k)
  PROVE  CountInv'
<1> DEFINE new == [id |-> k, league |-> request[r].id, born |-> request[r].born,
                   player |-> request[r].player]
<1>1. /\ moves' = moves \union {new} /\ request[r].at = "checked"
      /\ request'[r].at = "idle"
      /\ \A q \in Requests : q # r => request'[q] = request[q]
  BY DEF InsertMove, End, Idle, TypeInv, TypeOK
<1>2. new.league = request[r].id /\ new.player = request[r].player
  OBVIOUS
<1> HIDE DEF new
<1> SUFFICES ASSUME NEW i \in RowIds, NEW p
             PROVE  /\ Cardinality(PlannedFor(i)') + Cardinality(MayInsert(i)') < MaxMoves + Cardinality(Requests)
                    /\ p \in Players =>
                         Cardinality(Planned(i, p)') + Cardinality(MayRepeat(i, p)') <= Cardinality(Requests)
  BY DEF CountInv
<1>s. /\ IsFiniteSet(PlannedFor(i)) /\ Cardinality(PlannedFor(i)) \in Nat
      /\ IsFiniteSet(Planned(i, p)) /\ Cardinality(Planned(i, p)) \in Nat
      /\ IsFiniteSet(MayInsert(i)) /\ Cardinality(MayInsert(i)) \in Nat
      /\ IsFiniteSet(MayRepeat(i, p)) /\ Cardinality(MayRepeat(i, p)) \in Nat
      /\ Cardinality(Requests) \in Nat
  BY Sizes
<1>3. /\ Cardinality(PlannedFor(i)) + Cardinality(MayInsert(i)) < MaxMoves + Cardinality(Requests)
      /\ p \in Players =>
                         Cardinality(Planned(i, p)) + Cardinality(MayRepeat(i, p)) <= Cardinality(Requests)
  BY DEF CountInv
<1>4. /\ MayInsert(i)' = MayInsert(i) \ {r} /\ MayRepeat(i, p)' = MayRepeat(i, p) \ {r}
  BY <1>1 DEF MayInsert, MayRepeat
<1>5. Cardinality(PlannedFor(i)') + Cardinality(MayInsert(i)') <= Cardinality(PlannedFor(i)) + Cardinality(MayInsert(i))
  <2>1. CASE i = request[r].id
    <3>1. PlannedFor(i)' = PlannedFor(i) \union {new} /\ r \in MayInsert(i)
      BY <1>1, <1>2, <2>1 DEF PlannedFor, MayInsert
    <3>2. /\ Cardinality(PlannedFor(i)') <= Cardinality(PlannedFor(i)) + 1
          /\ Cardinality(PlannedFor(i)') \in Nat
      BY <3>1, <1>s, OneElement
    <3>3. Cardinality(MayInsert(i)') = Cardinality(MayInsert(i)) - 1
      BY <1>4, <3>1, <1>s, OneElement
    <3>4. QED
      BY <3>2, <3>3, <1>s
  <2>2. CASE i # request[r].id
    <3>1. PlannedFor(i)' = PlannedFor(i) /\ MayInsert(i)' = MayInsert(i)
      BY <1>1, <1>2, <1>4, <2>2 DEF PlannedFor, MayInsert
    <3>2. QED
      BY <3>1, <1>s
  <2>3. QED
    BY <2>1, <2>2
<1>6. Cardinality(Planned(i, p)') + Cardinality(MayRepeat(i, p)') <= Cardinality(Planned(i, p)) + Cardinality(MayRepeat(i, p))
  <2>1. CASE i = request[r].id /\ p = request[r].player
    <3>1. Planned(i, p)' = Planned(i, p) \union {new} /\ r \in MayRepeat(i, p)
      BY <1>1, <1>2, <2>1 DEF Planned, PlannedFor, MayRepeat, MayInsert
    <3>2. /\ Cardinality(Planned(i, p)') <= Cardinality(Planned(i, p)) + 1
          /\ Cardinality(Planned(i, p)') \in Nat
      BY <3>1, <1>s, OneElement
    <3>3. Cardinality(MayRepeat(i, p)') = Cardinality(MayRepeat(i, p)) - 1
      BY <1>4, <3>1, <1>s, OneElement
    <3>4. QED
      BY <3>2, <3>3, <1>s
  <2>2. CASE ~(i = request[r].id /\ p = request[r].player)
    <3>1. Planned(i, p)' = Planned(i, p) /\ MayRepeat(i, p)' = MayRepeat(i, p)
      BY <1>1, <1>2, <1>4, <2>2 DEF Planned, PlannedFor, MayRepeat, MayInsert
    <3>2. QED
      BY <3>1, <1>s
  <2>3. QED
    BY <2>1, <2>2
<1>7. /\ Cardinality(PlannedFor(i)') \in Nat /\ Cardinality(MayInsert(i)') \in Nat
      /\ Cardinality(Planned(i, p)') \in Nat /\ Cardinality(MayRepeat(i, p)') \in Nat
  <2>1. /\ PlannedFor(i)' \subseteq moves' /\ Planned(i, p)' \subseteq moves'
        /\ MayInsert(i)' \subseteq Requests /\ MayRepeat(i, p)' \subseteq Requests
    BY DEF PlannedFor, Planned, MayInsert, MayRepeat
  <2>2. IsFiniteSet(moves') /\ IsFiniteSet(Requests)
    BY DEF TypeInv
  <2>3. QED
    BY <2>1, <2>2, FS_Subset, FS_CardinalityType
<1>8. QED
  BY <1>3, <1>5, <1>6, <1>7, <1>s

LEMMA CountNext ==
  ASSUME TypeInv, TypeInv', CountInv, [Next]_vars
  PROVE  CountInv'
<1>1. CASE UNCHANGED vars \/ WeekAdvances \/ (\E i \in RowIds : Sync(i)) \/ (\E t \in Teams : SetMyTeam(t))
  <2>1. moves' = moves /\ request' = request
    BY <1>1 DEF vars, WeekAdvances, Sync, SetMyTeam
  <2>2. QED
    BY <2>1, CountShrinks
<1>2. ASSUME NEW r \in Requests, Handle(r), ~CountMoves(r), ~CheckPlanned(r),
             ~\E k \in 1 .. MaxId : InsertMove(r, k)
      PROVE  CountInv'
  <2>1. moves' \subseteq moves
    BY <1>2 DEF Handle, LoadLeague, FindMove, RemoveMove, DropLeague, Cascaded, Without,
                FetchWeeks, StoreWeeks, Abandon
  <2>2. \A q \in Requests : q # r => request'[q] = request[q]
    BY <1>2 DEF Handle, LoadLeague, FindMove, RemoveMove, DropLeague, FetchWeeks, StoreWeeks,
                Abandon, End, TypeInv, TypeOK
  <2>3. request'[r].at \notin {"counted", "checked"}
    <3>1. CASE End(r)
      BY <3>1 DEF End, Idle, TypeInv, TypeOK
    <3>2. ASSUME NEW kind, NEW player, LoadLeague(r, kind, player) PROVE request'[r].at = "loaded"
      BY <3>2 DEF LoadLeague, TypeInv, TypeOK
    <3>3. ASSUME NEW m, FindMove(r, m) PROVE request'[r].at = "found"
      BY <3>3 DEF FindMove, TypeInv, TypeOK, Request
    <3>4. ASSUME NEW served, FetchWeeks(r, served), ~End(r) PROVE request'[r].at = "fetched"
      BY <3>4 DEF FetchWeeks, TypeInv, TypeOK, Request
    <3>5. QED
      BY <1>2, <3>1, <3>2, <3>3, <3>4 DEF Handle, RemoveMove, DropLeague, StoreWeeks, Abandon
  <2>4. QED
    BY <2>1, <2>2, <2>3, CountShrinks
<1>3. ASSUME NEW r \in Requests, CountMoves(r) \/ CheckPlanned(r), End(r) PROVE CountInv'
  <2>1. moves' = moves
    BY <1>3 DEF CountMoves, CheckPlanned
  <2>2. /\ request'[r].at = "idle"
        /\ \A q \in Requests : q # r => request'[q] = request[q]
    BY <1>3 DEF End, Idle, TypeInv, TypeOK
  <2>3. QED
    BY <2>1, <2>2, CountShrinks
<1>4. ASSUME NEW r \in Requests, CountMoves(r) \/ CheckPlanned(r), ~End(r) PROVE CountInv'
  BY <1>4, CountPasses, CheckPasses DEF CountMoves, CheckPlanned
<1>5. ASSUME NEW r \in Requests, Handle(r) PROVE CountInv'
  BY <1>2, <1>3, <1>4, <1>5, InsertCounts
<1>6. QED
  BY <1>1, <1>5 DEF Next
-----------------------------------------------------------------------------
\* No sequence of requests leaves the types.
THEOREM TypeCorrect == Spec => []TypeOK
<1>1. TypeInv => TypeOK
  BY DEF TypeInv
<1>2. QED
  BY <1>1, TypeInit, TypeNext, PTL DEF Spec

\* Who may insert counts for at least nothing.
LEMMA CountImplies == TypeInv /\ CountInv => MovesStayBounded
<1> SUFFICES ASSUME TypeInv, CountInv, NEW id \in RowIds, NEW p
             PROVE  /\ Cardinality(PlannedFor(id)) < MaxMoves + Cardinality(Requests)
                    /\ p \in Players => Cardinality(Planned(id, p)) <= Cardinality(Requests)
  BY DEF MovesStayBounded, Planned
<1>1. /\ Cardinality(PlannedFor(id)) \in Nat /\ Cardinality(MayInsert(id)) \in Nat
      /\ Cardinality(Planned(id, p)) \in Nat /\ Cardinality(MayRepeat(id, p)) \in Nat
      /\ Cardinality(Requests) \in Nat
  BY Sizes
<1>2. QED
  BY <1>1 DEF CountInv

\* The limit on planned moves, of main.py: however requests overlap and for
\* however long, there are fewer moves than the limit and the requests at once,
\* and no player is planned for more often than there are requests at once.
THEOREM MovesBounded == Spec => []MovesStayBounded
<1>1. Init => TypeInv /\ CountInv
  BY TypeInit, CountInit
<1>2. TypeInv /\ CountInv /\ [Next]_vars => TypeInv' /\ CountInv'
  BY TypeNext, CountNext
<1>3. QED
  BY <1>1, <1>2, CountImplies, PTL DEF Spec
-----------------------------------------------------------------------------
\* Requests that read a row, wait and write it back lose nothing of it while no
\* other of their kind overlaps, and a league that is not deleted under a request
\* is shown what is its own.

Report(r) == InProgress(r) /\ request[r].kind = "report"

\* A deletion runs alone, and so does a report among reports, or the history
\* tells.
AloneInv ==
  \A q, r \in Requests :
    q # r /\ InProgress(q) /\ InProgress(r) =>
      /\ ~crossed => "drop" \notin {request[q].kind, request[r].kind}
      /\ ~reported => {request[q].kind, request[r].kind} # {"report"}
-----------------------------------------------------------------------------
\* What a step does to a request that is in progress after it.
LEMMA ProgressSteps ==
  ASSUME TypeInv, [Next]_vars, NEW q \in Requests, InProgress(q)'
  PROVE  \/ /\ InProgress(q)
            /\ request'[q].kind = request[q].kind
            /\ request'[q].id = request[q].id /\ request'[q].born = request[q].born
            /\ request[q].kind = "drop" => request'[q].seen = request[q].seen
            /\ \/ request'[q].mine = request[q].mine
               \/ \E served \in SUBSET Weeks : served # {} /\ FetchWeeks(q, served)
         \/ \E kind \in Kinds, player \in Maybe(Players) : LoadLeague(q, kind, player)
<1>1. CASE request'[q] = request[q]
  BY <1>1 DEF InProgress
<1>2. CASE request'[q] # request[q]
  <2>1. PICK r \in Requests : Handle(r)
    BY <1>2 DEF Next, vars, WeekAdvances, Sync, SetMyTeam
  <2>2. r = q
    BY <1>2, <2>1 DEF Handle, LoadLeague, CountMoves, CheckPlanned, InsertMove, FindMove, RemoveMove,
                      DropLeague, FetchWeeks, StoreWeeks, Abandon, End, Go, TypeInv, TypeOK
  <2>3. ~End(q)
    BY DEF End, InProgress, Idle, TypeInv, TypeOK
  <2>4. request[q] \in Request
    BY DEF TypeInv, TypeOK
  <2>5. CASE CountMoves(q) \/ CheckPlanned(q)
    BY <2>3, <2>4, <2>5 DEF CountMoves, CheckPlanned, Go, InProgress, TypeInv, TypeOK, Request
  <2>6. ASSUME NEW m, FindMove(q, m)
        PROVE  /\ InProgress(q) /\ request[q].kind = "remove"
               /\ request'[q].kind = request[q].kind
               /\ request'[q].id = request[q].id /\ request'[q].born = request[q].born
               /\ request'[q].mine = request[q].mine
    BY <2>4, <2>6 DEF FindMove, InProgress, TypeInv, TypeOK, Request
  <2>7. ASSUME NEW served \in SUBSET Weeks, FetchWeeks(q, served)
        PROVE  /\ InProgress(q) /\ request[q].kind = "report" /\ served # {}
               /\ request'[q].kind = request[q].kind
               /\ request'[q].id = request[q].id /\ request'[q].born = request[q].born
    <3>1. InProgress(q) /\ request[q].kind = "report" /\ served # {}
      BY <2>3, <2>7 DEF FetchWeeks, InProgress
    <3>2. request' = [request EXCEPT ![q].at = "fetched",
                        ![q].mine = [request[q].mine EXCEPT
                                       !.cache[request[q].mine.myTeam] = Scored(request[q].mine, served)]]
      BY <2>7, <3>1 DEF FetchWeeks
    <3>3. QED
      BY <2>4, <3>1, <3>2 DEF TypeInv, TypeOK, Request
  <2>8. QED
    BY <2>1, <2>2, <2>3, <2>5, <2>6, <2>7 DEF Handle, InsertMove, RemoveMove, DropLeague, StoreWeeks, Abandon
<1>3. QED
  BY <1>1, <1>2

\* What a step does to the row of the league.
LEMMA LeagueSteps ==
  ASSUME TypeInv, [Next]_vars
  PROVE  \/ league' = league
         \/ /\ league # None /\ league' = None
            /\ \E r \in Requests : DropLeague(r) /\ league.id = request[r].id
         \/ /\ league = None /\ league' # None /\ moves' = moves
            /\ \A t \in Teams, w \in Weeks : league'.cache[t][w] = None
         \/ /\ league # None /\ league' # None /\ moves' = moves
            /\ league'.id = league.id /\ league'.born = league.born
            /\ league'.cache = league.cache
         \/ /\ league # None /\ league' # None /\ moves' = moves
            /\ league'.id = league.id /\ league'.born = league.born
            /\ \E r \in Requests : StoreWeeks(r) /\ league'.cache = request[r].mine.cache
<1>1. league # None => league \in League
  BY DEF TypeInv, TypeOK
<1>2. TypeInv'
  BY TypeNext
<1>3. league' # None => league' \in League
  BY <1>2 DEF TypeInv, TypeOK
<1>4. ASSUME NEW i \in RowIds, Sync(i), league = None
      PROVE  /\ league' # None /\ moves' = moves
             /\ \A t \in Teams, w \in Weeks : league'.cache[t][w] = None
  <2>1. league' = [id |-> i, born |-> births + 1, week |-> espnWeek, myTeam |-> None,
                   cache |-> [t \in Teams |-> [w \in Weeks |-> None]]]
    BY <1>4 DEF Sync
  <2>2. births + 1 \in Nat /\ espnWeek \in Weeks
    BY DEF TypeInv, TypeOK
  <2>3. [t \in Teams |-> [w \in Weeks |-> None]] \in Cache
    BY DEF Cache
  <2>4. league' \in League
    BY <2>1, <2>2, <2>3 DEF League
  <2>5. QED
    BY <1>4, <2>1, <2>4 DEF Sync
<1>5. ASSUME NEW i \in RowIds, Sync(i), league # None
      PROVE  /\ league' # None /\ moves' = moves /\ league'.id = league.id
             /\ league'.born = league.born /\ league'.cache = league.cache
  BY <1>1, <1>5 DEF Sync, League, TypeInv, TypeOK
<1>6. ASSUME NEW t \in Teams, SetMyTeam(t)
      PROVE  /\ league # None /\ league' # None /\ moves' = moves /\ league'.id = league.id
             /\ league'.born = league.born /\ league'.cache = league.cache
  BY <1>1, <1>6 DEF SetMyTeam, League, TypeInv, TypeOK
<1>7. ASSUME NEW r \in Requests, StoreWeeks(r), league' # league
      PROVE  /\ league # None /\ league' # None /\ moves' = moves /\ league'.id = league.id
             /\ league'.born = league.born /\ league'.cache = request[r].mine.cache
  <2>1. request[r].mine.cache \in Cache
    BY <1>7 DEF StoreWeeks, TypeInv, ShapeInv, InProgress, League
  <2>2. league \in League /\ league' = [league EXCEPT !.cache = request[r].mine.cache]
    BY <1>1, <1>7 DEF StoreWeeks, WholeCache
  <2>3. league' \in League /\ league'.id = league.id /\ league'.born = league.born
        /\ league'.cache = request[r].mine.cache
    BY <2>1, <2>2 DEF League
  <2>4. QED
    BY <1>7, <2>2, <2>3 DEF StoreWeeks
<1>8. ASSUME NEW r \in Requests, Handle(r), ~StoreWeeks(r), ~DropLeague(r) PROVE league' = league
  BY <1>8 DEF Handle, LoadLeague, CountMoves, CheckPlanned, InsertMove, FindMove, RemoveMove,
              FetchWeeks, Abandon
<1>9. ASSUME NEW r \in Requests, DropLeague(r), league' # league
      PROVE  league # None /\ league' = None /\ league.id = request[r].id
  BY <1>9 DEF DropLeague
<1>10. QED
  BY <1>4, <1>5, <1>6, <1>7, <1>8, <1>9 DEF Next, vars, WeekAdvances
-----------------------------------------------------------------------------
\* What a step does to the moves.
LEMMA MoveSteps ==
  ASSUME [Next]_vars
  PROVE  \/ moves' \subseteq moves
         \/ \E r \in Requests : \E i \in 1 .. MaxId : InsertMove(r, i)
BY DEF Next, vars, WeekAdvances, Sync, SetMyTeam, Handle, LoadLeague, CountMoves, CheckPlanned,
       FindMove, RemoveMove, DropLeague, Cascaded, Without, FetchWeeks, StoreWeeks, Abandon

\* Histories are not forgotten, and weeks go on.
LEMMA HistorySteps ==
  ASSUME TypeInv, [Next]_vars
  PROVE  /\ (crossed => crossed') /\ (reported => reported')
         /\ espnWeek \in Nat /\ espnWeek' \in Nat /\ espnWeek <= espnWeek'
<1>1. espnWeek \in Nat
  BY DEF TypeInv, TypeOK, Weeks
<1>2. espnWeek' = espnWeek \/ espnWeek' = espnWeek + 1
  BY DEF Next, vars, WeekAdvances, Sync, SetMyTeam, Handle, LoadLeague, CountMoves, CheckPlanned,
         InsertMove, FindMove, RemoveMove, DropLeague, FetchWeeks, StoreWeeks, Abandon
<1>3. (crossed => crossed') /\ (reported => reported')
  <2>1. CASE \E r \in Requests, kind \in Kinds, player \in Maybe(Players) : LoadLeague(r, kind, player)
    BY <2>1 DEF LoadLeague
  <2>2. CASE UNCHANGED <<crossed, reported>>
    BY <2>2
  <2>3. QED
    BY <2>1, <2>2 DEF Next, vars, WeekAdvances, Sync, SetMyTeam, Handle, CountMoves, CheckPlanned,
                      InsertMove, FindMove, RemoveMove, DropLeague, FetchWeeks, StoreWeeks, Abandon
<1>4. QED
  BY <1>1, <1>2, <1>3

LEMMA LoadedWith ==
  ASSUME TypeInv, NEW r \in Requests, NEW kind \in Kinds, NEW player \in Maybe(Players),
         LoadLeague(r, kind, player)
  PROVE  /\ ~InProgress(r) /\ league # None /\ league' = league /\ moves' = moves
         /\ request'[r].kind = kind /\ request'[r].id = league.id /\ request'[r].born = league.born
         /\ kind = "report" => request'[r].mine = league
         /\ kind = "drop" => request'[r].seen = PlannedFor(league.id)
         /\ \A q \in Requests : q # r => request'[q] = request[q]
BY DEF LoadLeague, TypeInv, TypeOK

LEMMA AloneNext == TypeInv /\ AloneInv /\ [Next]_vars => AloneInv'
<1> SUFFICES ASSUME TypeInv, AloneInv, [Next]_vars, NEW q \in Requests, NEW r \in Requests,
                    q # r, InProgress(q)', InProgress(r)'
             PROVE  /\ ~crossed' => "drop" \notin {request'[q].kind, request'[r].kind}
                    /\ ~reported' => {request'[q].kind, request'[r].kind} # {"report"}
  BY DEF AloneInv
<1>1. ASSUME NEW a \in Requests, NEW b \in Requests, a # b, InProgress(b)',
             NEW kind \in Kinds, NEW player \in Maybe(Players), LoadLeague(a, kind, player)
      PROVE  /\ ~crossed' => "drop" \notin {request'[a].kind, request'[b].kind}
             /\ ~reported' => {request'[a].kind, request'[b].kind} # {"report"}
  <2>1. request'[b] = request[b] /\ request'[a].kind = kind
    BY <1>1, LoadedWith
  <2>2. InProgress(b)
    BY <1>1, <2>1 DEF InProgress
  <2>3. "drop" \in {kind, request[b].kind} => crossed'
    BY <1>1, <2>2 DEF LoadLeague
  <2>4. {kind, request[b].kind} = {"report"} => reported'
    BY <1>1, <2>2 DEF LoadLeague
  <2>5. QED
    BY <2>1, <2>3, <2>4
<1>2. CASE /\ InProgress(q) /\ request'[q].kind = request[q].kind
           /\ InProgress(r) /\ request'[r].kind = request[r].kind
  BY <1>2, HistorySteps DEF AloneInv
<1>3. QED
  BY <1>1, <1>2, ProgressSteps
-----------------------------------------------------------------------------
\* Final is what was scored once its week was over.
Over(cache) ==
  \A t \in Teams, w \in Weeks : cache[t][w] # None /\ cache[t][w].final => w < espnWeek

OverInv ==
  /\ league # None => Over(league.cache)
  /\ \A r \in Requests : Report(r) => Over(request[r].mine.cache)

\* Nothing of the old scores is missing from the new, and what is final stays so.
Keeps(old, new) ==
  \A t \in Teams, w \in Weeks :
    old[t][w] # None => new[t][w] # None /\ (old[t][w].final => new[t][w].final)

\* What a report has fetched includes what has been stored since it began.
KeepInv ==
  ~reported /\ ~crossed =>
    \A r \in Requests :
      Report(r) => /\ league # None /\ request[r].id = league.id
                   /\ Keeps(league.cache, request[r].mine.cache)

\* The scores of a report after it has fetched weeks.
LEMMA FetchedCache ==
  ASSUME TypeInv, NEW r \in Requests, NEW served \in SUBSET Weeks, served # {}, FetchWeeks(r, served)
  PROVE  /\ Report(r) /\ league' = league /\ espnWeek' = espnWeek
         /\ request'[r].id = request[r].id /\ request'[r].mine.born = request[r].mine.born
         /\ \A t \in Teams, w \in Weeks :
              \/ /\ request'[r].mine.cache[t][w] # None
                 /\ request'[r].mine.cache[t][w].of = request[r].mine.born
                 /\ request'[r].mine.cache[t][w].final <=> w < espnWeek
              \/ request'[r].mine.cache[t][w] = request[r].mine.cache[t][w]
<1>1. PICK row \in League, q \in Request :
        /\ row.born = request[r].mine.born
        /\ \A t \in Teams, w \in Weeks :
             \/ /\ row.cache[t][w] # None /\ row.cache[t][w].of = row.born
                /\ row.cache[t][w].final <=> w < espnWeek
             \/ row.cache[t][w] = request[r].mine.cache[t][w]
        /\ q.mine = row /\ q.id = request[r].id
        /\ request' = [request EXCEPT ![r] = q]
  BY Entered
<1>2. request'[r] = q
  BY <1>1 DEF TypeInv, TypeOK
<1>3. Report(r) /\ league' = league /\ espnWeek' = espnWeek
  BY DEF FetchWeeks, Report, InProgress
<1>4. QED
  BY <1>1, <1>2, <1>3

LEMMA OverNext == TypeInv /\ OverInv /\ [Next]_vars => OverInv'
<1> SUFFICES ASSUME TypeInv, OverInv, [Next]_vars PROVE OverInv'
  OBVIOUS
<1>1. espnWeek \in Nat /\ espnWeek' \in Nat /\ espnWeek <= espnWeek'
  BY HistorySteps
<1>2. ASSUME NEW cache, Over(cache)
      PROVE  \A t \in Teams, w \in Weeks : cache[t][w] # None /\ cache[t][w].final => w < espnWeek'
  BY <1>1, <1>2 DEF Over, Weeks
<1>3. ASSUME league' # None
      PROVE  \A t \in Teams, w \in Weeks :
               league'.cache[t][w] # None /\ league'.cache[t][w].final => w < espnWeek'
  <2>1. CASE league # None /\ league'.cache = league.cache
    BY <1>2, <2>1 DEF OverInv
  <2>2. CASE \A t \in Teams, w \in Weeks : league'.cache[t][w] = None
    BY <2>2
  <2>3. ASSUME NEW r \in Requests, StoreWeeks(r), league'.cache = request[r].mine.cache
        PROVE  \A t \in Teams, w \in Weeks :
                 league'.cache[t][w] # None /\ league'.cache[t][w].final => w < espnWeek'
    <3>1. Report(r)
      BY <2>3 DEF StoreWeeks, Report, InProgress, TypeInv, ShapeInv
    <3>2. QED
      BY <1>2, <2>3, <3>1 DEF OverInv
  <2>4. QED
    BY <1>3, <2>1, <2>2, <2>3, LeagueSteps
<1>4. ASSUME NEW q \in Requests, Report(q)'
      PROVE  \A t \in Teams, w \in Weeks :
               request'[q].mine.cache[t][w] # None /\ request'[q].mine.cache[t][w].final => w < espnWeek'
  <2>1. InProgress(q)' /\ request'[q].kind = "report"
    BY <1>4 DEF Report
  <2>2. CASE InProgress(q) /\ request'[q].kind = request[q].kind /\ request'[q].mine = request[q].mine
    BY <1>2, <2>1, <2>2 DEF OverInv, Report
  <2>3. ASSUME NEW served \in SUBSET Weeks, served # {}, FetchWeeks(q, served)
        PROVE  \A t \in Teams, w \in Weeks :
                 request'[q].mine.cache[t][w] # None /\ request'[q].mine.cache[t][w].final => w < espnWeek'
    <3>1. Over(request[q].mine.cache)
      BY <2>3, FetchedCache DEF OverInv
    <3>2. ASSUME NEW t \in Teams, NEW w \in Weeks, request'[q].mine.cache[t][w] # None,
                 request'[q].mine.cache[t][w].final
          PROVE  w < espnWeek'
      <4>1. CASE request'[q].mine.cache[t][w] = request[q].mine.cache[t][w]
        BY <1>2, <3>1, <3>2, <4>1
      <4>2. CASE w < espnWeek
        BY <1>1, <4>2 DEF Weeks
      <4>3. QED
        BY <2>3, <3>2, <4>1, <4>2, FetchedCache, Zenon
    <3>3. QED
      BY <3>2
  <2>4. ASSUME NEW kind \in Kinds, NEW player \in Maybe(Players), LoadLeague(q, kind, player)
        PROVE  \A t \in Teams, w \in Weeks :
                 request'[q].mine.cache[t][w] # None /\ request'[q].mine.cache[t][w].final => w < espnWeek'
    <3>1. league # None /\ request'[q].mine = league
      BY <2>1, <2>4, LoadedWith
    <3>2. QED
      BY <1>2, <3>1 DEF OverInv
  <2>5. QED
    BY <2>1, <2>2, <2>3, <2>4, ProgressSteps
<1>5. QED
  BY <1>3, <1>4 DEF OverInv, Over

LEMMA KeepNext == TypeInv /\ AloneInv /\ OverInv /\ KeepInv /\ [Next]_vars => KeepInv'
<1> SUFFICES ASSUME TypeInv, AloneInv, OverInv, KeepInv, [Next]_vars, ~reported', ~crossed',
                    NEW q \in Requests, Report(q)'
             PROVE  /\ league' # None /\ request'[q].id = league'.id
                    /\ Keeps(league'.cache, request'[q].mine.cache)
  BY DEF KeepInv, Keeps
<1>1. ~reported /\ ~crossed /\ AloneInv'
  BY HistorySteps, AloneNext
<1>2. InProgress(q)' /\ request'[q].kind = "report"
  BY DEF Report
<1>3. CASE Report(q) /\ request'[q].id = request[q].id /\ request'[q].mine = request[q].mine
  <2>1. league # None /\ request[q].id = league.id /\ Keeps(league.cache, request[q].mine.cache)
    BY <1>1, <1>3 DEF KeepInv
  <2>2. ASSUME NEW r \in Requests, DropLeague(r) PROVE FALSE
    <3>1. InProgress(r) /\ request[r].kind = "drop"
      BY <2>2 DEF DropLeague, InProgress
    <3>2. QED
      BY <1>1, <1>3, <3>1 DEF AloneInv, Report
  <2>3. ASSUME NEW r \in Requests, StoreWeeks(r) PROVE FALSE
    <3>1. Report(r)
      BY <2>3 DEF StoreWeeks, Report, InProgress, TypeInv, ShapeInv
    <3>2. r # q
      BY <1>2, <2>3 DEF StoreWeeks, End, Idle, InProgress, TypeInv, TypeOK
    <3>3. QED
      BY <1>1, <1>3, <3>1, <3>2 DEF AloneInv, Report
  <2>4. QED
    BY <1>3, <2>1, <2>2, <2>3, LeagueSteps
<1>4. ASSUME NEW served \in SUBSET Weeks, served # {}, FetchWeeks(q, served)
      PROVE  /\ league' # None /\ request'[q].id = league'.id
             /\ Keeps(league'.cache, request'[q].mine.cache)
  <2>1. league # None /\ request[q].id = league.id /\ Keeps(league.cache, request[q].mine.cache)
    BY <1>1, <1>4, FetchedCache DEF KeepInv
  <2>2. Over(league.cache)
    BY <2>1 DEF OverInv
  <2>3. ASSUME NEW t \in Teams, NEW w \in Weeks, league.cache[t][w] # None
        PROVE  /\ request'[q].mine.cache[t][w] # None
               /\ league.cache[t][w].final => request'[q].mine.cache[t][w].final
    <3>1. CASE /\ request'[q].mine.cache[t][w] # None
               /\ request'[q].mine.cache[t][w].final <=> w < espnWeek
      BY <2>2, <2>3, <3>1 DEF Over
    <3>2. CASE request'[q].mine.cache[t][w] = request[q].mine.cache[t][w]
      BY <2>1, <2>3, <3>2 DEF Keeps
    <3>3. QED
      BY <1>4, <3>1, <3>2, FetchedCache
  <2>4. QED
    BY <1>4, <2>1, <2>3, FetchedCache DEF Keeps
<1>5. ASSUME NEW kind \in Kinds, NEW player \in Maybe(Players), LoadLeague(q, kind, player)
      PROVE  /\ league' # None /\ request'[q].id = league'.id
             /\ Keeps(league'.cache, request'[q].mine.cache)
  BY <1>2, <1>5, LoadedWith DEF Keeps
<1>6. QED
  BY <1>2, <1>3, <1>4, <1>5, ProgressSteps DEF Report

\* A step that stores what a report fetched keeps what was there.
LEMMA StepKeeps ==
  TypeInv /\ KeepInv /\ [Next]_vars
    => (~reported /\ ~crossed /\ league # None /\ league' # None /\ league'.born = league.born =>
          \A t \in Teams, w \in Weeks :
            league.cache[t][w] # None =>
              /\ league'.cache[t][w] # None
              /\ league.cache[t][w].final => league'.cache[t][w].final)
<1> SUFFICES ASSUME TypeInv, KeepInv, [Next]_vars, ~reported, ~crossed,
                    league # None, league' # None
             PROVE  Keeps(league.cache, league'.cache)
  BY DEF Keeps
<1>1. ASSUME NEW r \in Requests, StoreWeeks(r), league'.cache = request[r].mine.cache
      PROVE  Keeps(league.cache, league'.cache)
  <2>1. Report(r)
    BY <1>1 DEF StoreWeeks, Report, InProgress, TypeInv, ShapeInv
  <2>2. QED
    BY <1>1, <2>1 DEF KeepInv
<1>2. CASE league'.cache = league.cache
  BY <1>2 DEF Keeps
<1>3. QED
  BY <1>1, <1>2, LeagueSteps
-----------------------------------------------------------------------------
\* Scores of the league that was born as number born.
Own(cache, born) ==
  \A t \in Teams, w \in Weeks : cache[t][w] # None => cache[t][w].of = born

\* A request goes on with the league it was begun for, and a deletion has
\* loaded every move there is.
InHand(r) ==
  /\ league # None /\ request[r].id = league.id /\ request[r].born = league.born
  /\ request[r].kind = "report" =>
       request[r].mine.born = league.born /\ Own(request[r].mine.cache, league.born)
  /\ request[r].kind = "drop" => \A m \in moves : \E s \in request[r].seen : s.id = m.id

OwnInv ==
  ~crossed =>
    /\ \A m \in moves : league # None /\ m.league = league.id /\ m.born = league.born
    /\ league # None => Own(league.cache, league.born)
    /\ \A r \in Requests : InProgress(r) => InHand(r)

\* While no deletion crosses a request, the row a request goes on with stays.
LEMMA RowStays ==
  ASSUME TypeInv, AloneInv, OwnInv, [Next]_vars, ~crossed, NEW q \in Requests, InProgress(q), InProgress(q)'
  PROVE  league # None /\ league' # None /\ league'.id = league.id /\ league'.born = league.born
<1>1. league # None
  BY DEF OwnInv, InHand
<1>2. ASSUME NEW r \in Requests, DropLeague(r) PROVE FALSE
  <2>1. InProgress(r) /\ request[r].kind = "drop"
    BY <1>2 DEF DropLeague, InProgress
  <2>2. r # q
    BY <1>2 DEF DropLeague, End, Idle, InProgress, TypeInv, TypeOK
  <2>3. QED
    BY <2>1, <2>2 DEF AloneInv
<1>3. QED
  BY <1>1, <1>2, LeagueSteps

\* What a step leaves planned.
LEMMA OwnMoves ==
  ASSUME TypeInv, AloneInv, OwnInv, [Next]_vars, ~crossed, NEW m \in moves'
  PROVE  league' # None /\ m.league = league'.id /\ m.born = league'.born
<1>1. CASE m \in moves
  <2>1. league # None /\ m.league = league.id /\ m.born = league.born
    BY <1>1 DEF OwnInv
  <2>2. ASSUME NEW r \in Requests, DropLeague(r) PROVE FALSE
    <3>1. InProgress(r) /\ request[r].kind = "drop"
      BY <2>2 DEF DropLeague, InProgress
    <3>2. \E s \in request[r].seen : s.id = m.id
      BY <1>1, <3>1 DEF OwnInv, InHand
    <3>3. QED
      BY <2>2, <3>2 DEF DropLeague, Cascaded, Without
  <2>3. QED
    BY <2>1, <2>2, LeagueSteps
<1>2. CASE m \notin moves
  <2>1. PICK r \in Requests, i \in 1 .. MaxId : InsertMove(r, i)
    BY <1>2, MoveSteps
  <2>2. m.league = request[r].id /\ m.born = request[r].born /\ league' = league /\ InProgress(r)
    BY <1>2, <2>1 DEF InsertMove, InProgress
  <2>3. QED
    BY <2>2 DEF OwnInv, InHand
<1>3. QED
  BY <1>1, <1>2

\* What a step leaves of a request.
LEMMA OwnRequest ==
  ASSUME TypeInv, AloneInv, OwnInv, [Next]_vars, ~crossed', NEW q \in Requests, InProgress(q)'
  PROVE  InHand(q)'
<1>1. ~crossed /\ AloneInv'
  BY HistorySteps, AloneNext
<1>2. ASSUME InProgress(q), request'[q].kind = request[q].kind,
             request'[q].id = request[q].id, request'[q].born = request[q].born,
             request[q].kind = "drop" => request'[q].seen = request[q].seen
      PROVE  /\ league' # None /\ request'[q].id = league'.id /\ request'[q].born = league'.born
             /\ league # None /\ league'.born = league.born
             /\ request'[q].kind = "drop" => \A m \in moves' : \E s \in request'[q].seen : s.id = m.id
  <2>1. InHand(q)
    BY <1>1, <1>2 DEF OwnInv
  <2>2. league # None /\ league' # None /\ league'.id = league.id /\ league'.born = league.born
    BY <1>1, <1>2, RowStays
  <2>3. ASSUME request'[q].kind = "drop" PROVE moves' \subseteq moves
    <3>1. ASSUME NEW r \in Requests, NEW i \in 1 .. MaxId, InsertMove(r, i) PROVE FALSE
      <4>1. InProgress(r) /\ r # q
        BY <3>1 DEF InsertMove, End, Idle, InProgress, TypeInv, TypeOK
      <4>2. QED
        BY <1>1, <1>2, <2>3, <4>1 DEF AloneInv
    <3>2. QED
      BY <3>1, MoveSteps
  <2>4. QED
    BY <1>2, <2>1, <2>2, <2>3 DEF InHand
<1>3. CASE /\ InProgress(q) /\ request'[q].kind = request[q].kind
           /\ request'[q].id = request[q].id /\ request'[q].born = request[q].born
           /\ request[q].kind = "drop" => request'[q].seen = request[q].seen
           /\ request'[q].mine = request[q].mine
  <2>1. InHand(q)
    BY <1>1, <1>3 DEF OwnInv
  <2>2. QED
    BY <1>2, <1>3, <2>1 DEF InHand, Own
<1>4. ASSUME InProgress(q), request'[q].kind = request[q].kind,
             request'[q].id = request[q].id, request'[q].born = request[q].born,
             request[q].kind = "drop" => request'[q].seen = request[q].seen,
             NEW served \in SUBSET Weeks, served # {}, FetchWeeks(q, served)
      PROVE  InHand(q)'
  <2>1. request[q].mine.born = league.born /\ Own(request[q].mine.cache, league.born)
    BY <1>1, <1>4 DEF OwnInv, InHand, FetchWeeks
  <2>2. request'[q].mine.born = league.born
    BY <1>4, <2>1, FetchedCache
  <2>3. ASSUME NEW t \in Teams, NEW w \in Weeks, request'[q].mine.cache[t][w] # None
        PROVE  request'[q].mine.cache[t][w].of = league.born
    <3>1. CASE request'[q].mine.cache[t][w].of = request[q].mine.born
      BY <2>1, <3>1
    <3>2. CASE request'[q].mine.cache[t][w] = request[q].mine.cache[t][w]
      BY <2>1, <2>3, <3>2 DEF Own
    <3>3. QED
      BY <1>4, <3>1, <3>2, FetchedCache
  <2>4. QED
    BY <1>2, <1>4, <2>2, <2>3 DEF InHand, Own
<1>5. ASSUME NEW kind \in Kinds, NEW player \in Maybe(Players), LoadLeague(q, kind, player)
      PROVE  InHand(q)'
  <2>1. /\ league # None /\ league' = league /\ moves' = moves
        /\ request'[q].kind = kind /\ request'[q].id = league.id /\ request'[q].born = league.born
        /\ kind = "report" => request'[q].mine = league
        /\ kind = "drop" => request'[q].seen = PlannedFor(league.id)
    BY <1>5, LoadedWith
  <2>2. Own(league.cache, league.born) /\ moves \subseteq PlannedFor(league.id)
    BY <1>1, <2>1 DEF OwnInv, PlannedFor
  <2>3. QED
    BY <2>1, <2>2 DEF InHand, Own
<1>6. QED
  BY <1>3, <1>4, <1>5, ProgressSteps

LEMMA OwnNext == TypeInv /\ AloneInv /\ OwnInv /\ [Next]_vars => OwnInv'
<1> SUFFICES ASSUME TypeInv, AloneInv, OwnInv, [Next]_vars, ~crossed' PROVE OwnInv'
  BY DEF OwnInv
<1>1. ~crossed
  BY HistorySteps
<1>2. ASSUME league' # None PROVE Own(league'.cache, league'.born)
  <2>1. CASE league # None /\ league'.born = league.born /\ league'.cache = league.cache
    BY <1>1, <2>1 DEF OwnInv
  <2>2. CASE \A t \in Teams, w \in Weeks : league'.cache[t][w] = None
    BY <2>2 DEF Own
  <2>3. ASSUME NEW r \in Requests, StoreWeeks(r), league'.born = league.born,
               league'.cache = request[r].mine.cache
        PROVE  Own(league'.cache, league'.born)
    <3>1. InProgress(r) /\ request[r].kind = "report"
      BY <2>3 DEF StoreWeeks, InProgress, TypeInv, ShapeInv
    <3>2. QED
      BY <1>1, <2>3, <3>1 DEF OwnInv, InHand
  <2>4. QED
    BY <1>2, <2>1, <2>2, <2>3, LeagueSteps
<1>3. \A m \in moves' : league' # None /\ m.league = league'.id /\ m.born = league'.born
  BY <1>1, OwnMoves
<1>4. \A q \in Requests : InProgress(q)' => InHand(q)'
  BY OwnRequest
<1>5. QED
  BY <1>2, <1>3, <1>4 DEF OwnInv, Own
-----------------------------------------------------------------------------
LEMMA KeepsInit == Init => AloneInv /\ OverInv /\ KeepInv /\ OwnInv
BY DEF Init, Idle, AloneInv, OverInv, KeepInv, OwnInv, Report, InProgress

KeepsInv == TypeInv /\ AloneInv /\ OverInv /\ KeepInv /\ OwnInv

LEMMA KeepsInvariant == Spec => []KeepsInv
<1>1. Init => KeepsInv
  BY TypeInit, KeepsInit DEF KeepsInv
<1>2. KeepsInv /\ [Next]_vars => KeepsInv'
  BY TypeNext, AloneNext, OverNext, KeepNext, OwnNext DEF KeepsInv
<1>3. QED
  BY <1>1, <1>2, PTL DEF Spec

\* The rows of a deleted league, of models.py: unless the league was being
\* deleted while another request ran, planned moves and scored weeks are those
\* of the league they are shown for, also when its id has been reused.
THEOREM OwnKept == Spec => []LeagueKeepsItsOwn
<1>1. KeepsInv => LeagueKeepsItsOwn
  BY DEF KeepsInv, OwnInv, Own, LeagueKeepsItsOwn
<1>2. QED
  BY <1>1, KeepsInvariant, PTL

\* The cache of models.py and bench_points.py: unless two reports overlap, no
\* synchronisation, choice of a team or report loses a scored week, or makes a
\* final score an interim one.
THEOREM WeeksKept == Spec => ScoredWeeksAreKept
<1> DEFINE Kept ==
      ~reported /\ ~crossed /\ league # None /\ league' # None /\ league'.born = league.born =>
        \A t \in Teams, w \in Weeks :
          league.cache[t][w] # None =>
            /\ league'.cache[t][w] # None
            /\ league.cache[t][w].final => league'.cache[t][w].final
<1>1. KeepsInv /\ [Next]_vars => Kept
  BY StepKeeps DEF KeepsInv
<1> HIDE DEF Kept
<1>2. Spec => [][Kept]_vars
  BY <1>1, KeepsInvariant, PTL DEF Spec
<1>3. QED
  BY <1>2 DEF Kept, ScoredWeeksAreKept
=============================================================================
