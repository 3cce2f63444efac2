CONSTANTS
  r1 = r1
  r2 = r2
  p1 = p1
  p2 = p2
  t1 = t1
  t2 = t2
  None = None
  Requests = {r1, r2}
  RowIds = {1}
  Teams = {t1, t2}
  Players = {p1, p2}
  MaxMoves = 1
  MaxWeek = 2
  MaxLeagues = 2
  MaxId = 3
CHECK_DEADLOCK FALSE
SPECIFICATION Spec
SYMMETRY Symmetry
INVARIANTS
  MovesStayBounded
  LeagueKeepsItsOwn
PROPERTY ScoredWeeksAreKept
