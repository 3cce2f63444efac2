CONSTANTS
  w1 = w1
  w2 = w2
  l1 = l1
  l2 = l2
  err = err
  None = None
  Workers = {w1, w2}
  Leagues = {l1, l2}
  Failures = {err}
  MinInterval = 2
  MaxInterval = 3
  DefaultInterval = 3
  PassSpan = 1
  MaxTime = 3
  MaxFaults = 0
  ReuseIds = FALSE
SPECIFICATION Spec
SYMMETRY WorkerSymmetry
INVARIANTS
  ClaimsAreExclusive
  AttemptsAreAccountedFor
