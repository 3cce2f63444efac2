CONSTANTS
  w1 = w1
  w2 = w2
  l1 = l1
  err = err
  None = None
  Workers = {w1, w2}
  Leagues = {l1}
  Failures = {err}
  MinInterval = 2
  MaxInterval = 3
  DefaultInterval = 3
  PassSpan = 2
  MaxTime = 4
  MaxFaults = 1
  ReuseIds = TRUE
SPECIFICATION FairSpec
INVARIANT TypeOK
PROPERTIES
  AttemptsAreSpaced
  DueIsAttempted
