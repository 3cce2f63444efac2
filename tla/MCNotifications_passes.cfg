CONSTANTS
  w1 = w1
  w2 = w2
  l1 = l1
  l2 = l2
  hurt = hurt
  None = None
  Workers <- MCWorkers
  Leagues <- MCLeagues
  Quiet <- MCQuiet
  Problems = {hurt}
  MaxDigests = 1
  MaxFaults = 1
SPECIFICATION FairSpec
INVARIANTS
  RepeatsAreBounded
  RecordedWasSent
PROPERTY StandingProblemIsReported
