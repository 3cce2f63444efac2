CONSTANTS
  w1 = w1
  w2 = w2
  u1 = u1
  u2 = u2
  None = None
  Torn = Torn
  Down = Down
  Workers <- MCWorkers
  Updates <- MCUpdates
  MaxCommit = 3
  NewDeps = {1, 3}
  Broken = {2}
  MaxCrashes = 1
SPECIFICATION FairSpec
INVARIANT DeploymentIsWhole
PROPERTY RestartIsDelivered
