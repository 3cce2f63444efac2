CONSTANTS
  r1 = r1
  r2 = r2
  None = None
  Requests <- MCRequests
  Keys <- MCNoKeys
  MaxGrants = 1
  MaxRotations = 1
  MaxPairings = 0
SPECIFICATION Spec
PROPERTY OnlyDeadSignInsAreCleared
