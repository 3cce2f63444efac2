CONSTANTS
  r1 = r1
  r2 = r2
  None = None
  Requests <- MCRequests
  Keys <- MCKeys
  MaxGrants = 2
  MaxRotations = 1
  MaxPairings = 1
SPECIFICATION Spec
SYMMETRY Symmetry
INVARIANTS
  CredentialsExclusive
  KeyWasVerified
  PairingIsBurnedOnUse
  StoredSignInIsUsable
PROPERTY RefusalsClearTheDead
