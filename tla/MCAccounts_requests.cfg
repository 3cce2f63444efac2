CONSTANTS
  chief = chief
  ann = ann
  bob = bob
  r1 = r1
  r2 = r2
  MaxId = 2
  Emails = {chief, ann, bob}
  Listed = {chief}
  Requests = {r1, r2}
  Null = Null
SPECIFICATION AccountsSpec
SYMMETRY Symmetry
INVARIANTS
  AccountsTypeOK
  SomebodyAdministers
  OnlyTheVouchedGetIn
CHECK_DEADLOCK FALSE
