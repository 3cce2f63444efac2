CONSTANTS
  t1 = t1
  t2 = t2
  a = a
  b = b
  Kinds = {"login", "register", "analysis"}
  Keys = {a, b}
  Threads = {t1, t2}
  Limit = 2
  Window = 3
  Unit = 2
  MaxTime = 4
  MaxEvents = 3
  None = None
SPECIFICATION Spec
SYMMETRY Symmetry
INVARIANTS
  LimitHolds
  RefusedForCause
  RetryAfterSuffices
  OldKeysAreForgotten
