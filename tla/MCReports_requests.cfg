CONSTANTS
  rb = rb
  te = te
  flex = flex
  ta = ta
  tb = tb
  Slots = {rb, te, flex}
  Bench = Bench
  Reserve = Reserve
  Weeks <- MCWeeks
  One = 1
  Ineligible = 1000
  Infinity = Infinity
  None = None
  BenchSlots = {Bench}
  TopN = 1
  Positions <- MCPositions
  Owners = {ta, tb}
  MaxChanges = 3
  Teams = {1, 2}
  Types = {"WAIVER", "FREEAGENT", "TRADE", "ROSTER"}
  Bidding = {"WAIVER"}
  Statuses = {"EXECUTED", "PENDING", "FAILED", "SUCCEEDED", None}
  Finished = {"EXECUTED", "FAILED"}
  Completed = {"EXECUTED", "SUCCEEDED", None}
  MaxClaims = 2
  MaxStored = 2
  WaiverCases <- MCWaiverCases
  LeagueCases <- MCLeagueCases
  GradeCases <- MCGradeCases
  RosterCases <- MCRosterCases
  DigestCases <- MCDigestCases
  TransactionCases <- MCTransactionCases
SPECIFICATION ReportSpec
INVARIANTS
  Certified
  FoundOptimum
  NobodyBeatsTheBest
  MissedAddsUp
  WaiverAdviceHolds
  TradeAdviceHolds
  StartSitHolds
  DigestHolds
  ActivityHolds
PROPERTY EveryWeekIsScored
CHECK_DEADLOCK FALSE
