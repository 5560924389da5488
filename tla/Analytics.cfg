CONSTANTS
  NULL = NULL
  None = None
  NoFact = NoFact
  Refused = Refused
  Grains <- GrainsDef
  Facts <- FactsDef
  MaxPubs = 3
  SnapshotOf <- SnapshotOfDef
  Asks <- AsksDef
  Limit = 8
  MonthFirsts <- MonthFirstsDef
  WeekDays = 3
  Monday = 1
  RateScale = 100
  Blank = 0
  OtherKey = 99
  MaxSeries = 2
  MaxSeriesRows = 3
  MaxDrillDepth = 3
  MaxDrillRows = 2
  MinBaselineMonths = 3
  MaxBaselineMonths = 3
  GroupLimit = 3
  Questions <- QuestionsDef
  IntentProposals <- IntentProposalsDef
  TrendProposals <- TrendProposalsDef
  Invented = {777, 2030}
  AskLimit = 3
  MaxEvidenceRows = 2
  ChannelHints = {1, 2}
  GrainOrder <- GrainOrderDef
  PageSize = 3
  MaxReportRows = 7
  Nothing = Nothing
  Jtis = {j}
  Copies = {c1, c2}
  AccessTtl = 1
  LoginTtl = 1
  GrantTtl = 2
  MaxClock = 3
  Absent = Absent
SPECIFICATION ReadersSpec
SYMMETRY Symmetry
INVARIANTS
  TrendsReconcile
  DrillReconciles
  DrillKeepsTheCell
  DriversAreTheLargest
  PastVerdictsStand
  AnswersAreGrounded
  ReportIsOnePublication
  ServedWhileGranted
  RefusedForAReason
CHECK_DEADLOCK FALSE
