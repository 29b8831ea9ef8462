\* the poll loop alone, one crash, on a chain that answers
SPECIFICATION SettlingSpec
CONSTANTS
  s1 = s1
  s2 = s2
  j1 = j1
  j2 = j2
  j3 = j3
  w1 = w1
  None = None
  Strategies = {s1}
  Jobs = {j1, j2}
  Wallets = {w1}
  WalletOf <- OneWallet
  StrategyOf <- AllJobsS1
  DryRun = {}
  Verdicts = {"monitoring", "paused_guard"}
  ApiOps = {}
  QuarantineAt = 2
  MaxRevision = 2
  MaxInFlight = 1
  MaxQueue = 2
  MaxCrashes = 1
PROPERTIES
  PlannedRuns
  RecoveryEnds
CHECK_DEADLOCK FALSE
