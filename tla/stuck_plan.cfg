\* violation: resume-monitoring overwrites planned
SPECIFICATION FairSpec
CONSTANTS
  s1 = s1
  s2 = s2
  j1 = j1
  j2 = j2
  j3 = j3
  w1 = w1
  None = None
  Strategies = {s1}
  Jobs = {j1}
  Wallets = {w1}
  WalletOf <- OneWallet
  StrategyOf <- AllJobsS1
  DryRun = {}
  Verdicts = {"monitoring", "paused_guard"}
  ApiOps = {"resume_monitoring"}
  QuarantineAt = 2
  MaxRevision = 2
  MaxInFlight = 1
  MaxQueue = 2
  MaxCrashes = 0
PROPERTIES
  PlannedRuns
CHECK_DEADLOCK FALSE
