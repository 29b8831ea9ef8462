\* violation: a PUT lands on an open job
SPECIFICATION Spec
CONSTANTS
  s1 = s1
  s2 = s2
  j1 = j1
  j2 = j2
  j3 = j3
  w1 = w1
  None = None
  Strategies = {s1}
  Jobs = {j1}
  Wallets = {w1}
  WalletOf <- OneWallet
  StrategyOf <- AllJobsS1
  DryRun = {}
  Verdicts = {"monitoring"}
  ApiOps = {"put"}
  QuarantineAt = 2
  MaxRevision = 3
  MaxInFlight = 1
  MaxQueue = 2
  MaxCrashes = 0
PROPERTIES
  NoEditUnderOpenJob
CHECK_DEADLOCK FALSE
