\* violation: a monitor pass overwrites the archive
SPECIFICATION Spec
CONSTANTS
  s1 = s1
  s2 = s2
  j1 = j1
  j2 = j2
  j3 = j3
  w1 = w1
  None = None
  Strategies = {s1}
  Jobs = {j1}
  Wallets = {w1}
  WalletOf <- OneWallet
  StrategyOf <- AllJobsS1
  DryRun = {}
  Verdicts = {"monitoring"}
  ApiOps = {"stop"}
  QuarantineAt = 2
  MaxRevision = 2
  MaxInFlight = 1
  MaxQueue = 2
  MaxCrashes = 0
PROPERTIES
  ArchivedStaysArchived
CHECK_DEADLOCK FALSE
