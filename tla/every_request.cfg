\* one strategy, two successive jobs, every API request, one crash
SPECIFICATION Spec
CONSTANTS
  s1 = s1
  s2 = s2
  j1 = j1
  j2 = j2
  j3 = j3
  w1 = w1
  None = None
  Strategies = {s1}
  Jobs = {j1, j2}
  Wallets = {w1}
  WalletOf <- OneWallet
  StrategyOf <- AllJobsS1
  DryRun = {}
  Verdicts = {"monitoring", "paused_guard"}
  ApiOps = {"put", "start", "execute", "resume_monitoring", "stop", "resume_job", "inspect_job", "pause"}
  QuarantineAt = 1
  MaxRevision = 2
  MaxInFlight = 1
  MaxQueue = 2
  MaxCrashes = 1
SYMMETRY JobSymmetry
INVARIANTS
  TypeOK
  RunningHoldsLock
  OneOpenJob
  ExecutingHasJob
  GivenUpHasNoEffect
CHECK_DEADLOCK FALSE
