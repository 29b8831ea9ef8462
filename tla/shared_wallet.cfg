\* a live and a simulating strategy on one wallet: their jobs queue behind each other
SPECIFICATION FairSpec
CONSTANTS
  s1 = s1
  s2 = s2
  j1 = j1
  j2 = j2
  j3 = j3
  w1 = w1
  None = None
  Strategies = {s1, s2}
  Jobs = {j1, j2}
  Wallets = {w1}
  WalletOf <- OneWallet
  StrategyOf <- JobPerStrategy
  DryRun = {s2}
  Verdicts = {"monitoring"}
  ApiOps = {"stop", "resume_job"}
  QuarantineAt = 2
  MaxRevision = 2
  MaxInFlight = 1
  MaxQueue = 2
  MaxCrashes = 1
INVARIANTS
  OneRunningPerWallet
  FreshRunAlone
  ExecutingHasJob
PROPERTIES
  JobsStayFinal
  
  SupervisorPassEnds
CHECK_DEADLOCK FALSE
