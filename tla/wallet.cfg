\* two strategies of one wallet, one that converts its fees; a throw or crash
SPECIFICATION Spec
CONSTANTS
  s1 = s1
  s2 = s2
  None = None
  Strategies = {s1, s2}
  Convert = {s1}
  MaxJobs = 2
  MaxOutside = 1
  MaxFails = 2
INVARIANTS
  TypeOK
  AllocationIsOwn
  ProfitAccounted
  SpendsItsOwn
  FirstAttemptPasses
  SomeoneCanFinish
CHECK_DEADLOCK FALSE
