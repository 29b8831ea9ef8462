\* two swaps, the ladder 250, 500, 1000; two jobs over a midnight
SPECIFICATION Spec
CONSTANTS
  w1 = w1
  w2 = w2
  None = None
  Swaps = {w1, w2}
  Base = 250
  Limits = {2, 3}
  MaxJobs = 2
  MaxDay = 1
  MaxResumes = 1
  MaxCrashes = 1
INVARIANTS
  TypeOK
  RevertsBounded
  
  QuarantineEarned
  SpentLadderQuarantines
PROPERTIES
  FailingIsNoticed
CHECK_DEADLOCK FALSE
