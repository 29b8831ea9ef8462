\* a maxSlippageBps of 3: eight doublings end at 768, below the cap
SPECIFICATION Spec
CONSTANTS
  w1 = w1
  w2 = w2
  None = None
  Swaps = {w1}
  Base = 3
  Limits = {2}
  MaxJobs = 1
  MaxDay = 0
  MaxResumes = 0
  MaxCrashes = 0
INVARIANTS
  SpentLadderQuarantines
CHECK_DEADLOCK FALSE
