\* two jobs of two steps on one wallet, an owner transaction, a crash
SPECIFICATION Spec
CONSTANTS
  j1 = j1
  j2 = j2
  None = None
  Jobs = {j1, j2}
  Steps = {1, 4}
  Payloads = {1}
  MaxBid = 2
  MaxNonce = 3
  MaxOwnerTxs = 1
  MaxCrashes = 1
  Faults = {"lag", "replaced"}
SYMMETRY JobSymmetry
INVARIANTS
  TypeOK
  EffectOnce
  
  GivenUpIsDead
  LandInOrder
  CompletedIsAccountedFor
CHECK_DEADLOCK FALSE
