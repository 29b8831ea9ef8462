\* one job of one step, rebuilt with other calldata; no owner transaction, no crash
SPECIFICATION Spec
CONSTANTS
  j1 = j1
  j2 = j2
  None = None
  Jobs = {j1}
  Steps = {1, 4}
  Payloads = {1, 2}
  MaxBid = 1
  MaxNonce = 4
  MaxOwnerTxs = 0
  MaxCrashes = 0
  Faults = {}
PROPERTY AmbiguousOnlyWhileOpen
CHECK_DEADLOCK FALSE
