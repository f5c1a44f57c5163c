SPECIFICATION AdmissionSpec
CONSTANTS
  Window = 4
  Limit = 3
  RpmLimit = 3
  Requests = {r1, r2}
  MaxReserve = 2
  MaxUsed = 3
SYMMETRY AnyRequests
INVARIANTS
  ErrorAccountedFor
  WindowWithinLimit
  DeadlineCoversNextWindow
  WeightedWithinLimit
  NoDoubleBurst
