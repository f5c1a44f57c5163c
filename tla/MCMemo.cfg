SPECIFICATION MemoSpec
CONSTANTS
  Instances = {i1, i2}
  NoInstance = NoInstance
  Reads = {r1, r2}
  Ttl = 1
  MaxStale = 2
  SharedTtl = 2
  MaxCall = 1
  MaxVersion = 2
  MaxFaults = 1
SYMMETRY AnyNames
INVARIANTS
  StaleBounded
  RotationReaches
