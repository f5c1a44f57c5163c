SPECIFICATION Spec
CONSTANTS
  MaxEvents = 5
  MaxBatch = 2
  Cap = 3
  Chunk = 2
  MaxRounds = 2
INVARIANTS
  OldestFirst
  NothingVanishes
PROPERTIES
  EventuallyFlushed
CHECK_DEADLOCK FALSE
