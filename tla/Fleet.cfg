SPECIFICATION Spec
CONSTANTS
  Workers = {w1, w2, w3}
  Nobody = Nobody
  FORK_BACKOFF_BASE = 1
  FORK_BACKOFF_MAX = 3
  CRASH_WINDOW = 5
  SHUTDOWN_DEADLINE = 3
  PRIMARY_EXIT_GRACE = 1
INVARIANTS
  FleetSize
  NoSpin
PROPERTIES
  Heals
CHECK_DEADLOCK FALSE
