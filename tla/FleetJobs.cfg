SPECIFICATION Spec
CONSTANTS
  Workers = {w1, w2}
  Nobody = Nobody
  FORK_BACKOFF_BASE = 1
  FORK_BACKOFF_MAX = 2
  CRASH_WINDOW = 4
  SHUTDOWN_DEADLINE = 2
  PRIMARY_EXIT_GRACE = 1
INVARIANTS
  JobsKeepRunning
CHECK_DEADLOCK FALSE
