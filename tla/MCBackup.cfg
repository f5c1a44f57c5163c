SPECIFICATION Spec
CONSTANTS
  Replicas = {p1, p2}
  Free = Free
  Orphan = Orphan
  Day = 2
  TimeOfDay = 1
  EveryDays = 1
  Keep = 1
  Mixes <- MCMixes
INVARIANTS
  FlagCoversRestore
  
  NewestKept
  OncePerWindow
PROPERTIES
  Heals
CHECK_DEADLOCK FALSE
