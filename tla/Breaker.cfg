SPECIFICATION BreakerSpec
CONSTANTS
  Slots = {r1, r2}
  StrikeThreshold = 2
  StrikeWindow = 1
  BaseCooldown = 1
  MaxCooldown = 2
  ProbeTtl = 1
  AuthBanThreshold = 1
  AuthWindow = 1
  RateLimitCooldown = 1
  RowTtl = 1
  MaxRefusals = 1
INVARIANTS
  GateOutlivesCooldown
  FreshWindowHasFreeSlot
  EscalationBackedByGate
  StrikesConsecutive
  AuthWindowOpen
PROPERTIES
  BanTakesHold
  Recovers
