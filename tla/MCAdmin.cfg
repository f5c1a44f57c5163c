SPECIFICATION Spec
CONSTANTS
  People = {u1, u2}
  Nobody = Nobody
  Tokens = {t1}
  MaxSessions = 4
  Requests = {a, b}
  MAX_LOGIN_ATTEMPTS = 2
  Mixes <- MCMixes
SYMMETRY AnyNames
INVARIANTS
  LockoutHolds
  TokensGoWithPerson
  SuspensionErases
CHECK_DEADLOCK FALSE
