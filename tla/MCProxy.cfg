SPECIFICATION Spec
CONSTANTS
  kS = kS  kA = kA  pS = pS  pA = pA  tA = tA  tB = tB  mS = mS  mA = mA
  s1 = s1  u1 = u1  u2 = u2  r1 = r1  r2 = r2
  Keys = {kS, kA}
  Pools = {pS, pA}
  Teams = {tA, tB}
  Models = {mS, mA}
  NoTeam = NoTeam
  NoModel = NoModel
  NoKey = NoKey
  NoUser = NoUser
  KeyPool <- MCKeyPool
  KeyOwner <- MCKeyOwner
  ModelPool <- MCModelPool
  ModelTier <- MCModelTier
  Capability <- MCCapability
  PoolTier <- MCPoolTier
  Preferred <- MCPreferred
  Mixes <- MCMixes
  Requests = {r1, r2}
  Estimate = 3
  Exact = 1
  Used = 2
  TpmLimit = 3
  MaxUsers = 1
  MaxFaults = 1
INVARIANTS
  BlameFollowsProvider
  ScopeKept
  MarksEarned
  CacheHasNoHole
PROPERTIES
  Settles
  Finishes
