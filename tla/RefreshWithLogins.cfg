CONSTANTS
  c1 = c1
  c2 = c2
  l1 = l1
  r1 = r1
  r2 = r2
  r3 = r3
  None = None
  Calls = {c1, c2}
  Logins = {l1}
  RefreshTokens = {r1, r2, r3}
  LockTtl = 7
  AccessTtl = 1
  IdpTimeout = 1
  RedisMax = 1
  LoginMax = 1
  WaitStep = 0
  Faults = {"network", "deletion"}
SPECIFICATION Spec
SYMMETRY Symmetry
VIEW WithoutResult
INVARIANTS TypeOK CacheFollowsIdp
PROPERTY RotationSpec
