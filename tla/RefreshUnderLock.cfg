CONSTANTS
  c1 = c1
  c2 = c2
  c3 = c3
  r1 = r1
  r2 = r2
  r3 = r3
  None = None
  Calls = {c1, c2, c3}
  Logins = {}
  RefreshTokens = {r1, r2, r3}
  LockTtl = 7
  AccessTtl = 2
  IdpTimeout = 1
  RedisMax = 1
  LoginMax = 1
  WaitStep = 0
  Faults = {"redis", "network", "crash", "deletion"}
SPECIFICATION Spec
SYMMETRY Symmetry
VIEW WithoutResult
INVARIANTS
  HolderKeepsLock
  OneRefresher
  NoReplay
  StoredRefreshTokenIsCurrent
PROPERTY LeaseSpec
