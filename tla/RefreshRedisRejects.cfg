CONSTANTS
  c1 = c1
  r1 = r1
  r2 = r2
  None = None
  Calls = {c1}
  Logins = {}
  RefreshTokens = {r1, r2}
  LockTtl = 7
  AccessTtl = 2
  IdpTimeout = 1
  RedisMax = 1
  LoginMax = 1
  WaitStep = 0
  Faults = {"redis"}
SPECIFICATION Spec
INVARIANT FailuresAreResults
