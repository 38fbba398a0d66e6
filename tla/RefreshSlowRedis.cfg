CONSTANTS
  c1 = c1
  c2 = c2
  l1 = l1
  r1 = r1
  r2 = r2
  None = None
  Calls = {c1, c2}
  Logins = {}
  RefreshTokens = {r1, r2}
  LockTtl = 2
  AccessTtl = 1
  IdpTimeout = 1
  RedisMax = 1
  LoginMax = 1
  WaitStep = 0
  Faults = {"redis", "crash"}
SPECIFICATION FairSpec
PROPERTIES CallsAdvance EveryCallEnds LockIsAlwaysFreed
