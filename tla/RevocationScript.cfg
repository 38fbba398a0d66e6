CONSTANTS
  Requests = {l1, m1}
  Before = {l1}
  Relogins = {m1}
  Accounts <- MCAccounts
  RevokedSubs = {"s1"}
  Expiring <- MCExpiring
  None = None
  Faults = {"interrupt", "redis", "unreadable"}
SPECIFICATION Spec
INVARIANTS TypeOK RevokedForGood SurvivorsAreRefused RerunFindsNothing
PROPERTIES OthersAreLeftAlone
CHECK_DEADLOCK FALSE
