SPECIFICATION Spec
CONSTANTS
  Flows = {f1, f2, f3}
  Deletions = {}
  Logouts = {o1}
  Invite = FALSE
  CodeTtl = 2
  TokenTtl = 4
  Overlap = FALSE
  Faults = {"redis", "crash"}
SYMMETRY Symmetry
INVARIANT TypeOK
INVARIANT ListOutlivesTokens
PROPERTY GoneForGood
CHECK_DEADLOCK FALSE
