SPECIFICATION Spec
CONSTANTS
  Flows = {f1, f2, f3}
  Deletions = {}
  Logouts = {}
  Invite = FALSE
  CodeTtl = 1
  TokenTtl = 3
  Overlap = TRUE
  Faults = {}
SYMMETRY Symmetry
INVARIANT ListNamesTokens
CHECK_DEADLOCK FALSE
