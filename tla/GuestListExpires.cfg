SPECIFICATION Spec
CONSTANTS
  Flows = {f1, f2}
  Deletions = {}
  Logouts = {}
  Invite = TRUE
  CodeTtl = 1
  TokenTtl = 2
  Overlap = FALSE
  Faults = {}
SYMMETRY Symmetry
INVARIANT ListNamesTokens
CHECK_DEADLOCK FALSE
