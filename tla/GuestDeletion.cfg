SPECIFICATION Spec
CONSTANTS
  Flows = {f1, f2}
  Deletions = {d1}
  Logouts = {}
  Invite = TRUE
  CodeTtl = 1
  TokenTtl = 1
  Overlap = TRUE
  Faults = {"redis", "crash"}
SYMMETRY Symmetry
INVARIANT IndexedWhileUsable
INVARIANT CodeIsSpent
INVARIANT RevocationIsFinal
CHECK_DEADLOCK FALSE
