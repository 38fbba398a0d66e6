CONSTANTS
  Requests = {r1, r2}
  Interactions = {i1, i2}
  Grants = {g1, g2}
  Users = {u1, u2}
  None = None
SPECIFICATION Spec
SYMMETRY Symmetry
INVARIANTS
  TypeOK
  FinishedByItsOwnLogin
  NoAccountMismatch
  SessionHasTokens
  RefusedOnlyWhenGone
PROPERTY SignOnSpec
\* Every request ends and no interaction is left to open.
CHECK_DEADLOCK FALSE
