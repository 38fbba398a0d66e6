CONSTANTS
  r1 = r1
  r2 = r2
  g1 = g1
  g2 = g2
  NoGrant = NoGrant
  Calls <- MCCalls
  GrantIds <- MCGrantIds
  Life = 2
  JwtLife = 1
SPECIFICATION Spec
SYMMETRY Symmetry
INVARIANTS
  TypeOK
  LockedOut
  LoginEvery42Days
  DeletedMeansGone
CHECK_DEADLOCK FALSE
