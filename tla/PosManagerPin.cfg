SPECIFICATION Spec
CONSTANTS
  Workers = {w1, w2}
  Managers = {m1, m2}
  Callers = {k1}
  Pins = {p1, p2}
  Creds = {c1, c2}
  MaxAttempts = 2
  Lockout = 2
  Window = 2
  IpMax = 1
  Composed = TRUE
  MaxTime = 2
  None = None
SYMMETRY Symmetry
INVARIANTS
  TypeOK
  GuessesAreSpaced
  OneLiveCredential
PROPERTIES
  LockoutHolds
CHECK_DEADLOCK FALSE
