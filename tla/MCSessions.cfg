SPECIFICATION Spec
CONSTANTS
  t1 = t1
  t2 = t2
  r1 = r1
  r2 = r2
  Token = {t1, t2}
  Request = {r1, r2}
  None = none
  Limit = 1
  Window = 2
  MaxChanges = 2
INVARIANTS
  RevokedStaysRevoked
  PasswordIsInForce
PROPERTIES
  LimitIsLifted
