SPECIFICATION Spec
CONSTANTS
  r1 = r1
  r2 = r2
  t1 = t1
  t2 = t2
  t3 = t3
  Requests = {r1, r2}
  Tokens = {t1, t2}
  MaxUsers = 2
  MaxChanges = 0
  Counted = {}
  LoginMaxFailures = 1
INVARIANTS SomeAdmin
SYMMETRY Interchangeable
