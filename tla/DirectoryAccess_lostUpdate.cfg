SPECIFICATION Spec
CONSTANTS
  s1 = s1
  s2 = s2
  a1 = a1
  a2 = a2
  r1 = r1
  r2 = r2
  t1 = t1
  x1 = x1
  x2 = x2
  None = None
  Servers = {s1}
  Admins = {a1, a2}
  Visitors = {r1}
  Tokens = {t1}
  Paths <- OnePath
  Secrets = {x1, x2}
  Plans <- LostUpdatePlans
  Faults = {}
  MaxRules = 1
SYMMETRY Symmetry
INVARIANT OldPassesInvalidated
