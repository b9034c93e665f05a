SPECIFICATION Spec
CONSTANTS
  s1 = s1
  s2 = s2
  a1 = a1
  a2 = a2
  r1 = r1
  r2 = r2
  t1 = t1
  x1 = x1
  x2 = x2
  None = None
  Servers = {s1, s2}
  Admins = {a1}
  Visitors = {r1, r2}
  Tokens = {t1}
  Paths <- OnePath
  Secrets = {x1}
  Plans <- FreshnessPlans
  Faults = {"incr"}
  MaxRules = 1
SYMMETRY Symmetry
INVARIANTS TypeOK AckedChangesSeen
PROPERTY ImplementsRegister
