CONSTANTS
  a1 = a1
  a2 = a2
  ip1 = ip1
  u1 = u1
  u2 = u2
  t1 = t1
  c1 = c1
  c2 = c2
  s1 = s1
  s2 = s2
  admin = admin
  other = other
  Attempts = {a1, a2}
  Addresses = {ip1}
  Users = {u1}
  Limit = 2
  Faults = {"expire"}
  Names = {admin, other}
  InitialName = admin
  Tokens = {t1}
  Clients = {c1, c2}
  Hosts = {s1, s2}
  CallsMayFail = TRUE
  MaxUpdates = 1
  Parts = {"limiter"}
SPECIFICATION LoginsSpec
PROPERTY LockoutEnds
CHECK_DEADLOCK FALSE
