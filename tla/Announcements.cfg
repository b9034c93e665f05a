CONSTANTS
  r1 = r1
  a1 = a1
  a2 = a2
  x1 = x1
  Requests = {r1}
  Admins = {a1, a2}
  Operations <- TwoAdmins
  Texts = {x1}
  Faults = {"get", "set", "incr", "del", "select", "crash", "loss"}
  MaxRows = 1
  MaxChanges = 2
  MaxVersion = 1
SPECIFICATION FairSpec
INVARIANTS TypeOK FilingInv
PROPERTIES ImplementsRegister EventuallyAnnounced LoadersEnd
