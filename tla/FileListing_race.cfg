CONSTANTS
  s1 = s1
  s2 = s2
  r1 = r1
  r2 = r2
  f1 = f1
  f2 = f2
  None = None
  Servers = {s1}
  Readers = {r1, r2}
  Refreshers = {f1}
  Dirs <- OneDir
  Modes <- RaceModes
  EmptyStates = {0}
  GoneStates = {0}
  Faults = {}
  Counted = {"held"}
  MaxChanges = 1
SPECIFICATION Spec
INVARIANT RefreshSeen
CHECK_DEADLOCK FALSE
