CONSTANTS
  s1 = s1
  s2 = s2
  r1 = r1
  r2 = r2
  f1 = f1
  f2 = f2
  None = None
  Servers = {s1}
  Readers = {r1}
  Refreshers = {f1}
  Dirs <- TwoDirs
  Modes <- AllModes
  EmptyStates = {}
  GoneStates = {1}
  Faults = {"redisGet", "redisSet", "redisDel", "bucket", "postgres"}
  Counted = {}
  MaxChanges = 1
SPECIFICATION Spec
INVARIANT RefreshSeen
CHECK_DEADLOCK FALSE
