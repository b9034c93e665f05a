CONSTANTS
  s1 = s1
  s2 = s2
  r1 = r1
  r2 = r2
  f1 = f1
  f2 = f2
  None = None
  Servers = {s1}
  Readers = {r1}
  Refreshers = {f1, f2}
  Dirs <- OneDir
  Modes <- AllModes
  EmptyStates = {1}
  GoneStates = {1}
  Faults = {"redisGet", "redisSet", "bucket", "postgres"}
  Counted = {}
  MaxChanges = 2
SPECIFICATION FairSpec
INVARIANT TypeOK
PROPERTIES IndexMovesForward EventuallyCurrent RefreshesEnd
CHECK_DEADLOCK FALSE
