CONSTANTS
  CacheKeys = {"r2:list:/", "r2:list:/a/", "r2:stat:/b"}
  Sizes = {1, 3, 5}
  Callers = {"p", "q"}
  MaxItems = 2
  MaxBytes = 4
  Lifetime = 1
  MaxClock = 2
  LineSizes = {1, 3}
  MaxSize = 2
  MaxBackups = 2
  MaxAge = 1
  DaySeconds = 2
  CallsFail = TRUE
  MaxLines = 4
  MaxSeconds = 3
  Symbols = {"/", "a", "*", ".", " "}
  RootPrefixes <- Roots
  MaxText = 4
  MaxOther = 3
  Pages = {"/", "/a", "/b"}
  Home = "/"
  MaxLoads = 4
  MaxSession = 3
SPECIFICATION PartsSpec
INVARIANTS WithinLimits LinesKept FilesBounded PatternsMatch ListingsLead RefreshForgetsBelow ShowsWhereItIs
PROPERTY OnlyOldItemsLeave
CHECK_DEADLOCK FALSE
