CONSTANTS
  MaxDays = 3
  MaxWorkers = 2
  MaxRuns = 2
  Faults = {"check", "refresh"}
SPECIFICATION FairSpec
CHECK_DEADLOCK FALSE
INVARIANTS TypeOK CountsAgree FinishedRunComplete NoWorkAfterFinish BackfillInv
PROPERTIES ImplementsJob RunEnds
