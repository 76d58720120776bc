SPECIFICATION FairSpec
CONSTANTS
  Clients = {c1, c2}
  MaxIssue = 2
  Conns = 3
  MaxFaults = 1
  Spurious = TRUE
INVARIANTS TypeOK NoSleepOnWork InOrder ExecutorCleared
PROPERTIES QueueAppliedToEnd EndReturns CallersServed
CHECK_DEADLOCK FALSE
