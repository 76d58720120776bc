SPECIFICATION FairSpec
CONSTANTS
  Clients = {c1}
  MaxIssue = 1
  Conns = 3
  MaxFaults = 0
  Spurious = FALSE
PROPERTY QueueApplied
CHECK_DEADLOCK FALSE
