SPECIFICATION FairSpec
CONSTANTS
  MaxConn = 4
  MaxFaults = 3
  MaxTries = 2
INVARIANTS TypeOK LinkedIsListedInOrder OnlineIsAlive
PROPERTIES WorkerFreed SettlesDown
CHECK_DEADLOCK FALSE
