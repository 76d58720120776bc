SPECIFICATION FairSpec
CONSTANTS
  Threads = {t1, t2, t3}
  Tasks = {k1, k2}
  NoTask = NoTask
  StartCount = 2
  CheckCount = 1
  Reserve = 2
INVARIANTS TypeOK NoDangling NoSleepOnTask
PROPERTIES SettledTasksExecuted ShutdownEnds
CHECK_DEADLOCK FALSE
