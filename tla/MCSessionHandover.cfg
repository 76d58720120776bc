SPECIFICATION FairSpec
CONSTANTS
  s1 = s1
  s2 = s2
  Sessions = {s1, s2}
  Maps = {1}
  MaxPackets <- MCMaxPackets
INVARIANTS TypeOK OneHome
PROPERTY DeadSessionsGo
CHECK_DEADLOCK FALSE
