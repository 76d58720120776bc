SPECIFICATION FairSpec
CONSTANTS
  c1 = c1
  c2 = c2
  c3 = c3
  gm = gm
  a = a
  b = b
  c = c
  None = None
  Sockets = {c1, c2, c3}
  Accounts = {gm, a, b, c}
  Logins <- MCLogins
  GMs = {gm}
  PlayerLimit = 1
  MaxAsks <- MCMaxAsks
  MaxDrops = 1
INVARIANTS TypeOK NoDangling AdmittedIsNotQueued AtMostOneOver OneSessionUnqueued
PROPERTIES PlaceIsGiven LoginAnswered
CHECK_DEADLOCK FALSE
