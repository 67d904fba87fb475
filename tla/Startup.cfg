CONSTANTS
  Server = {s1, s2}
  Thread = {t1, t2}
  NULL = NULL
  OPEN_MAX = 7
  Faults = TRUE
  MaxStarts = 1
  MaxClients = 2
CHECK_DEADLOCK FALSE
SPECIFICATION FairSpec
INVARIANTS SocketKept OneListens NumbersOwned
PROPERTY StartServes
