CONSTANTS
  Client = {c1, c2}
  NULL = NULL
  MAIN = MAIN
  DESTROYED = DESTROYED
  NEWLINE = NL
  SEEKTO = SEEKTO
  DATA = DATA
  Scripts <- WithSilent
  Capacity = 2
  BUFFER_SIZE = 3
  Faults = {}
  MaxRestarts = 0
CHECK_DEADLOCK FALSE
SPECIFICATION FairSpec
PROPERTY LineAnswered
