CONSTANTS
  Client = {c1, c2, c3}
  NULL = NULL
  OPEN_MAX = 8
  NEWLINE = NL
  DATA = DATA
  Scripts <- MCScripts
  Faults = {"start", "open", "write", "reset", "signal"}
  MaxStarts = 2
CHECK_DEADLOCK FALSE
SPECIFICATION FairSpec
INVARIANTS LinesWhole OnlyCutLeaks
PROPERTY EveryoneServed
