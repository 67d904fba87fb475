CONSTANTS
  Client = {c1, c2}
  NULL = NULL
  MAIN = MAIN
  DESTROYED = DESTROYED
  NEWLINE = NL
  SEEKTO = SEEKTO
  DATA = DATA
  Scripts <- WholeMessages
  Capacity = 1
  BUFFER_SIZE = 4
  Faults = {"signal", "reset", "malloc", "pthread_create", "open"}
  MaxRestarts = 1
CHECK_DEADLOCK FALSE
SPECIFICATION FairSpec
INVARIANTS OneInside CommandFromOneClient
PROPERTIES EveryoneServed SignalEnds AnswerIsContent
