CONSTANTS
  Client = {c1, c2, c3}
  NULL = NULL
  MAIN = MAIN
  DESTROYED = DESTROYED
  NEWLINE = NL
  SEEKTO = SEEKTO
  DATA = DATA
  Scripts <- MessagesAndSeeks
  Capacity = 2
  BUFFER_SIZE = 5
  Faults = {"write", "realloc"}
  MaxRestarts = 0
SYMMETRY ClientSymmetry
CHECK_DEADLOCK FALSE
SPECIFICATION Spec
INVARIANTS BufferHolds OneInside NodeOutlivesThread
PROPERTIES AnswerIsContent SeekAnswerIsSuffix
