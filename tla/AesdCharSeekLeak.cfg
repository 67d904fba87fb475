CONSTANTS
  AESDCHAR_MAX_WRITE_OPERATIONS_SUPPORTED = 1
  NULL = NULL
  Free = Free
  NEWLINE = NL
  x = x
  Byte = {NL, x}
  Proc = {u1, u2}
  File = {f1, f2}
  Ptr = {m1, m2, m3}
  Slack = 1
  Chunks <- WholeCommands
  ReadCounts = {1}
  Seeks <- MCSeeks
  LSeeks <- MCLSeeks
  MaxPending = 2
  MaxPos = 2
SPECIFICATION Spec
INVARIANT MutexReleased
