CONSTANTS
  AESDCHAR_MAX_WRITE_OPERATIONS_SUPPORTED = 1
  NULL = NULL
  Free = Free
  NEWLINE = NL
  x = x
  Byte = {NL, x}
  Proc = {u1, u2}
  File = {f1}
  Ptr = {m1, m2, m3}
  Slack = 1
  Chunks <- OneCommand
  ReadCounts = {1}
  Seeks <- None
  LSeeks <- OneLSeek
  MaxPending = 2
  MaxPos = 2
SPECIFICATION FairSpec
PROPERTY CallsReturn
