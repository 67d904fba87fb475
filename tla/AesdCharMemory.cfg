CONSTANTS
  AESDCHAR_MAX_WRITE_OPERATIONS_SUPPORTED = 2
  NULL = NULL
  Free = Free
  NEWLINE = NL
  x = x
  Byte = {NL, x}
  Proc = {u1, u2}
  File = {f1}
  Ptr = {m1, m2, m3, m4}
  Slack = 1
  Chunks <- MCChunks
  ReadCounts = {2}
  Seeks <- None
  LSeeks <- None
  MaxPending = 3
  MaxPos = 3
SYMMETRY PtrProcSymmetry
CHECK_DEADLOCK FALSE
SPECIFICATION Spec
INVARIANTS HeapExact BlocksFit CopyInBounds FoundEntryHolds
PROPERTY ImplementsCharDevice
