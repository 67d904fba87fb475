CONSTANTS
  AESDCHAR_MAX_WRITE_OPERATIONS_SUPPORTED = 2
  NULL = NULL
  Free = Free
  NEWLINE = NL
  x = x
  Byte = {NL, x}
  Proc = {u1, u2}
  File = {f1}
  Ptr = {m1, m2, m3, m4}
  Slack = 2
  Chunks <- WholeCommands
  ReadCounts = {1, 2}
  Seeks <- MCSeeks
  LSeeks <- MCLSeeks
  MaxPending = 2
  MaxPos = 2
SYMMETRY PtrProcSymmetry
CHECK_DEADLOCK FALSE
SPECIFICATION Spec
INVARIANTS TypeOK
PROPERTIES ReadServesPosition SeekFindsCommand
