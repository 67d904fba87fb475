CONSTANTS
  AESDCHAR_MAX_WRITE_OPERATIONS_SUPPORTED = 3
  NULL = NULL
  Ptr = {p1, p2, p3}
  Sizes = {0, 1, 2}
SPECIFICATION Spec
INVARIANTS TypeOK RingInv FindIsConcatenation SizesAgree
PROPERTY ImplementsCommandLog
