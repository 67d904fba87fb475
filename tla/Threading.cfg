CONSTANTS
  Thread = {t1, t2, t3}
  NULL = NULL
  Free = Free
CHECK_DEADLOCK FALSE
SPECIFICATION FairSpec
INVARIANTS DataOutlivesWriters SuccessIsTrue
PROPERTY ThreadsEnd
