SPECIFICATION Spec
CONSTANTS
  t1 = t1
  t2 = t2
  s1 = s1
  s2 = s2
  s3 = s3
  Thread <- MCThread
  Sector <- MCSector
  Owner <- MCOwner
  Value = {0, 1}
  Disk0 <- MCDisk
  CACHE_SIZE = 2
  NULL = NULL
  MaxCalls = 3
INVARIANT OwnWritesVisible
\* The calls of each thread are bounded.
CHECK_DEADLOCK FALSE
