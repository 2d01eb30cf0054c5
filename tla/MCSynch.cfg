SPECIFICATION Spec
CONSTANTS
  t1 = t1
  t2 = t2
  t3 = t3
  l1 = l1
  l2 = l2
  c1 = c1
  c2 = c2
  Thread <- MCThread
  Lock <- MCLock2
  Cond <- MCCond2
  LockOf <- MCLockOf
  NULL = NULL
INVARIANTS
  TypeOK
  MutualExclusion
  HolderExact
  SignalsExact
PROPERTY BroadcastEnds
\* Threads that wait for a signal nobody sends stop the system.
CHECK_DEADLOCK FALSE
