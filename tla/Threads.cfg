SPECIFICATION Spec
CONSTANTS
  Main = Main
  Idle = Idle
  Worker = {w1, w2, w3}
  Sema = {s1}
  TidLock = TidLock
  IdleStarted = IdleStarted
  NULL = NULL
  TIME_SLICE = 2
  MaxValue = 2
  MaxTid = 5
INVARIANTS
  ThreadsWellFormed
  ElemExclusive
  NoLostWakeup
  NoDanglingThread
PROPERTIES
  EveryoneRuns
  ImplementsSemaphore
