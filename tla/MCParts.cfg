SPECIFICATION MCSpec
CONSTANTS
  MaxList = 4
  MaxBits = 5
  MaxMem = 5
  Nil = Nil
  Sizes = {0, 1, 2, 4}
  Callers = {1, 2, 3}
  Procs = {1, 2}
  MaxFd = 5
  MaxLength = 1
  Loaders = {1, 2}
  KPages = {1, 2, 3}
  Frames = {1, 2}
INVARIANTS
  
  
  BlocksRight
  SpacesRight

  
  
CHECK_DEADLOCK FALSE
