SPECIFICATION MCSpec
CONSTANTS
  SECTORS = 8
  SECTOR_SIZE = 2
  DIRECT = 1
  PTRS = 2
  JUNK = 99
  Sizes = {0, 7}
  Offsets = {1, 4}
  MaxRefs = 2
  MaxLength = 7
  MaxMarks = 2
  Names = {"a"}
  Procs = {1, 2}
  DirInos = {1, 2, 3}
  DirRefs = 4
  DirCalls = 4
  DirOpen = 1
INVARIANT MapExact
PROPERTIES
  
  ImplementsStore
  
  
CHECK_DEADLOCK FALSE
