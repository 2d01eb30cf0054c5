SPECIFICATION MCSpec
CONSTANTS
  Thread = {1, 2}
  FreePages = 6
  UserPageLimit = 2
  MaxCount = 2
  Readers = {1, 2}
  Writers = {3}
  BUFSIZE = 3
  DiskUsers = {1, 2}
  Disks = {1, 2}
  MaxCalls = 2
  MaxWild = 1
  LEN = 2
  Printers = {1, 2}
  MaxDepth = 3
INVARIANTS
  PagesExclusive
  UsedExact
  SerialRight
  
  ConsoleRight
PROPERTIES
  FoundIfThere
  
  
CHECK_DEADLOCK FALSE
