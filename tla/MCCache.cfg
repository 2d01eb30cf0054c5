SPECIFICATION MCSpec
CONSTANTS
  s1 = s1
  s2 = s2
  s3 = s3
  s4 = s4
  t1 = t1
  t2 = t2
  Sector <- MCSector
  SECTOR_SIZE = 1
  Byte = {0, 1}
  CACHE_SIZE = 3
  NoSector = NoSector
  MaxRef = 4
SYMMETRY SectorSymmetry
INVARIANTS
  TypeOK
  TwinsSameAge
  SyncComplete
PROPERTIES
  ImplementsStore
  PartsExact
