CONSTANTS
  NPROC = 2
  NFRAMES = 18
  PAGESIZE = 2
  FAN = 2
  UINT64 = 64
  MaxSz = 5
VIEW View
SPECIFICATION Spec
INVARIANTS
  OneUse
  SizeBacked
PROPERTIES
  RollbackComplete
CHECK_DEADLOCK FALSE
