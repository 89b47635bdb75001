CONSTANTS
  Procs = {1, 2}
  NINODES = 2
  NFILE = 3
  WriteCounts = {1, 4}
  ReadCounts = {3, 63}
  NBLOCKS = 5
  BSIZE = 2
  NDIRECT = 1
  NINDIRECT = 2
  MAXOPBLOCKS = 6
  BPB = 1
  UINT = 64
  MaxCalls = 3
SPECIFICATION FairSpec
INVARIANTS
  BitmapExact
  ContentsExact
  OpFitsLog
  NoPanic
PROPERTIES
  WriteReturns
CHECK_DEADLOCK FALSE
