CONSTANTS
  Readers = {r1}
  Writers = {w1, w2}
  Bytes = {a, b}
  PIPESIZE = 2
  UINT = 4
  MaxN = 2
  None = None
SPECIFICATION FairSpec
INVARIANTS
  SleepersMustWait
  NoUseAfterFree
PROPERTIES
  ImplementsByteQueue
  ReadReturns
  WriteReturns
CHECK_DEADLOCK FALSE
