CONSTANTS
  NPROC = 3
  MaxPid = 4
  None = None
  Panic = Panic
SPECIFICATION FairSpec
INVARIANTS
  WaitersMustWait
  ParentCanWait
  PidsUnique
PROPERTIES
  RunnableRuns
  WaitReturns
CHECK_DEADLOCK FALSE
