CONSTANTS
  Procs = {p1, p2, p3}
  Blocks = {b1, b2, b3}
  Vals = {u}
  Kinds = {FALSE}
  NUM = 4
  RING = 2
  IDX = 4
  Intr = Intr
  None = None
SPECIFICATION FairSpec
INVARIANT SleepersMustWait
PROPERTIES SubmittedReturns
CHECK_DEADLOCK FALSE
