CONSTANTS
  Procs = {p1}
  Blocks = {b1}
  Vals = {u}
  Kinds = {FALSE}
  NUM = 3
  RING = 2
  IDX = 4
  Intr = Intr
  None = None
SPECIFICATION WiredSpec
PROPERTIES SubmittedReturns
