CONSTANTS
  Procs = {p1, p2}
  Blocks = {b1, b2}
  Vals = {u, v}
  Kinds = {TRUE, FALSE}
  NUM = 7
  RING = 2
  IDX = 4
  Intr = Intr
  None = None
SYMMETRY Symmetry
SPECIFICATION Spec
INVARIANTS
  DescriptorsOwned
  CompletionsKept
PROPERTIES
  ImplementsBlockDevice
CHECK_DEADLOCK FALSE
