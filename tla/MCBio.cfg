CONSTANTS
  Procs = {p1, p2, p3}
  Blocks = {k1, k2, k3, k4}
  Vals = {u, v}
  NBUF = 2
  PinLimit = 2
  None = None
SYMMETRY Symmetry
SPECIFICATION Spec
INVARIANTS
  SameBlock
  RefcntExact
  SleepersMustWait
PROPERTIES
  ImplementsBlockCache
CHECK_DEADLOCK FALSE
