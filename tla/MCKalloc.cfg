CONSTANTS
  Threads = {t1, t2, t3}
  NPAGES = 5
  PAGE_POOL_CAP = 2
  None = None
SYMMETRY Symmetry
SPECIFICATION Spec
INVARIANTS
  OnePlace
  FreelistOrdered
PROPERTIES
  ImplementsPageAlloc
CHECK_DEADLOCK FALSE
