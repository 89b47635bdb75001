CONSTANTS
  Procs = {p1, p2, p3}
  Blocks = {b1, b2}
  Vals = {u, v}
  LOGBLOCKS = 2
  MAXOPBLOCKS = 1
  Torn = Torn
  None = None
SPECIFICATION FairSpec
INVARIANTS
  QuiescentDurable
  PinnedUntilInstalled
  ReservationHolds
PROPERTIES
  AtomicSpec
  SleeperWoken
