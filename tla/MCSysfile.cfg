CONSTANTS
  Procs = {p1, p2}
  None = None
  Names = {"a", "b"}
  NINODES = 3
  NINODE = 3
  Paths <- MCPaths
  Ops = {"open", "creat", "mkdir", "mknod", "unlink", "link"}
  Images <- MCImages
  MaxCalls = 3
  NFILE = 1
  NOFILE = 2
SYMMETRY Symmetry
SPECIFICATION Spec
INVARIANTS
  RefExact
  LinksCoverEntries
  CacheCoherent
  AssertionsHold
  NoDeadlock
CHECK_DEADLOCK FALSE
