SPECIFICATION Spec
CONSTANTS
  a = a
  d = d
  Threads = {t1, t2}
  Names = {a}
  MaxDepth = 2
  MaxVnodes = 3
  MaxNodeId = 4
  MaxLate = 1
  MountedOn = 0
  Disk <- DirWithFile
  Calls = {"lookup", "dotdot", "remove", "rmdir", "readdir"}
  Faults = {"timeout", "signal", "nomem"}
SYMMETRY Symmetry
INVARIANTS TypeOK CountIsExact
PROPERTY FreedOnlyUnreferenced
CHECK_DEADLOCK FALSE
