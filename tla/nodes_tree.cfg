SPECIFICATION Spec
CONSTANTS
  a = a
  d = d
  Threads = {t1, t2, t3}
  Names = {a}
  MaxDepth = 2
  MaxVnodes = 3
  MaxNodeId = 4
  MaxLate = 1
  MountedOn = 0
  Disk <- DirWithFile
  Calls = {"lookup", "remove", "rmdir"}
  Faults = {}
INVARIANTS RequestNamesItsTarget OneVnodePerNumber
SYMMETRY Symmetry
CHECK_DEADLOCK FALSE
