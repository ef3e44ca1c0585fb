SPECIFICATION Spec
CONSTANTS
  a = a
  d = d
  Threads = {t1}
  Names = {a, d}
  MaxDepth = 2
  MaxVnodes = 3
  MaxNodeId = 4
  MaxLate = 1
  MountedOn = 0
  Disk <- FileTree
  Calls = {"lookup", "dotdot", "create", "remove", "mkdir", "rmdir", "readdir", "unmount"}
  Faults = {}
INVARIANTS EntriesExist NoLeak
CHECK_DEADLOCK FALSE
