SPECIFICATION Spec
CONSTANTS
  a = a
  d = d
  Threads = {t1, t2}
  Names = {a}
  MaxDepth = 2
  MaxVnodes = 3
  MaxNodeId = 4
  MaxLate = 1
  MountedOn = 0
  Disk <- EmptyDir
  Calls = {"lookup", "create", "rmdir", "unmount"}
  Faults = {"nomem"}
INVARIANTS CountIsExact RmdirLosesNothing
PROPERTY UnmountSparesUsed
SYMMETRY Symmetry
CHECK_DEADLOCK FALSE
