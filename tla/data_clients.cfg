SPECIFICATION Spec
CONSTANTS
  Threads = {t1}
  Daemons = {d1}
  NoOne = NoOne
  PageSize = 2
  MaxSize = 4
  MaxInode = 2
  MaxTime = 1
  DiskSize = 1
  Writes <- OverBorder
  Reads <- AllOfIt
  Calls = {"lookup", "create", "remove", "write", "append", "read", "getattr", "close"}
  Faults = {"timeout", "other", "tick"}
  Rules = {"flushFirst", "statFirst", "noHoles", "window", "otherApart"}
INVARIANT TypeOK
PROPERTY ReadSeesWrites
CHECK_DEADLOCK FALSE
