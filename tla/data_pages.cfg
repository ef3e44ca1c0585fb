SPECIFICATION Spec
CONSTANTS
  Threads = {t1, t2}
  Daemons = {d1}
  NoOne = NoOne
  PageSize = 2
  MaxSize = 4
  MaxInode = 2
  MaxTime = 1
  DiskSize = 1
  Writes <- ByPieces
  Reads <- AllOfIt
  Calls = {"lookup", "create", "write", "read", "fsync"}
  Faults = {"pageout", "signal"}
  Rules = {"flushFirst", "statFirst", "noHoles", "window", "otherApart"}
INVARIANTS WrittenIsKept NoJunkStored PutInBounds
PROPERTY SyncStores
SYMMETRY Symmetry
CHECK_DEADLOCK FALSE
