SPECIFICATION Spec
CONSTANTS
  Threads = {t1, t2}
  Mounts = {m1, m2}
  MaxInst = 2
  NoOne = NoOne
  MaxMinor = 3
  Faults = {"timeout", "nomem", "daemonDies"}
  Rules = {"loadFirst", "deviceFirst", "closedFirst", "served", "wholeAttach", "detachOnly",
           "usersSeen"}
INVARIANTS LocksAreReturned NothingIsLeft DevicesDiffer
SYMMETRY Symmetry
CHECK_DEADLOCK FALSE
