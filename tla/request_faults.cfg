CONSTANTS
  Threads = {t1, t2}
  Daemons = {d1, d2}
  MaxInst = 1
  Calls = {"getattr"}
  Faults = {"timeout", "signal", "crash", "daemonSignal", "writeEFAULT"}
SPECIFICATION Spec
INVARIANTS TypeOK OneOwner OneDaemon NoOrphanRequest NoLostWakeup ServesTheOwner
  AnswerIsOwnUnlessLate
PROPERTY ImplementsGate
SYMMETRY Symmetry
CHECK_DEADLOCK FALSE
