CONSTANTS
  Threads = {t1, t2}
  Daemons = {d1}
  MaxInst = 1
  Calls = {"getattr"}
  Faults = {"timeout"}
SPECIFICATION Spec
INVARIANT AnswerIsOwn
CHECK_DEADLOCK FALSE
