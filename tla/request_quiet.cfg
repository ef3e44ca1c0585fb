CONSTANTS
  Threads = {t1, t2}
  Daemons = {d1}
  MaxInst = 2
  Calls = {"lookup", "readdir"}
  Faults = {"writeEFAULT"}
SPECIFICATION FairSpec
INVARIANTS AnswerIsOwn ReadableAfterSelect
PROPERTIES AnswerArrives
CHECK_DEADLOCK FALSE
