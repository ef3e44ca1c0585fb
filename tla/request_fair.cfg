CONSTANTS
  Threads = {t1, t2}
  Daemons = {d1}
  MaxInst = 1
  Calls = {"read"}
  Faults = {"timeout", "crash"}
SPECIFICATION FairSpec
PROPERTIES ClaimIsReleased SleeperIsWoken ImplementsFairGate
CHECK_DEADLOCK FALSE
