SPECIFICATION Spec
CONSTANTS
  Requests = {r1, r2}
  Kinds = {"ack", "publish", "rollout"}
  Grace = 10
  Budget = 9
  HttpTime = 4
  WaitTime = 4
  FlushTime = 2
SYMMETRY RequestSymmetry
CHECK_DEADLOCK FALSE
INVARIANTS TypeOK OrderlyExit OneWayToWrite
