CONSTANTS
  p1 = p1
  p2 = p2
  Pages = {p1, p2}
  Mode = "sync"
  MaxEdits = 2
  MaxFaults = 0
  MaxQueue = 2
SPECIFICATION Spec
INVARIANT OwnCommitsNotReimported
CHECK_DEADLOCK FALSE
