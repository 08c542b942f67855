CONSTANTS
  p1 = p1
  p2 = p2
  Pages = {p1, p2}
  Mode = "sync"
  MaxEdits = 4
  MaxFaults = 2
  MaxQueue = 2
SPECIFICATION FairSpec
INVARIANTS
  TypeOK
  CleanDuringSync
  NoRemoteChangeSkipped
PROPERTIES
  PushKeepsOthersWork
  WikiEditWins
  WorkingCopyReachesRemote
  
CHECK_DEADLOCK FALSE
