SPECIFICATION FairSpec
CONSTANTS
  MaxMessages = 3
  MaxConn = 2
  MaxFaults = 1
  ControlRoom = 1
  SendRoom = 2
  NewestPage = 2
  RepairPage = 1
CHECK_DEADLOCK FALSE
INVARIANT TypeOK
PROPERTIES ResumeRepairs RepairCatchesUp FannedOutIsShown
