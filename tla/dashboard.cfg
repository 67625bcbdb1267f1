SPECIFICATION FairSpec
CONSTANTS
  MaxStarts = 3
  MaxInits = 1
INVARIANTS
  TypeOK
  RunningHasInstance
  UptimeWhileRunning
  OwnServerEndsWithInstance
PROPERTIES
  StoppedInstancesLeave
  StoppedListenersClose
CHECK_DEADLOCK FALSE
