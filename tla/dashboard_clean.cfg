SPECIFICATION Spec
CONSTANTS
  MaxStarts = 2
  MaxInits = 2
INVARIANT TruthfulAfterCleanStops
CHECK_DEADLOCK FALSE
