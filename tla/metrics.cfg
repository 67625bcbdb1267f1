SPECIFICATION Spec
CONSTANTS
  Recorder = {g1, g2}
  Reader = {worker, dashboard}
  Worker = worker
  Resource = {orders, users}
  Time = {2, 5}
  Interval = {0, 1}
  RTWindow = 2
  MaxRecords = 4
SYMMETRY Symmetry
INVARIANTS
  TypeOK
  SummaryIsSnapshot
  OneLateRecord
  WindowIsRecent
  StatsAreRight
PROPERTY
  RequestCountsSpec
