SPECIFICATION Spec
CONSTANTS
  Recorder = {g1}
  Reader = {worker}
  Worker = worker
  Resource = {orders}
  Time = {2}
  Interval = {1}
  RTWindow = 3
  MaxRecords = 5
INVARIANT QPSIsRecent
