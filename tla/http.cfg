SPECIFICATION Spec
CONSTANTS
  Request = {r1, r2}
  Code = {103, 200, 404, 500, 503}
  MaxCalls = 3
INVARIANTS
  RecordedIsSent
PROPERTY ReportedIsSent
CHECK_DEADLOCK FALSE
