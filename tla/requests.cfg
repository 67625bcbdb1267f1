SPECIFICATION Spec
CONSTANTS
  Request = {r1, r2}
  RTWindow = 1
  MaxCalls = 3
  MaxCollectors = 2
SYMMETRY Symmetry
INVARIANTS
  TypeOK
  EntriesAreExited
  AdmissionsAreCounted
PROPERTIES
  FailuresReachTheCore
