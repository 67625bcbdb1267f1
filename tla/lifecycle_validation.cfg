SPECIFICATION Spec
CONSTANTS
  Caller = {c1}
  None = None
  Name <- Names
  NoName = ""
  FallbackName = "lynx-app"
  Offered <- Configurations
  MaxStarts = 1
  MaxStops = 1
INVARIANTS
  EnforcedValidation
