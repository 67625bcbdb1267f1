SPECIFICATION Spec
CONSTANTS
  Name <- Names
  NoName = ""
  FallbackName = "lynx-app"
  Manager = {m1, m2}
  None = None
  Offered <- Configurations
  Added <- Additions
SYMMETRY Symmetry
INVARIANTS
  AddedRulesStay
