SPECIFICATION ApiFairSpec
CONSTANTS
  Caller = {c1}
  Client = {p1}
  None = None
  Name <- Names
  NoName = ""
  FallbackName = "lynx-app"
  Offered <- WithAndWithout
  MaxStarts = 1
  MaxStops = 1
INVARIANTS
  ReadyStaysUsable
  NoNilDereference
PROPERTY WaitersReturn
