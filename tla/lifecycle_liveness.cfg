SPECIFICATION FairSpec
CONSTANTS
  Caller = {c1, c2}
  None = None
  Name <- Names
  NoName = ""
  FallbackName = "lynx-app"
  Offered <- OneWorker
  MaxStarts = 2
  MaxStops = 1
PROPERTIES
  CancelledCleanupReturns
  EveryCallReturns
  SignalledWorkersExit
