SPECIFICATION Spec
CONSTANTS
  Caller = {c1, c2}
  None = None
  Name <- Names
  NoName = ""
  FallbackName = "lynx-app"
  Offered <- Configurations
  MaxStarts = 2
  MaxStops = 2
SYMMETRY Symmetry
INVARIANTS
  TypeOK
  StartedFromConfig
  LimiterUsable
  NoLeakedWorkers
  StoppableWorkers
  StoppingWorkersAwaited
  AwaitedWorkersSignalled
  DrainedMeansStopped
  PanicNeedsAbandonedWait
PROPERTY StopGroupSpec
