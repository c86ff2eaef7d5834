\* Nothing is left behind and everything ends, where the environment keeps its promises.
SPECIFICATION Spec
CONSTANTS
  c1 = c1
  Clients = {c1}
  MaxRequests = 3
  Faults = {}
INVARIANTS
  StartHasDriver
  RunningIsWatched
  StoppedIsClean
PROPERTIES
  RequestReturns
  ShutdownCompletes
  ImplementsLifecycle
