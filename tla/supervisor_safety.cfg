\* Every safety property that needs no assumption on the environment.
SPECIFICATION Safety
CONSTANTS
  c1 = c1
  c2 = c2
  Clients = {c1, c2}
  MaxRequests = 2
  Faults = {"log", "spawn"}
SYMMETRY ClientSymmetry
INVARIANTS
  TypeOK
  NoOrphanedWaiter
  OneQemu
  OneRetryPerStart
  TeardownAlone
  FailureIsReported
  LeasesCounted
  ClosingOnlyStops
PROPERTIES
  IdleStopSparesLeases
  LifecycleSteps
