\* Two requests of any kind over an Android that starts, crashes and stops.
SPECIFICATION Spec
CONSTANTS
  r1 = r1
  r2 = r2
  Nobody = Nobody
  User = User
  Requests = {r1, r2}
  MaxCalls = 2
INVARIANTS TypeOK FinishedLeavesNothing PastesDoNotMix
PROPERTY RequestsEnd
