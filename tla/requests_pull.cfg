\* Transfers of two requests.
SPECIFICATION Safety
CONSTANTS
  r1 = r1
  r2 = r2
  Nobody = Nobody
  User = User
  Requests = {r1, r2}
  MaxCalls = 2
INVARIANT TransfersLeaveNothing
SYMMETRY RequestSymmetry
