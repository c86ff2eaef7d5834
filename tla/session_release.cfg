\* A cancelled task takes the release of a key or a finger with it.
SPECIFICATION Safety
CONSTANTS
  ctrl = ctrl
  f1 = f1
  f2 = f2
  None = None
  Keys = {ctrl}
  Modifiers = {ctrl}
  Fingers = {f1, f2}
  MaxHeld = 1
  MaxContacts = 2
  LaneSize = 1
  MaxIds = 3
  Environments = {{"cut"}}
SYMMETRY FingerSymmetry
INVARIANT AllLetGo
