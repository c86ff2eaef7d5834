\* A paste whose Android stopped while it let go of the modifiers starts it.
SPECIFICATION Safety
CONSTANTS
  ctrl = ctrl
  f1 = f1
  None = None
  Keys = {ctrl}
  Modifiers = {ctrl}
  Fingers = {f1}
  MaxHeld = 1
  MaxContacts = 1
  LaneSize = 1
  MaxIds = 2
  Environments = {{"stop", "midpaste"}}
PROPERTY StartedByOthers
