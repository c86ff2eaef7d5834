\* The input of a session, through stops of Android and closes at any moment.
SPECIFICATION Spec
CONSTANTS
  ctrl = ctrl
  power = power
  f1 = f1
  None = None
  Keys = {ctrl}
  Modifiers = {ctrl}
  Fingers = {f1}
  MaxHeld = 1
  MaxContacts = 1
  LaneSize = 1
  MaxIds = 2
  Environments = {{"stop"}, {"stop", "midpaste"}}
INVARIANTS TypeOK NothingForgotten ClosedLetsGo HeldIsDown PasteHasNoModifiers
PROPERTY CloseCompletes
