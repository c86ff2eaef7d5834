\* A stop without an adb process leaves a qemu whose exit silences a later failed boot.
SPECIFICATION Spec
CONSTANTS
  c1 = c1
  c2 = c2
  Clients = {c1, c2}
  MaxRequests = 2
  Faults = {"spawn"}
PROPERTY
  RequestReturns
