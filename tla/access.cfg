\* Rotations that overlap, with failures and kills at every point.
SPECIFICATION Spec
CONSTANTS
  r1 = r1
  r2 = r2
  s1 = s1
  Daemon = Daemon
  Nobody = Nobody
  Rotators = {r1, r2}
  Sessions = {s1}
  MaxRotations = 3
  MaxSecret = 3
  MaxFaults = 2
INVARIANTS TypeOK OneTurnserver ReplacedSecretsAreDead RestartKillsCredentials OpenSessionsHoldCurrent
PROPERTY RelayReturns
