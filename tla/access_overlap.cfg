\* A rotation that meets another one, without any failure.
SPECIFICATION Safety
CONSTANTS
  r1 = r1
  r2 = r2
  s1 = s1
  Daemon = Daemon
  Nobody = Nobody
  Rotators = {r1, r2}
  Sessions = {s1}
  MaxRotations = 2
  MaxSecret = 2
  MaxFaults = 0
INVARIANT ReplacedCredentialsAreDead
SYMMETRY SessionSymmetry
