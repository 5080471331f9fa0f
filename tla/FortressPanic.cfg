CONSTANTS
  g1 = g1
  g2 = g2
  Guests = {g1, g2}
  Impatient = {"guard"}
  MaxLockdowns = 2
  MaxActive = 3
SPECIFICATION Spec
INVARIANT
  NeverPanics
