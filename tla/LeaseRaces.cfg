CONSTANTS
  c1 = c1
  c2 = c2
  h1 = h1
  h2 = h2
  Clients = {c1, c2}
  Names = {x1}
  Holders = {h1, h2}
  Durations = {1, 2}
  Offset <- MCOffset
  NrRetries = 1
  Faulty = {}
  MaxTime = 3
  MaxFaults = 0
  None = None
SYMMETRY MCHolders
SPECIFICATION Spec
INVARIANTS
  CachedLeaseHolds
  PromiseKept
PROPERTIES
  ExpireSound
  NeverShortened
CHECK_DEADLOCK FALSE
