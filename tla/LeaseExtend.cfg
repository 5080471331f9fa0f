CONSTANTS
  c1 = c1
  c2 = c2
  h1 = h1
  h2 = h2
  Clients = {c1, c2}
  Names = {x1}
  Holders = {h1}
  Durations = {2, 3}
  Offset <- MCOffset
  NrRetries = 1
  Faulty = {}
  MaxTime = 6
  MaxFaults = 0
  None = None
SPECIFICATION Spec
INVARIANT ExtendPromiseKept
CHECK_DEADLOCK FALSE
