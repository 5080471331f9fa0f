CONSTANTS
  c1 = c1
  c2 = c2
  h1 = h1
  h2 = h2
  Clients = {c1, c2}
  Names = {x1}
  Holders = {h1, h2}
  Durations = {1}
  Offset <- MCOffset
  NrRetries = 2
  Faulty = {c1}
  MaxTime = 4
  MaxFaults = 1
  None = None
CONSTRAINT MCAsked
SPECIFICATION Spec
INVARIANTS
  RefreshFindsWriters
PROPERTY
  ImplementsLeases
CHECK_DEADLOCK FALSE
