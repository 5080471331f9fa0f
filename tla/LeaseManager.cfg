CONSTANTS
  m1 = m1
  m2 = m2
  x1 = x1
  h1 = h1
  h2 = h2
  c1 = c1
  c2 = c2
  Managers = {m1, m2}
  Names = {x1}
  Holders = {h1, h2}
  Callers = {c1, c2}
  Requests <- MCRequests
  Killable = {m1}
  NrRetries = 2
  None = None
SPECIFICATION Spec
INVARIANTS
  NobodyForgotten
PROPERTIES
  ClaimSound
  NotHeldSound
  ReleaseSound
  QuietSettles
