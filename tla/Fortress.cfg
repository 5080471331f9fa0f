CONSTANTS
  g1 = g1
  g2 = g2
  Guests = {g1, g2}
  Impatient = {g1, "guard"}
  MaxLockdowns = 3
  MaxActive = 3
SPECIFICATION Spec
INVARIANTS
  BlockedForVisits
  LockdownExcludes
  DeadIsEmpty
  PanicNeedsAbort
PROPERTIES
  AbortedStaysClosed
  GuardIsAnswered
  KillEnds
