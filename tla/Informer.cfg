CONSTANTS
  a = a
  b = b
  Keys = {a, b}
  Resyncs = TRUE
  MaxWrites = 3
  MaxBehind = 1
  MaxDeltas = 2
CONSTRAINT MCFirst
SPECIFICATION Spec
INVARIANTS
  QueueMatchesItems
  LiveObjectsArrive
  SyncedMeansListed
PROPERTIES
  StoreMovesForward
  DeletesOnlyDeleted
  GhostsAreUnknown
  Converges
CHECK_DEADLOCK FALSE
