CONSTANTS
  Keys = {a}
  Resyncs = FALSE
  MaxWrites = 2
  MaxBehind = 1
  MaxDeltas = 2
SPECIFICATION Spec
INVARIANT DeletionsProcessed
CHECK_DEADLOCK FALSE
