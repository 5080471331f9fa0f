CONSTANTS
  i1 = i1
  i2 = i2
  i3 = i3
  w1 = w1
  w2 = w2
  w3 = w3
  Items = {i1, i2, i3}
  Workers = {w1, w2, w3}
  Quitters = {w1, w2, w3}
  NoItem = NoItem
SPECIFICATION Spec
INVARIANTS
  QueueConsistent
  OneWorkerPerItem
  NoSleepOverWork
  DrainedAtExit
PROPERTIES
  QuittersEnd
  EveryItemProcessed
  ImplementsWorkSet
