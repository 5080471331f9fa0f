CONSTANTS
  Candidates = {c1, c2}
  None = None
  LeaseDuration = 7
  RenewDeadline = 2
  RetryPeriod = 1
  Latency = 1
  Second = 2
  MaxFaults = 2
SPECIFICATION Spec
INVARIANTS
  OneLeader
  LeaderHoldsRecord
PROPERTIES
  LeaderRemains
