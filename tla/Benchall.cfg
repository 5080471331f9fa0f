CONSTANTS
  Count = 1
  MaxN = 2
SPECIFICATION Spec
INVARIANTS
  OnlySecondPassKept
  ComparesEveryRound
PROPERTIES
  Terminates
  PrerequisitesFirst
