SPECIFICATION Spec
CONSTANTS
  MaxUsize = 3
  MaxRows = 2
  MaxBatches = 3
INVARIANTS
  TypeOK
  EveryRowIsAnswered
  WritesInBounds
  OnlyResultsRemain
