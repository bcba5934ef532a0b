SPECIFICATION MCSpec
CONSTANTS
  NumFiles = 3
  Workers = 2
  MaxBatches = 2
INVARIANTS
  MemoryBounded
  CompleteOnSuccess
PROPERTIES
  RefinesOrderedScan
  Terminates
\* A build that returned takes no further step.
CHECK_DEADLOCK FALSE
